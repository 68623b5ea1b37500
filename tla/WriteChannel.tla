---------------------------- MODULE WriteChannel ----------------------------
(***************************************************************************)
(* One output channel of an M1000: M1000_Device::write and flush on the    *)
(* application's thread, the channel's write_samples thread that run()     *)
(* spawns, and encode_out on the USB thread (src/src/device_m1000.cpp).    *)
(* They meet in a buffer guarded by m_out_samples_mtx, a lock-free queue   *)
(* of one producer and one consumer, the atomics m_out_samples_stop and    *)
(* m_out_samples_avail, and the device's m_state.                          *)
(*                                                                         *)
(* A sample is the number of its write; the channel is in a source mode.   *)
(***************************************************************************)
EXTENDS Integers, Sequences

CONSTANTS Capacity,  \* m_queue_size
          SPT,       \* samples per out transfer
          Sizes,     \* lengths of the buffers the application writes
          Cyclics,   \* values of write()'s cyclic argument, within BOOLEAN
          Counts,    \* arguments of run(); 0 is continuous mode
          Calls,     \* calls made besides write() and run(), within CallKinds
          MaxCalls,  \* bound on the calls of one behaviour
          AvailMod   \* 2^32 in the code: m_out_samples_avail is a uint32_t

CallKinds == {"flush", "off", "destroy"}

ASSUME WriteChannelAssumption ==
  /\ Capacity \in Nat \ {0} /\ SPT \in Nat \ {0}
  /\ Sizes \subseteq Nat \ {0} /\ Counts \subseteq Nat
  /\ Cyclics \subseteq BOOLEAN /\ Calls \subseteq CallKinds
  /\ MaxCalls \in Nat /\ AvailMod \in Nat \ {0}

None == 0

VARIABLES
  upc, after,       \* the application's thread; where flush() returns to
  arg,              \* the length and the flag of the write() in progress
  wpc,              \* the write_samples thread
  epc, left,        \* the USB thread; samples left to fill in its transfer
  mtx, state,       \* who holds m_out_samples_mtx and m_state
  buf, cyclic,      \* m_out_samples_buf and its cyclic flag
  it,               \* samples of buf pushed so far: the thread's iterator
  q,                \* m_out_samples_q
  stop,             \* m_out_samples_stop: 0, 1 stop, 2 pause, -1 exit
  avail,            \* m_out_samples_avail
  nextOut, prevOut, \* m_next_output and m_previous_output, None for NaN
  sampling, count, outNo, \* the capture: m_sample_count, m_out_sampleno
  feeding,          \* out transfers are still in rotation
  ePtr,             \* the global e_ptr is set
  stamp, sent,      \* last sample accepted by write(), and sent out
  made              \* calls made so far

userVars    == <<upc, after, arg, stamp, made>>
writerVars  == <<wpc, it>>
usbVars     == <<epc, left, nextOut, prevOut, outNo, feeding, sent>>
captureVars == <<sampling, count>>
lockVars    == <<mtx, state>>
bufVars     == <<buf, cyclic>>
vars == <<userVars, writerVars, usbVars, captureVars, lockVars, bufVars,
          q, stop, avail, ePtr>>

Idle == [n |-> 0, cyclic |-> FALSE]

-----------------------------------------------------------------------------
\* uint32_t arithmetic.
Plus(a, n)  == (a + n) % AvailMod
\* Mutant: signed arithmetic.
MinusSigned(a, n) == a - n
Minus(a, n) == (a - n) % AvailMod

\* Samples of the buffer that are not in the queue yet.
Rest == SubSeq(buf, it + 1, Len(buf))

\* m_out_samples_cv.notify_one: only the write_samples thread ever waits.
Notified == CASE wpc = "sleep"      -> "lock"
              [] wpc = "pauseSleep" -> "pauseCheck"
              [] OTHER              -> wpc

MoreOut == count = 0 \/ outNo < count

Init ==
  /\ upc = "idle" /\ after = "idle" /\ arg = Idle
  /\ wpc = "none" /\ epc = "idle" /\ left = 0
  /\ mtx = "none" /\ state = "none"
  /\ buf = <<>> /\ cyclic = FALSE /\ it = 0 /\ q = <<>>
  /\ stop = 0 /\ avail = 0
  /\ nextOut = None /\ prevOut = None
  /\ sampling = FALSE /\ count = 0 /\ outNo = 0 /\ feeding = FALSE
  /\ ePtr = FALSE
  /\ stamp = 0 /\ sent = 0 /\ made = 0

-----------------------------------------------------------------------------
(* The application's thread *)

MayCall == upc = "idle" /\ made < MaxCalls

\* write(): a cyclic buffer is flushed first.
CallWrite(n, cyc) ==
  /\ MayCall
  /\ made' = made + 1
  /\ arg' = [n |-> n, cyclic |-> cyc]
  /\ IF cyclic THEN upc' = "flushLock" /\ after' = "writeWait"
     ELSE upc' = "writeWait" /\ UNCHANGED after
  /\ UNCHANGED <<stamp, writerVars, usbVars, captureVars, lockVars, bufVars,
                 q, stop, avail, ePtr>>

\* Mutant: the wait has no timeout.
WriteWaitsForever == upc = "writeWait" /\ FALSE
\* The wait for the previous buffer: it is done, or the write timeout throws.
WriteTimeout ==
  /\ upc = "writeWait" /\ buf # <<>>
  /\ upc' = "idle" /\ arg' = Idle
  /\ UNCHANGED <<after, stamp, made, writerVars, usbVars, captureVars, lockVars,
                 bufVars, q, stop, avail, ePtr>>

\* The samples are promised to encode_out before they are handed over.
WritePromise ==
  /\ upc = "writeWait" /\ buf = <<>>
  /\ avail' = Plus(avail, arg.n)
  /\ upc' = "writeSet"
  /\ UNCHANGED <<after, arg, stamp, made, writerVars, usbVars, captureVars,
                 lockVars, bufVars, q, stop, ePtr>>

\* Mutant: the buffer is handed over without the mutex.
WriteSetNoLock ==
  /\ upc = "writeSet"
  /\ buf' = [i \in 1 .. arg.n |-> stamp + i]
  /\ cyclic' = arg.cyclic
  /\ stamp' = stamp + arg.n
  /\ wpc' = Notified
  /\ ePtr' = FALSE
  /\ upc' = "idle" /\ arg' = Idle
  /\ UNCHANGED <<after, made, it, usbVars, captureVars, lockVars, q, stop, avail>>
\* Hand the buffer over under the mutex, notify, rethrow a stored exception.
WriteSet ==
  /\ upc = "writeSet" /\ mtx = "none"
  /\ buf' = [i \in 1 .. arg.n |-> stamp + i]
  /\ cyclic' = arg.cyclic
  /\ stamp' = stamp + arg.n
  /\ wpc' = Notified
  /\ ePtr' = FALSE
  /\ upc' = "idle" /\ arg' = Idle
  /\ UNCHANGED <<after, made, it, usbVars, captureVars, lockVars, q, stop, avail>>

CallFlush ==
  /\ MayCall /\ "flush" \in Calls
  /\ made' = made + 1
  /\ upc' = "flushLock" /\ after' = "idle"
  /\ UNCHANGED <<arg, stamp, writerVars, usbVars, captureVars, lockVars, bufVars,
                 q, stop, avail, ePtr>>

\* Mutant: the queue is flushed without m_state.
FlushNoLock ==
  /\ upc = "flushLock"
  /\ stop' = 1
  /\ wpc' = Notified
  /\ upc' = "flushClear"
  /\ UNCHANGED <<after, arg, stamp, made, it, usbVars, captureVars, lockVars,
                 bufVars, q, avail, ePtr>>
\* flush(): take m_state, ask the write thread to stop ...
FlushLock ==
  /\ upc = "flushLock" /\ state = "none"
  /\ state' = "user"
  /\ stop' = 1
  /\ wpc' = Notified
  /\ upc' = "flushClear"
  /\ UNCHANGED <<after, arg, stamp, made, it, usbVars, captureVars, mtx,
                 bufVars, q, avail, ePtr>>

\* Mutant: the promises outlive the samples.
FlushKeepsAvail ==
  /\ upc = "flushClear" /\ mtx = "none"
  /\ q' = <<>>
  /\ state' = "none"
  /\ upc' = after /\ after' = "idle"
  /\ UNCHANGED <<arg, stamp, made, writerVars, usbVars, captureVars, mtx, bufVars,
                 stop, avail, ePtr>>
\* ... wait for its mutex, and empty the queue.
FlushClear ==
  /\ upc = "flushClear" /\ mtx = "none"
  /\ q' = <<>> /\ avail' = 0
  /\ state' = "none"
  /\ upc' = after /\ after' = "idle"
  /\ UNCHANGED <<arg, stamp, made, writerVars, usbVars, captureVars, mtx, bufVars,
                 stop, ePtr>>

\* run(): reset the counters, submit transfers, spawn or resume the thread.
CallRun(n) ==
  /\ MayCall /\ ~sampling
  /\ made' = made + 1
  /\ sampling' = TRUE /\ count' = n /\ outNo' = 0 /\ feeding' = TRUE
  /\ IF wpc = "none" THEN wpc' = "lock" /\ UNCHANGED stop
     ELSE IF stop = 2 THEN stop' = 0 /\ wpc' = Notified
     ELSE UNCHANGED <<wpc, stop>>
  /\ UNCHANGED <<upc, after, arg, stamp, it, epc, left, nextOut, prevOut, sent,
                 lockVars, bufVars, q, avail, ePtr>>

\* end(): a finite capture completes, a continuous one is cancelled, which
\* takes m_state; then off() pauses writing.
CallEnd ==
  /\ MayCall /\ "off" \in Calls /\ sampling
  /\ state = "none"
  /\ count = 0 \/ ~MoreOut \/ ~feeding
  /\ made' = made + 1
  /\ sampling' = FALSE /\ feeding' = FALSE
  /\ stop' = 2
  /\ ePtr' = (ePtr /\ count = 0)
  /\ UNCHANGED <<upc, after, arg, stamp, writerVars, epc, left, nextOut, prevOut,
                 outNo, sent, count, lockVars, bufVars, q, avail>>

\* The destructor: tell the write thread to exit ...
CallDestroy ==
  /\ MayCall /\ "destroy" \in Calls /\ ~sampling /\ wpc # "none"
  /\ made' = made + 1
  /\ stop' = -1
  /\ wpc' = Notified
  /\ upc' = "join"
  /\ UNCHANGED <<after, arg, stamp, it, usbVars, captureVars, lockVars, bufVars,
                 q, avail, ePtr>>

\* ... and join it.
Join ==
  /\ upc = "join" /\ wpc = "exit"
  /\ upc' = "gone"
  /\ UNCHANGED <<after, arg, stamp, made, writerVars, usbVars, captureVars,
                 lockVars, bufVars, q, stop, avail, ePtr>>

-----------------------------------------------------------------------------
(* The write_samples thread.  It holds the mutex except between buffers.   *)

\* A step of the thread that only goes from one control point to another.
WriterGoes(from, to) ==
  /\ wpc = from
  /\ wpc' = to
  /\ UNCHANGED <<userVars, it, usbVars, captureVars, bufVars, state, q, avail, ePtr>>

WriterLock ==
  /\ mtx = "none" /\ mtx' = "writer"
  /\ WriterGoes("lock", "check") /\ UNCHANGED stop

\* cv.wait evaluates its predicate, then releases the mutex and sleeps.
WriterCheck ==
  /\ WriterGoes("check", IF buf # <<>> \/ stop < 0 THEN "woken" ELSE "block")
  /\ UNCHANGED <<mtx, stop>>

WriterBlock ==
  /\ mtx' = "none"
  /\ WriterGoes("block", "sleep") /\ UNCHANGED stop

WriterExit ==
  /\ stop < 0
  /\ mtx' = "none"
  /\ WriterGoes("woken", "exit") /\ UNCHANGED stop

WriterStay ==
  /\ stop >= 0
  /\ WriterGoes("woken", "clear") /\ UNCHANGED <<mtx, stop>>

\* stop = 0, whatever it has become meanwhile.
WriterClear ==
  /\ stop' = 0
  /\ WriterGoes("clear", "push") /\ UNCHANGED mtx

Room == Capacity - Len(q)
Fitting == IF Len(Rest) < Room THEN Len(Rest) ELSE Room

\* Mutant: the iterator is left one short.
WriterPushAgain ==
  /\ wpc = "push"
  /\ q' = q \o SubSeq(buf, it + 1, it + Fitting)
  /\ it' = IF Fitting > 1 THEN it + Fitting - 1 ELSE it + Fitting
  /\ wpc' = "test"
  /\ UNCHANGED <<userVars, usbVars, captureVars, lockVars, bufVars, stop, avail, ePtr>>
\* q.push takes all the samples that fit at once.
WriterPush ==
  /\ wpc = "push"
  /\ q' = q \o SubSeq(buf, it + 1, it + Fitting)
  /\ it' = it + Fitting
  /\ wpc' = "test"
  /\ UNCHANGED <<userVars, usbVars, captureVars, lockVars, bufVars, stop, avail, ePtr>>

\* The head of the loop: more to push, start over, or done.
Onwards == IF it < Len(buf) THEN "push" ELSE IF cyclic THEN "again" ELSE "end"

\* if (stop == 2) ... else if (stop): two loads of the atomic.
WriterTest ==
  /\ WriterGoes("test", IF stop = 2 THEN "pauseCheck" ELSE "testStop")
  /\ UNCHANGED <<mtx, stop>>

WriterTestStop ==
  /\ WriterGoes("testStop", IF stop # 0 THEN "end" ELSE Onwards)
  /\ UNCHANGED <<mtx, stop>>

\* The pause waits with another mutex: m_out_samples_mtx stays locked.
WriterPauseCheck ==
  /\ WriterGoes("pauseCheck", IF stop # 2 THEN Onwards ELSE "pauseBlock")
  /\ UNCHANGED <<mtx, stop>>

WriterPauseBlock ==
  WriterGoes("pauseBlock", "pauseSleep") /\ UNCHANGED <<mtx, stop>>

\* A cyclic buffer is promised and pushed again.
WriterAgain ==
  /\ wpc = "again"
  /\ avail' = Plus(avail, Len(buf))
  /\ it' = 0
  /\ wpc' = "push"
  /\ UNCHANGED <<userVars, usbVars, captureVars, lockVars, bufVars, q, stop, ePtr>>

\* Stopped or done: wipe the buffer and release the mutex.
WriterEnd ==
  /\ wpc = "end"
  /\ buf' = IF stop # 0 \/ ~cyclic THEN <<>> ELSE buf
  /\ it' = 0
  /\ mtx' = "none"
  /\ wpc' = "lock"
  /\ UNCHANGED <<userVars, usbVars, captureVars, cyclic, state, q, stop, avail, ePtr>>

-----------------------------------------------------------------------------
(* The USB thread: submit_out_transfer, handle_out_transfer and encode_out *)

UsbUnchanged == UNCHANGED <<userVars, writerVars, captureVars, mtx, bufVars, stop>>

\* A kickoff or a completion fills the next transfer, under m_state.
OutBegins ==
  /\ epc = "idle" /\ sampling /\ feeding /\ MoreOut /\ state = "none"
  /\ state' = "usb" /\ epc' = "encode" /\ left' = SPT
  /\ UNCHANGED <<nextOut, prevOut, outNo, feeding, sent, q, avail, ePtr>>
  /\ UsbUnchanged

OutSubmitted ==
  /\ epc = "encode" /\ left = 0
  /\ state' = "none" /\ epc' = "idle"
  /\ UNCHANGED <<left, nextOut, prevOut, outNo, feeding, sent, q, avail, ePtr>>
  /\ UsbUnchanged

Encoding == epc = "encode" /\ left > 0
Due      == count = 0 \/ outNo <= count
Peek     == count > 0 /\ outNo = count
Promised == count = 0 \/ avail > 0

SampleDone ==
  /\ left' = left - 1
  /\ outNo' = IF count = 0 THEN outNo ELSE outNo + 1
  /\ UNCHANGED <<epc, feeding, state, ePtr>>
  /\ UsbUnchanged

\* The rest of the transfer after the requested samples.
EncodeFiller ==
  /\ Encoding /\ ~Due
  /\ SampleDone
  /\ UNCHANGED <<nextOut, prevOut, sent, q, avail>>

\* Mutant: a sample sent is still promised.
EmitsKeepsAvail(v) ==
  /\ nextOut' = IF Peek THEN v ELSE None
  /\ sent' = IF Peek THEN sent ELSE v
  /\ prevOut' = v
  /\ UNCHANGED avail
\* Sample v goes out; a peeked one stays next.
Emits(v) ==
  /\ nextOut' = IF Peek THEN v ELSE None
  /\ sent' = IF Peek THEN sent ELSE v
  /\ prevOut' = v
  /\ avail' = Minus(avail, 1)

EncodeNext ==
  /\ Encoding /\ Due /\ Promised /\ nextOut # None
  /\ Emits(nextOut)
  /\ SampleDone
  /\ UNCHANGED q

\* encode_out spins until the queue has a sample.
EncodePop ==
  /\ Encoding /\ Due /\ Promised /\ nextOut = None
  /\ q # <<>>
  /\ Emits(Head(q))
  /\ q' = Tail(q)
  /\ SampleDone

\* Nothing promised: the previous sample once more.
EncodeFallback ==
  /\ Encoding /\ Due /\ ~Promised /\ prevOut # None
  /\ SampleDone
  /\ UNCHANGED <<nextOut, prevOut, sent, q, avail>>

\* Nothing ever written: the exception ends this transfer; others may go on.
EncodeThrow ==
  /\ Encoding /\ Due /\ ~Promised /\ prevOut = None
  /\ ePtr' = (ePtr \/ MoreOut)
  /\ feeding' \in BOOLEAN
  /\ epc' = "idle" /\ state' = "none"
  /\ UNCHANGED <<left, nextOut, prevOut, outNo, sent, q, avail>>
  /\ UsbUnchanged

-----------------------------------------------------------------------------
UserCall ==
  \/ \E n \in Sizes, cyc \in Cyclics : CallWrite(n, cyc)
  \/ \E n \in Counts : CallRun(n)
  \/ CallFlush \/ CallEnd \/ CallDestroy

UserStep == WriteTimeout \/ WritePromise \/ WriteSet \/ FlushLock \/ FlushClear \/ Join

WriterStep ==
  \/ WriterLock \/ WriterCheck \/ WriterBlock \/ WriterExit \/ WriterStay
  \/ WriterClear \/ WriterPush \/ WriterTest \/ WriterTestStop
  \/ WriterPauseCheck \/ WriterPauseBlock \/ WriterAgain \/ WriterEnd

UsbStep ==
  \/ OutBegins \/ OutSubmitted \/ EncodeFiller \/ EncodeNext \/ EncodePop
  \/ EncodeFallback \/ EncodeThrow

Next == UserCall \/ UserStep \/ WriterStep \/ UsbStep

Spec == Init /\ [][Next]_vars

\* Every thread runs, and gets a mutex that is free again and again; the
\* application is never obliged to call anything.
FairSpec == Spec /\ SF_vars(UserStep) /\ SF_vars(WriterStep) /\ WF_vars(UsbStep)

-----------------------------------------------------------------------------
(* Properties *)

WriterPCs == {"none", "lock", "check", "block", "sleep", "woken", "clear", "push",
              "test", "testStop", "pauseCheck", "pauseBlock", "pauseSleep",
              "again", "end", "exit"}

\* Every variable stays in its type; the queue never exceeds its capacity
\* and the iterator never leaves the buffer.
TypeOK ==
  /\ upc \in {"idle", "writeWait", "writeSet", "flushLock", "flushClear", "join", "gone"}
  /\ after \in {"idle", "writeWait"}
  /\ arg.n \in Nat /\ arg.cyclic \in BOOLEAN
  /\ wpc \in WriterPCs
  /\ epc \in {"idle", "encode"} /\ left \in 0 .. SPT
  /\ mtx \in {"none", "writer"} /\ state \in {"none", "user", "usb"}
  /\ buf \in Seq(Nat) /\ cyclic \in BOOLEAN /\ it \in 0 .. Len(buf)
  /\ q \in Seq(Nat) /\ Len(q) <= Capacity
  /\ stop \in {-1, 0, 1, 2} /\ avail \in 0 .. AvailMod - 1
  /\ nextOut \in Nat /\ prevOut \in Nat
  /\ sampling \in BOOLEAN /\ count \in Nat /\ outNo \in Nat
  /\ feeding \in BOOLEAN /\ ePtr \in BOOLEAN
  /\ stamp \in Nat /\ sent \in Nat /\ made \in 0 .. MaxCalls

\* The queue has one consumer at a time: flush() never empties it while
\* encode_out is taking samples from it.
SingleConsumer == ~(upc = "flushClear" /\ epc = "encode")

\* A buffer that write() has handed over never finds the write thread asleep:
\* the notification cannot fall between its look at the buffer and its sleep.
NoLostBuffer == wpc = "sleep" => buf = <<>>

\* In noncontinuous mode encode_out is never promised a sample that will not
\* come: m_out_samples_avail counts at most what is queued, still in the
\* buffer or about to be handed over, though peeks and flushes lower it.
\* (flush() corrects it before it gives m_state back.)
NoOverpromise ==
  upc = "flushClear" \/
  avail <= Len(q) + Len(Rest) + (IF nextOut # None THEN 1 ELSE 0)
           + (IF upc = "writeSet" THEN arg.n ELSE 0)

\* In noncontinuous mode encode_out, which spins with m_state held, always
\* finishes its transfer.
EncodeTerminates == epc = "encode" ~> epc = "idle"

\* A write() returns: neither the wait for the buffer, which is bounded by a
\* timeout, nor the lock it then takes to fill it in is for ever, whatever the
\* write thread, the USB thread or a flush() do (device_m1000.cpp:598-620).
WritesReturn == upc \in {"writeWait", "writeSet"} ~> upc = "idle"

\* Every call on the channel returns (device_m1000.cpp:650, "wait for write
\* threads to stop"; device_m1000.hpp:107-110).
CallsReturn == upc # "idle" ~> upc \in {"idle", "gone"}

\* "If less than zero, the write thread will return -- used to signal the thread
\* to exit" (device_m1000.hpp:109-110).  The code does not keep to it: the
\* destructor stores and notifies without the mutex, and a thread between its
\* look and its sleep misses both.
WriterExits == stop < 0 ~> wpc = "exit"

=============================================================================
