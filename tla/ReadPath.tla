------------------------------ MODULE ReadPath ------------------------------
(***************************************************************************)
(* The input side of an M1000: handle_in_transfer on the USB thread queues *)
(* the samples of a transfer, read() and flush() on the application's      *)
(* thread take them out (src/src/device_m1000.cpp).  They meet in a queue  *)
(* of one producer and one consumer, the atomic m_in_samples_avail beside  *)
(* it, the global exception pointer e_ptr, and, for flush(), m_state.      *)
(*                                                                         *)
(* A sample is its number since the session began; its four values, which  *)
(* handle_in_transfer decodes, are left out.                               *)
(***************************************************************************)
EXTENDS Integers, Sequences

CONSTANTS Capacity,  \* m_queue_size
          SPT,       \* samples per in transfer
          Wants,     \* read()'s argument samples
          Blockings, \* whether read() has no timeout (-1), within BOOLEAN
          Skips,     \* values of read()'s skipsamples, within BOOLEAN
          Counts,    \* arguments of start(); 0 is continuous mode
          MaxMade,   \* bound on the samples of one behaviour
          Width      \* 2^32 in the code: remaining_samples is a uint32_t

ASSUME ReadPathAssumption ==
  /\ Capacity \in Nat \ {0} /\ SPT \in Nat \ {0}
  /\ Wants \subseteq Nat /\ Blockings \subseteq BOOLEAN /\ Skips \subseteq BOOLEAN
  /\ Counts \subseteq Nat /\ MaxMade \in Nat
  /\ Width \in Nat \ {0}

VARIABLES
  upc,              \* the application's thread
  want, blocking,   \* the arguments of the read() in progress
  remaining, take,  \* remaining_samples; samples to pop before the next look
  got,              \* samples in the caller's buffer
  last,             \* the variable `sample' of read(): the last one popped
  epc, left,        \* the USB thread; samples of its transfer still to handle
  state,            \* who holds m_state
  q, avail,         \* m_in_samples_q, m_in_samples_avail
  ePtr,             \* the global e_ptr is set
  sampling, count,  \* a capture is under way; m_sample_count
  inNo, due,        \* m_in_sampleno; transfers a finite capture still gets
  made, returned, lost  \* history: see SampleFeed

readVars    == <<want, blocking, remaining, take, got, last, returned>>
usbVars     == <<epc, left, inNo, due, made>>
captureVars == <<sampling, count>>
queueVars   == <<q, avail>>
vars == <<upc, readVars, usbVars, captureVars, queueVars, state, ePtr, lost>>

Init ==
  /\ upc = "idle" /\ want = 0 /\ blocking = FALSE
  /\ remaining = 0 /\ take = 0 /\ got = 0 /\ last = 0
  /\ epc = "idle" /\ left = 0 /\ state = "none"
  /\ q = <<>> /\ avail = 0 /\ ePtr = FALSE
  /\ sampling = FALSE /\ count = 0 /\ inNo = 0 /\ due = 0
  /\ made = 0 /\ returned = 0 /\ lost = 0

-----------------------------------------------------------------------------
(* The capture: start() and end() as far as the read path sees them *)

\* Transfers that start(n) will request: n rounded up to whole transfers.
TransfersFor(n) == (n + SPT - 1) \div SPT

\* start(n): the counters are reset, the queue and e_ptr are not.
CallStart(n) ==
  /\ upc = "idle" /\ ~sampling /\ epc = "idle"
  /\ sampling' = TRUE /\ count' = n
  /\ inNo' = 0 /\ due' = TransfersFor(n)
  /\ UNCHANGED <<upc, readVars, epc, left, made, queueVars, state, ePtr, lost>>

\* end(): all transfers of a finite capture are in, a continuous one is
\* cancelled; off() then rethrows a stored exception in noncontinuous mode.
CallEnd ==
  /\ upc = "idle" /\ sampling /\ epc = "idle"
  /\ count > 0 => due = 0
  /\ sampling' = FALSE
  /\ IF ePtr /\ count > 0 THEN ePtr' = FALSE /\ lost' = 0
     ELSE UNCHANGED <<ePtr, lost>>
  /\ UNCHANGED <<upc, readVars, usbVars, count, queueVars, state>>

-----------------------------------------------------------------------------
(* The USB thread: in_completion and handle_in_transfer, under m_state *)

UsbFrame == UNCHANGED <<upc, readVars, captureVars>>

TransferArrives ==
  /\ epc = "idle" /\ sampling /\ state = "none"
  /\ count > 0 => due > 0
  /\ made + SPT <= MaxMade
  /\ state' = "usb" /\ epc' = "sample" /\ left' = SPT
  /\ due' = IF count > 0 THEN due - 1 ELSE due
  /\ UNCHANGED <<inNo, made, queueVars, ePtr, lost>> /\ UsbFrame

\* The sample about to be counted is one of those start() asked for.
AskedFor == count = 0 \/ inNo + 1 <= count

Counted == inNo' = IF count = 0 THEN inNo ELSE inNo + 1

\* The sample is queued; the count of available ones follows.
PushSample ==
  /\ epc = "sample" /\ left > 0 /\ AskedFor /\ Len(q) < Capacity
  /\ q' = Append(q, made + 1)
  /\ made' = made + 1 /\ Counted
  /\ epc' = "bump"
  /\ UNCHANGED <<left, due, avail, state, ePtr, lost>> /\ UsbFrame

BumpAvail ==
  /\ epc = "bump"
  /\ avail' = avail + 1
  /\ left' = left - 1 /\ epc' = "sample"
  /\ UNCHANGED <<inNo, due, made, q, state, ePtr, lost>> /\ UsbFrame

\* What completes a capture's last transfer beyond the request.
SurplusSample ==
  /\ epc = "sample" /\ left > 0 /\ ~AskedFor
  /\ made' = made + 1 /\ Counted
  /\ left' = left - 1
  /\ UNCHANGED <<epc, due, queueVars, state, ePtr, lost>> /\ UsbFrame

\* Mutant: the rest of the transfer is dropped without an exception.
DropSilently ==
  /\ epc = "sample" /\ left > 0 /\ AskedFor /\ Len(q) = Capacity
  /\ made' = made + left /\ Counted
  /\ lost' = IF lost = 0 THEN made + 1 ELSE lost
  /\ epc' = "idle" /\ left' = 0 /\ state' = "none"
  /\ UNCHANGED <<due, queueVars, ePtr>> /\ UsbFrame
\* No room: the exception that in_completion stores ends the transfer, whose
\* other samples are lost with this one and not counted.
DropTransfer ==
  /\ epc = "sample" /\ left > 0 /\ AskedFor /\ Len(q) = Capacity
  /\ made' = made + left /\ Counted
  /\ ePtr' = TRUE
  /\ lost' = IF lost = 0 THEN made + 1 ELSE lost
  /\ epc' = "idle" /\ left' = 0 /\ state' = "none"
  /\ UNCHANGED <<due, queueVars>> /\ UsbFrame

TransferDone ==
  /\ epc = "sample" /\ left = 0
  /\ epc' = "idle" /\ state' = "none"
  /\ UNCHANGED <<left, inNo, due, made, queueVars, ePtr, lost>> /\ UsbFrame

-----------------------------------------------------------------------------
(* The application's thread: read() and flush() *)

UserFrame == UNCHANGED <<usbVars, captureVars>>

CallRead(n, block, skip) ==
  /\ upc = "idle"
  /\ want' = n /\ blocking' = block /\ remaining' = n /\ got' = 0
  /\ upc' = IF skip THEN "skip" ELSE "look"
  /\ UNCHANGED <<take, last, returned, queueVars, state, ePtr, lost>> /\ UserFrame

\* Mutant: subtracts without comparing first.
SkipUnchecked ==
  /\ upc = "skip"
  /\ take' = avail - want
  /\ upc' = "skipping"
  /\ UNCHANGED <<want, blocking, remaining, got, last, returned, queueVars, state,
                 ePtr, lost>> /\ UserFrame
\* skipsamples: give up what is queued beyond the wanted number ...
SkipLook ==
  /\ upc = "skip"
  /\ take' = IF avail > want THEN avail - want ELSE 0
  /\ upc' = "skipping"
  /\ UNCHANGED <<want, blocking, remaining, got, last, returned, queueVars, state,
                 ePtr, lost>> /\ UserFrame

\* pop() leaves the variable alone when the queue is empty.
Popped == IF q = <<>> THEN last ELSE Head(q)
Rest   == IF q = <<>> THEN <<>> ELSE Tail(q)

\* ... one by one.  (The USB thread never looks at avail: taking one off at
\* each pop is the same to it as taking all off in the end.)
SkipPop ==
  /\ upc = "skipping" /\ take > 0
  /\ q' = Rest /\ avail' = avail - 1 /\ take' = take - 1
  /\ UNCHANGED <<upc, want, blocking, remaining, got, last, returned, state, ePtr,
                 lost>> /\ UserFrame

SkipDone ==
  /\ upc = "skipping" /\ take = 0
  /\ upc' = "look"
  /\ UNCHANGED <<readVars, queueVars, state, ePtr, lost>> /\ UserFrame

\* The head of the loop compares with m_in_samples_avail ...
Look ==
  /\ upc = "look"
  /\ CASE remaining = 0 -> upc' = "check" /\ UNCHANGED take
       [] remaining > avail -> upc' = "load" /\ UNCHANGED take
       [] OTHER -> upc' = "pop" /\ take' = remaining
  /\ UNCHANGED <<want, blocking, remaining, got, last, returned, queueVars, state,
                 ePtr, lost>> /\ UserFrame

\* Mutant: takes what it still needs, there or not.
LoadNothing ==
  /\ upc = "load"
  /\ take' = remaining
  /\ upc' = "pop"
  /\ UNCHANGED <<want, blocking, remaining, got, last, returned, queueVars, state,
                 ePtr, lost>> /\ UserFrame
\* ... and then loads it again: more may have come meanwhile.
LoadAvail ==
  /\ upc = "load"
  /\ take' = avail
  /\ upc' = "pop"
  /\ UNCHANGED <<want, blocking, remaining, got, last, returned, queueVars, state,
                 ePtr, lost>> /\ UserFrame

\* remaining_samples is unsigned: it wraps when more is popped than remained.
\* (It is lowered here with each pop, in the code after the last.)
PopSample ==
  /\ upc = "pop" /\ take > 0
  /\ last' = Popped /\ q' = Rest
  /\ avail' = avail - 1 /\ take' = take - 1
  /\ got' = got + 1
  /\ remaining' = (remaining - 1) % Width
  /\ UNCHANGED <<upc, want, blocking, returned, state, ePtr, lost>> /\ UserFrame

\* After the pops: all there, ...
Fulfilled ==
  /\ upc = "pop" /\ take = 0 /\ remaining = 0
  /\ upc' = "check"
  /\ UNCHANGED <<readVars, queueVars, state, ePtr, lost>> /\ UserFrame

\* ... or out of time, ...
OutOfTime ==
  /\ upc = "pop" /\ take = 0 /\ remaining # 0 /\ ~blocking
  /\ upc' = "check"
  /\ UNCHANGED <<readVars, queueVars, state, ePtr, lost>> /\ UserFrame

\* Mutant: the loop goes on whatever happened on the USB thread.
GoOnRegardless ==
  /\ upc = "pop" /\ take = 0 /\ remaining # 0
  /\ upc' = "look"
  /\ UNCHANGED <<readVars, queueVars, state, ePtr, lost>> /\ UserFrame
\* ... or around again, unless there is an exception to report.
GoOn ==
  /\ upc = "pop" /\ take = 0 /\ remaining # 0
  /\ upc' = IF ePtr THEN "check" ELSE "look"
  /\ UNCHANGED <<readVars, queueVars, state, ePtr, lost>> /\ UserFrame

\* read() copies a stored exception, clears the pointer and rethrows: one
\* stored in between is forgotten, but the caller learns of a loss after it.
CopyException ==
  /\ upc = "check" /\ ePtr
  /\ upc' = "clear"
  /\ UNCHANGED <<readVars, queueVars, state, ePtr, lost>> /\ UserFrame

Rethrow ==
  /\ upc = "clear"
  /\ ePtr' = FALSE /\ lost' = 0
  /\ upc' = "idle"
  /\ UNCHANGED <<readVars, queueVars, state>> /\ UserFrame

ReturnSamples ==
  /\ upc = "check" /\ ~ePtr
  /\ returned' = last
  /\ upc' = "idle"
  /\ UNCHANGED <<want, blocking, remaining, take, got, last, queueVars, state, ePtr,
                 lost>> /\ UserFrame

\* write() rethrows a stored exception too, whichever thread's data it is about.
CallWrite ==
  /\ upc = "idle" /\ ePtr
  /\ upc' = "clear"
  /\ UNCHANGED <<readVars, queueVars, state, ePtr, lost>> /\ UserFrame

\* Mutant: the queue is emptied while a transfer is being handled.
FlushNoLock ==
  /\ upc = "idle"
  /\ q' = <<>> /\ avail' = 0
  /\ UNCHANGED <<upc, readVars, state, ePtr, lost>> /\ UserFrame
\* flush(): empty the queue under m_state.
CallFlush ==
  /\ upc = "idle" /\ state = "none"
  /\ q' = <<>> /\ avail' = 0
  /\ UNCHANGED <<upc, readVars, state, ePtr, lost>> /\ UserFrame

-----------------------------------------------------------------------------
Calls ==
  \/ CallEnd \/ CallFlush \/ CallWrite
  \/ \E n \in Counts : CallStart(n)
  \/ \E n \in Wants, block \in Blockings, skip \in Skips : CallRead(n, block, skip)

UserStep ==
  \/ SkipLook \/ SkipPop \/ SkipDone \/ Look \/ LoadAvail \/ PopSample
  \/ Fulfilled \/ OutOfTime \/ GoOn \/ CopyException \/ Rethrow \/ ReturnSamples

UsbStep ==
  \/ TransferArrives \/ PushSample \/ BumpAvail \/ SurplusSample \/ DropTransfer
  \/ TransferDone

Next == Calls \/ UserStep \/ UsbStep

Spec == Init /\ [][Next]_vars

\* Both threads run and the clock goes on; nobody has to call anything.
FairSpec ==
  Spec /\ WF_vars(UserStep) /\ WF_vars(UsbStep) /\ SF_vars(OutOfTime)

-----------------------------------------------------------------------------
(* Properties *)

UserPCs == {"idle", "skip", "skipping", "look", "load", "pop", "check", "clear"}

\* Every variable has its type (the C++ declarations of device_m1000.hpp).
TypeOK ==
  /\ upc \in UserPCs /\ want \in Nat /\ blocking \in BOOLEAN
  /\ remaining \in Nat /\ take \in Nat /\ got \in Nat
  /\ last \in Nat /\ returned \in Nat /\ lost \in Nat
  /\ epc \in {"idle", "sample", "bump"} /\ left \in Nat
  /\ state \in {"none", "usb"}
  /\ q \in Seq(Nat) /\ avail \in Int
  /\ ePtr \in BOOLEAN /\ sampling \in BOOLEAN /\ count \in Nat
  /\ inNo \in Nat /\ due \in Nat /\ made \in Nat

\* m_in_samples_avail, which the two threads change beside the queue and
\* flush() resets, lags behind the queue by the sample being pushed at most:
\* it never promises a sample that is not there (device_m1000.hpp:86-89).
AvailExact == Len(q) = avail + (IF epc = "bump" THEN 1 ELSE 0)

\* read() pops no more than the queue holds, however the USB thread and the
\* reads' own two looks at m_in_samples_avail interleave: no stale `sample'
\* is copied out a second time (device_m1000.cpp:528-535, 547-551).
PopsWhatIsThere == upc \in {"skipping", "pop"} => take <= Len(q)

\* A read() that may time out, or that has an exception of the USB thread to
\* report, returns (device_m1000.cpp:558-576).
ReadReturns == (upc # "idle" /\ (~blocking \/ ePtr)) ~> (upc = "idle")

\* libsmu.hpp:385-386 on a read without timeout: it blocks until the
\* requested number of samples is available - and no longer.
BlockingReadReturns == (upc # "idle" /\ got + Len(q) >= want) ~> (upc = "idle")

=============================================================================
