------------------------------ MODULE Streaming ------------------------------
(***************************************************************************)
(* Session-level streaming of libsmu: Session::start, run, end, cancel,    *)
(* configure, handle_error and completion (src/src/session.cpp) together   *)
(* with the per-device transfer engine they drive (M1000_Device::run,      *)
(* submit_*_transfer, *_completion, cancel, off in                         *)
(* src/src/device_m1000.cpp and Transfers in src/src/usb.cpp).             *)
(*                                                                         *)
(* Threads: the user's thread, the session's USB event thread, and the     *)
(* detached thread M1000_Device::run spawns per device to submit the first *)
(* transfers.  Locks: one recursive m_state per device, one m_lock per     *)
(* session.  Sample values are left out; samples are counted.              *)
(***************************************************************************)
EXTENDS Integers, FiniteSets

CONSTANTS N,          \* devices in the session, numbered in m_devices' order
          NT,         \* transfers per direction (2 in M1000_Device::configure)
          SPT,        \* samples per transfer
          Counts,     \* arguments of start()/run(); 0 is continuous mode
          MaxStarts,  \* bound on the calls of start() in one behaviour
          CounterMod, \* 2^w for m_active_devices, an unsigned of w bits
          Faults      \* what may go wrong, a subset of FaultKinds

\* stall: a device answers later than end() waits.  short: the caller begins
\* captures with start() that are longer than the last run()'s, from which
\* end() reckons its wait.  submit, transfer, cancel, ctrl: that libusb call
\* fails.  nodev: a control transfer returns NO_DEVICE.  underflow, drop:
\* write data missing, read queue full.  torn: the unlocked ++ and -= of
\* m_active_devices are a load and a store.
FaultKinds == {"stall", "short", "submit", "transfer", "cancel", "ctrl",
               "nodev", "underflow", "drop", "torn"}

ASSUME StreamingAssumption ==
  /\ N \in Nat \ {0}
  /\ NT \in Nat \ {0}
  /\ SPT \in Nat \ {0}
  /\ Counts \subseteq Nat
  /\ MaxStarts \in Nat
  /\ CounterMod \in Nat /\ CounterMod > N
  /\ Faults \subseteq FaultKinds

Devices  == 1 .. N
Dirs     == {"in", "out"}
Slots    == 1 .. NT
Statuses == {"completed", "cancelled", "error"}

\* Thread d \in Devices is the kickoff thread of device d.
User    == 0
Usb     == -1
Threads == Devices \cup {User, Usb}
Nobody  == -2

VARIABLES
  pc, cur, ret,      \* per thread: control point, device cursor, return point
  next,              \* next[d]: the kickoff loop's position in m_transfers
  cb,                \* the callback the USB thread is running
  stateOwner,        \* stateOwner[d]: who holds device d's m_state
  lockOwner,         \* who holds m_lock
  flight, marked,    \* transfers libusb holds; those asked to be cancelled
  numActive,         \* Transfers::num_active
  capture,           \* per device: m_sample_count and the sample counters
  sampling,          \* sampling[d]: the device has been told to sample
  activeDevices,     \* m_active_devices
  loaded,            \* the value a torn ++ or -= has read
  cancellation,      \* m_cancellation # 0
  continuous,        \* m_continuous
  ePtr,              \* the global e_ptr is set
  session,           \* the caller's view: "stopped", "started" or "failed"
  want, thenEnd,     \* start()'s argument; the call is run()
  samples,           \* m_samples: the argument of the last run()
  starts,            \* calls of start() so far
  calls, called      \* history: completion() calls per device (0, 1, 2 for
                     \* more) and whether m_completion_callback ran, since
                     \* the last start()

threadVars == <<pc, cur, ret, next, cb>>
lockVars   == <<stateOwner, lockOwner>>
usbVars    == <<flight, marked, numActive>>
userVars   == <<session, want, thenEnd, samples, starts>>
flagVars   == <<cancellation, continuous, ePtr>>
countVars  == <<activeDevices, loaded>>
history    == <<calls, called>>
vars == <<threadVars, lockVars, usbVars, capture, sampling, countVars,
          flagVars, userVars, history>>

NoCallback == [dev |-> 1, dir |-> "in", t |-> 1, status |-> "completed"]
NoCapture  == [count |-> 0, req |-> 0, out |-> 0, ins |-> 0, got |-> 0]

-----------------------------------------------------------------------------
Goto(th, l) == pc' = [pc EXCEPT ![th] = l]

\* The unsigned counter's ++ and -= 1.
Inc(x) == IF x = CounterMod - 1 THEN 0 ELSE x + 1
\* Mutant: a counter that goes below zero.
DecSigned(x) == x - 1
Dec(x) == IF x = 0 THEN CounterMod - 1 ELSE x - 1

Lesser(a, b) == IF a < b THEN a ELSE b

\* A synchronous control transfer returns only once the USB thread is not
\* inside a callback: it holds libusb's event lock while it runs one.
EventLoopFree == pc[Usb] = "idle"

\* Device d has no transfer with libusb and none on its way there.
Drained(d) == /\ flight[<<d, "in">>] = {} /\ flight[<<d, "out">>] = {}
              /\ pc[d] = "none"

Quiescent == EventLoopFree /\ \A d \in Devices : Drained(d)

-----------------------------------------------------------------------------
(* The sample counters of one device *)

\* Mutant: compares the counter as it was one transfer ago.
MoreInLate(c) == c.count = 0 \/ c.req - SPT < c.count
MoreIn(c)  == c.count = 0 \/ c.req < c.count
MoreOut(c) == c.count = 0 \/ c.out < c.count

\* The counters only matter in noncontinuous mode: with m_sample_count = 0
\* they are never compared with anything, so they stay put.
Requested(c) == IF c.count = 0 THEN c ELSE [c EXCEPT !.req = @ + SPT]

\* n samples arrived and those within the requested count were queued.
Received(c, n) ==
  IF c.count = 0 THEN c
  ELSE [c EXCEPT !.ins = @ + n,
                 !.got = @ + Lesser(c.count, c.ins + n) - Lesser(c.count, c.ins)]

\* handle_in_transfer: a full transfer, or a push that failed after n samples.
Arrivals(c) ==
  {[cap |-> Received(c, SPT), threw |-> FALSE]}
  \cup {[cap |-> IF c.count = 0 THEN c ELSE [Received(c, n) EXCEPT !.ins = @ + 1],
         threw |-> TRUE] :
          n \in {k \in 0 .. SPT - 1 :
                   "drop" \in Faults /\ (c.count = 0 \/ c.ins + k < c.count)}}

\* handle_out_transfer: a full transfer, or encode_out throwing at sample n.
Encodings(c) ==
  {[cap |-> IF c.count = 0 THEN c ELSE [c EXCEPT !.out = @ + SPT],
    threw |-> FALSE]}
  \cup {[cap |-> [c EXCEPT !.out = @ + n], threw |-> TRUE] :
          n \in {k \in 0 .. SPT - 1 :
                   "underflow" \in Faults /\ c.count > 0 /\ c.out + k <= c.count}}

-----------------------------------------------------------------------------
(* Transfers *)

\* libusb_submit_transfer: a transfer it already holds is refused (BUSY).
SubmitResults(d, dir, t) ==
  IF t \in flight[<<d, dir>>] THEN {"failed"}
  ELSE {"ok"} \cup (IF "submit" \in Faults THEN {"failed"} ELSE {})

\* Mutant: num_active is counted for a refused submission too.
SubmittedOrNot(d, dir, t, r) ==
  /\ flight' = IF r = "ok" THEN [flight EXCEPT ![<<d, dir>>] = @ \cup {t}] ELSE flight
  /\ numActive' = [numActive EXCEPT ![<<d, dir>>] = @ + 1]
Submitted(d, dir, t, r) ==
  IF r = "ok"
  THEN /\ flight' = [flight EXCEPT ![<<d, dir>>] = @ \cup {t}]
       /\ numActive' = [numActive EXCEPT ![<<d, dir>>] = @ + 1]
  ELSE UNCHANGED <<flight, numActive>>

\* submit_in_transfer on counters c, returning r.
SubmitIn(d, t, c, r) ==
  IF MoreIn(c)
  THEN /\ r \in SubmitResults(d, "in", t)
       /\ Submitted(d, "in", t, r)
       /\ capture' = [capture EXCEPT ![d] = IF r = "ok" THEN Requested(c) ELSE c]
  ELSE /\ r = "closed"
       /\ capture' = [capture EXCEPT ![d] = c]
       /\ UNCHANGED <<flight, numActive>>

\* submit_out_transfer: encode, then submit unless the encoder threw early.
SubmitOut(d, t, r) ==
  IF MoreOut(capture[d])
  THEN \E e \in Encodings(capture[d]) :
         /\ capture' = [capture EXCEPT ![d] = e.cap]
         /\ IF e.threw /\ MoreOut(e.cap)
            THEN /\ r = "threw"
                 /\ ePtr' = TRUE
                 /\ UNCHANGED <<flight, numActive>>
            ELSE /\ r \in SubmitResults(d, "out", t)
                 /\ Submitted(d, "out", t, r)
                 /\ UNCHANGED ePtr
  ELSE /\ r = "closed"
       /\ UNCHANGED <<flight, numActive, capture, ePtr>>

Results == {"ok", "closed", "failed", "threw"}

\* Transfers::cancel asks libusb to cancel only while num_active > 1.
Cancellable(d, dir) == IF numActive[<<d, dir>>] > 1 THEN flight[<<d, dir>>] ELSE {}

\* M1000_Device::cancel on device d by thread th, which may already hold
\* the recursive m_state; ok is its result.
CancelDevice(th, d, ok) ==
  /\ stateOwner[d] \in {Nobody, th}
  /\ \/ /\ ok
        /\ marked' = [marked EXCEPT
                        ![<<d, "in">>]  = @ \cup Cancellable(d, "in"),
                        ![<<d, "out">>] = @ \cup Cancellable(d, "out")]
     \/ /\ ~ok
        /\ "cancel" \in Faults
        /\ \E dir \in Dirs : numActive[<<d, dir>>] > 1
        /\ \E i \in SUBSET Cancellable(d, "in"), o \in SUBSET Cancellable(d, "out") :
             marked' = [marked EXCEPT ![<<d, "in">>] = @ \cup i, ![<<d, "out">>] = @ \cup o]

-----------------------------------------------------------------------------
Init ==
  /\ pc = [th \in Threads |-> IF th \in {User, Usb} THEN "idle" ELSE "none"]
  /\ cur = [th \in Threads |-> 1]
  /\ ret = [th \in Threads |-> "idle"]
  /\ next = [d \in Devices |-> 1]
  /\ cb = NoCallback
  /\ stateOwner = [d \in Devices |-> Nobody]
  /\ lockOwner = Nobody
  /\ flight = [x \in Devices \X Dirs |-> {}]
  /\ marked = [x \in Devices \X Dirs |-> {}]
  /\ numActive = [x \in Devices \X Dirs |-> 0]
  /\ capture = [d \in Devices |-> NoCapture]
  /\ sampling = [d \in Devices |-> FALSE]
  /\ activeDevices = 0
  /\ loaded = [th \in {User, Usb} |-> 0]
  /\ cancellation = FALSE /\ continuous = FALSE /\ ePtr = FALSE
  /\ session = "stopped" /\ want = 0 /\ thenEnd = FALSE /\ starts = 0
  /\ samples \in Counts \cup {0}    \* uninitialised
  /\ calls = [d \in Devices |-> 0] /\ called = FALSE

-----------------------------------------------------------------------------
(* The user's thread: Session::configure, start, run, cancel, end *)

UserIdle == pc[User] = "idle"

\* M1000_Device::configure frees the transfers, allocates new ones and resets
\* num_active.
NewTransfers ==
  /\ flight' = [x \in Devices \X Dirs |-> {}]
  /\ marked' = [x \in Devices \X Dirs |-> {}]
  /\ numActive' = [x \in Devices \X Dirs |-> 0]

\* configure() is refused while devices are active.
Configure ==
  /\ UserIdle /\ activeDevices = 0
  /\ NewTransfers
  /\ UNCHANGED <<threadVars, lockVars, capture, sampling, countVars, flagVars,
                 userVars, history>>

\* run(n) refuses a count while m_continuous is set.
RunRefused(n) == n > 0 /\ continuous

\* start(n), on its own or as the first half of run(n), which alone sets
\* m_samples.
CallStart(n, isRun) ==
  /\ UserIdle /\ session # "started" /\ starts < MaxStarts
  /\ ~(isRun /\ RunRefused(n))
  /\ samples' = IF isRun THEN n ELSE samples
  /\ n <= samples' \/ "short" \in Faults
  /\ cancellation' = FALSE
  /\ continuous' = (n = 0)
  /\ want' = n /\ thenEnd' = isRun
  /\ starts' = starts + 1
  /\ calls' = [d \in Devices |-> 0] /\ called' = FALSE
  /\ Goto(User, "on")
  /\ UNCHANGED <<cur, ret, next, cb, lockVars, usbVars, capture, sampling,
                 countVars, ePtr, session>>

\* start() returns; run() goes on to end() unless start() failed.
StartReturns(ok) ==
  /\ session' = IF ok THEN "started" ELSE "failed"
  /\ pc' = [pc EXCEPT ![User] = IF ok /\ thenEnd THEN "end" ELSE "idle"]
  /\ cur' = [cur EXCEPT ![User] = 1]

\* M1000_Device::on, and sync when there are several devices.
DeviceOn(d) ==
  /\ pc[User] = "on" /\ cur[User] = d /\ EventLoopFree
  /\ \/ /\ sampling' = [sampling EXCEPT ![d] = FALSE]
        /\ Goto(User, "run")
        /\ UNCHANGED <<cur, session>>
     \/ /\ Faults \cap {"ctrl", "nodev"} # {}
        /\ \E s \in {sampling[d], FALSE} : sampling' = [sampling EXCEPT ![d] = s]
        /\ StartReturns(FALSE)
  /\ UNCHANGED <<ret, next, cb, lockVars, usbVars, capture, countVars, flagVars,
                 want, thenEnd, samples, starts, history>>

\* M1000_Device::run: start sampling ...
DeviceRun(d) ==
  /\ pc[User] = "run" /\ cur[User] = d /\ EventLoopFree
  /\ \/ /\ sampling' = [sampling EXCEPT ![d] = TRUE]
        /\ Goto(User, "reset")
        /\ UNCHANGED <<cur, session>>
     \/ /\ Faults \cap {"ctrl", "nodev"} # {}
        /\ StartReturns(FALSE)
        /\ UNCHANGED sampling
  /\ UNCHANGED <<ret, next, cb, lockVars, usbVars, capture, countVars, flagVars,
                 want, thenEnd, samples, starts, history>>

\* ... then reset the counters without m_state, whatever callback of an
\* earlier capture is under way, and spawn the kickoff thread.  (A kickoff
\* thread of an earlier start() is waited for: the model has one per device.)
DeviceReset(d) ==
  /\ pc[User] = "reset" /\ cur[User] = d /\ pc[d] = "none"
  /\ capture' = [capture EXCEPT ![d] = [NoCapture EXCEPT !.count = want]]
  /\ pc' = [pc EXCEPT ![User] = "inc", ![d] = "kLock"]
  /\ UNCHANGED <<cur, ret, next, cb, lockVars, usbVars, sampling, countVars,
                 flagVars, userVars, history>>

NextDevice ==
  IF cur[User] = N THEN StartReturns(TRUE)
  ELSE /\ Goto(User, "on")
       /\ cur' = [cur EXCEPT ![User] = @ + 1]
       /\ UNCHANGED session

\* m_active_devices++, after dev->run() has already spawned its thread.
Activate ==
  /\ pc[User] = "inc"
  /\ \/ /\ activeDevices' = Inc(activeDevices)
        /\ NextDevice
        /\ UNCHANGED loaded
     \/ /\ "torn" \in Faults
        /\ loaded' = [loaded EXCEPT ![User] = activeDevices]
        /\ Goto(User, "incStore")
        /\ UNCHANGED <<activeDevices, cur, session>>
  /\ UNCHANGED <<ret, next, cb, lockVars, usbVars, capture, sampling, flagVars,
                 want, thenEnd, samples, starts, history>>

ActivateStore ==
  /\ pc[User] = "incStore"
  /\ activeDevices' = Inc(loaded[User])
  /\ loaded' = [loaded EXCEPT ![User] = 0]
  /\ NextDevice
  /\ UNCHANGED <<ret, next, cb, lockVars, usbVars, capture, sampling, flagVars,
                 want, thenEnd, samples, starts, history>>

\* Session::cancel as called by the user, or by end() on a continuous session.
CallCancel ==
  /\ UserIdle /\ session # "stopped"
  /\ cancellation' = TRUE
  /\ pc' = [pc EXCEPT ![User] = "cancel"]
  /\ ret' = [ret EXCEPT ![User] = "idle"]
  /\ UNCHANGED <<cur, next, cb, lockVars, usbVars, capture, sampling, countVars,
                 continuous, ePtr, userVars, history>>

CancelStep(d) ==
  /\ pc[User] = "cancel" /\ cur[User] = d
  /\ \E ok \in BOOLEAN :
       /\ CancelDevice(User, d, ok)
       /\ IF ok /\ d < N
          THEN cur' = [cur EXCEPT ![User] = d + 1] /\ UNCHANGED pc
          ELSE cur' = [cur EXCEPT ![User] = 1] /\ Goto(User, ret[User])
  /\ UNCHANGED <<ret, next, cb, lockVars, flight, numActive, capture, sampling,
                 countVars, flagVars, userVars, history>>

CallEnd ==
  /\ UserIdle /\ session # "stopped"
  /\ Goto(User, "end")
  /\ UNCHANGED <<cur, ret, next, cb, lockVars, usbVars, capture, sampling,
                 countVars, flagVars, userVars, history>>

EndBegins ==
  /\ pc[User] = "end"
  /\ continuous' = FALSE
  /\ IF continuous
     THEN /\ cancellation' = TRUE
          /\ pc' = [pc EXCEPT ![User] = "cancel"]
          /\ ret' = [ret EXCEPT ![User] = "endLock"]
     ELSE Goto(User, "endLock") /\ UNCHANGED <<cancellation, ret>>
  /\ UNCHANGED <<cur, next, cb, lockVars, usbVars, capture, sampling, countVars,
                 ePtr, userVars, history>>

\* Everything a step of end() that only moves the lock leaves alone.
EndUnchanged == UNCHANGED <<cur, ret, next, cb, stateOwner, usbVars, capture,
                            sampling, countVars, flagVars, userVars, history>>

EndLock ==
  /\ pc[User] = "endLock" /\ lockOwner = Nobody
  /\ lockOwner' = User
  /\ Goto(User, "endCheck")
  /\ EndUnchanged

\* Mutant: one device may still be active.
EndCheckOffByOne ==
  /\ pc[User] = "endCheck"
  /\ Goto(User, IF activeDevices <= 1 THEN "off" ELSE "endBlock")
  /\ UNCHANGED lockOwner /\ EndUnchanged

\* wait_until evaluates its predicate, holding m_lock ...
EndCheck ==
  /\ pc[User] = "endCheck"
  /\ Goto(User, IF activeDevices = 0 THEN "off" ELSE "endBlock")
  /\ UNCHANGED lockOwner /\ EndUnchanged

\* ... and releases m_lock as it goes to sleep.
EndBlock ==
  /\ pc[User] = "endBlock"
  /\ lockOwner' = Nobody
  /\ Goto(User, "endSleep")
  /\ EndUnchanged

\* Mutant: wait instead of wait_until.
EndWaitsForever == pc[User] = "endSleep" /\ FALSE

\* The wait is as long as m_samples should take, plus a second or two, against
\* which the counts of the model are long: if m_samples is less than what was
\* started the wait expires at any time, else, without a stall, only when
\* there is nothing left to wait for.
EndTimeout ==
  /\ pc[User] = "endSleep"
  /\ Quiescent \/ samples < want \/ "stall" \in Faults
  /\ Goto(User, "endExpired")
  /\ UNCHANGED lockOwner /\ EndUnchanged

EndWake ==
  /\ pc[User] \in {"endWake", "endExpired"} /\ lockOwner = Nobody
  /\ lockOwner' = User
  /\ Goto(User, IF pc[User] = "endWake" THEN "endCheck" ELSE "off")
  /\ EndUnchanged

EndReturns ==
  /\ lockOwner' = Nobody
  /\ session' = "stopped"
  /\ pc' = [pc EXCEPT ![User] = "idle"]
  /\ cur' = [cur EXCEPT ![User] = 1]

OffNext ==
  IF cur[User] = N THEN EndReturns
  ELSE /\ cur' = [cur EXCEPT ![User] = @ + 1]
       /\ UNCHANGED <<lockOwner, session, pc>>

\* M1000_Device::off for device d, with m_lock held; end() skips a device
\* that is gone and stops at any other error or at a rethrown exception.
DeviceOff(d) ==
  /\ pc[User] = "off" /\ cur[User] = d /\ EventLoopFree
  /\ \/ /\ sampling' = [sampling EXCEPT ![d] = FALSE]
        /\ IF ePtr /\ capture[d].count > 0
           THEN ePtr' = FALSE /\ EndReturns
           ELSE UNCHANGED ePtr /\ OffNext
     \/ /\ "ctrl" \in Faults
        /\ EndReturns
        /\ \/ UNCHANGED ePtr
           \/ ePtr /\ capture[d].count > 0 /\ ePtr' = FALSE
        /\ UNCHANGED sampling
     \/ /\ "nodev" \in Faults
        /\ OffNext
        /\ UNCHANGED <<sampling, ePtr>>
  /\ UNCHANGED <<ret, next, cb, stateOwner, usbVars, capture, countVars,
                 cancellation, continuous, want, thenEnd, samples, starts, history>>

-----------------------------------------------------------------------------
(* Session::handle_error, on whichever thread th called it *)

CallHandleError(th, back) ==
  /\ pc' = [pc EXCEPT ![th] = "heLock"]
  /\ ret' = [ret EXCEPT ![th] = back]

HandleErrorLock(th) ==
  /\ pc[th] = "heLock" /\ lockOwner = Nobody
  /\ lockOwner' = th
  /\ cancellation' = TRUE
  /\ Goto(th, IF cancellation THEN "heUnlock" ELSE "heCancel")
  /\ UNCHANGED <<cur, ret, next, cb, stateOwner, usbVars, capture, sampling,
                 countVars, continuous, ePtr, userVars, history>>

HandleErrorCancel(th) ==
  /\ pc[th] = "heCancel"
  /\ \E ok \in BOOLEAN :
       /\ CancelDevice(th, cur[th], ok)
       /\ IF ok /\ cur[th] < N
          THEN cur' = [cur EXCEPT ![th] = @ + 1] /\ UNCHANGED pc
          ELSE cur' = [cur EXCEPT ![th] = 1] /\ Goto(th, "heUnlock")
  /\ UNCHANGED <<ret, next, cb, lockVars, flight, numActive, capture, sampling,
                 countVars, flagVars, userVars, history>>

HandleErrorUnlock(th) ==
  /\ pc[th] = "heUnlock"
  /\ lockOwner' = Nobody
  /\ Goto(th, ret[th])
  /\ ret' = [ret EXCEPT ![th] = "idle"]
  /\ UNCHANGED <<cur, next, cb, stateOwner, usbVars, capture, sampling,
                 countVars, flagVars, userVars, history>>

HandleError(th) ==
  HandleErrorLock(th) \/ HandleErrorCancel(th) \/ HandleErrorUnlock(th)

-----------------------------------------------------------------------------
(* The kickoff thread of device d: start_usb_transfers *)

\* Mutant: the kickoff thread does not take m_state.
KickNoLock(d) ==
  /\ pc[d] = "kLock"
  /\ Goto(d, "kIn")
  /\ UNCHANGED <<cur, ret, next, cb, lockVars, usbVars, capture, sampling,
                 countVars, flagVars, userVars, history>>
KickLock(d) ==
  /\ pc[d] = "kLock" /\ stateOwner[d] = Nobody
  /\ stateOwner' = [stateOwner EXCEPT ![d] = d]
  /\ Goto(d, "kIn")
  /\ UNCHANGED <<cur, ret, next, cb, lockOwner, usbVars, capture, sampling,
                 countVars, flagVars, userVars, history>>

\* One turn of a submission loop that stands at next[d] and got r; the loop
\* breaks at the first transfer that is not submitted.
KickTurn(d, r, loop, after) ==
  LET again == r = "ok" /\ next[d] < NT
  IN  /\ next' = [next EXCEPT ![d] = IF again THEN @ + 1 ELSE 1]
      /\ IF r = "failed" THEN CallHandleError(d, after)
         ELSE Goto(d, IF again THEN loop ELSE after) /\ UNCHANGED ret

KickIn(d) ==
  /\ pc[d] = "kIn"
  /\ \E r \in Results :
       SubmitIn(d, next[d], capture[d], r) /\ KickTurn(d, r, "kIn", "kOut")
  /\ UNCHANGED <<cur, cb, lockVars, marked, sampling, countVars, flagVars,
                 userVars, history>>

KickOut(d) ==
  /\ pc[d] = "kOut"
  /\ \E r \in Results :
       SubmitOut(d, next[d], r) /\ KickTurn(d, r, "kOut", "kEnd")
  /\ UNCHANGED <<cur, cb, lockVars, marked, sampling, countVars, cancellation,
                 continuous, userVars, history>>

KickEnd(d) ==
  /\ pc[d] = "kEnd"
  /\ stateOwner' = [stateOwner EXCEPT ![d] = Nobody]
  /\ Goto(d, "none")
  /\ UNCHANGED <<cur, ret, next, cb, lockOwner, usbVars, capture, sampling,
                 countVars, flagVars, userVars, history>>

-----------------------------------------------------------------------------
(* The USB thread: libusb's event loop, in_completion and out_completion,  *)
(* Session::completion                                                     *)

\* libusb hands a finished transfer to its callback.  A transfer the device
\* no longer serves runs into its 10 s timeout, which is an error status.
LibusbComplete(d, dir, t, status) ==
  /\ EventLoopFree
  /\ t \in flight[<<d, dir>>]
  /\ CASE status = "completed" -> sampling[d]
       [] status = "cancelled" -> t \in marked[<<d, dir>>]
       [] status = "error"     -> ~sampling[d] \/ "transfer" \in Faults
  /\ flight' = [flight EXCEPT ![<<d, dir>>] = @ \ {t}]
  /\ marked' = [marked EXCEPT ![<<d, dir>>] = @ \ {t}]
  /\ cb' = [dev |-> d, dir |-> dir, t |-> t, status |-> status]
  /\ Goto(Usb, "cbLock")
  /\ UNCHANGED <<cur, ret, next, lockVars, numActive, capture, sampling,
                 countVars, flagVars, userVars, history>>

\* Take m_state, drop num_active, and look at the status.
CallbackLock ==
  /\ pc[Usb] = "cbLock" /\ stateOwner[cb.dev] = Nobody
  /\ stateOwner' = [stateOwner EXCEPT ![cb.dev] = Usb]
  /\ numActive' = [numActive EXCEPT ![<<cb.dev, cb.dir>>] = @ - 1]
  /\ CASE cb.status = "completed" -> Goto(Usb, "cbBody") /\ UNCHANGED ret
       [] cb.status = "cancelled" -> Goto(Usb, "cbEnd") /\ UNCHANGED ret
       [] cb.status = "error"     -> CallHandleError(Usb, "cbEnd")
  /\ UNCHANGED <<cur, next, cb, lockOwner, flight, marked, capture, sampling,
                 countVars, flagVars, userVars, history>>

CallbackTurn(r) ==
  IF r = "failed" THEN CallHandleError(Usb, "cbEnd")
  ELSE Goto(Usb, "cbEnd") /\ UNCHANGED ret

\* Mutant: callbacks resubmit whatever happens.
AlwaysResubmit == TRUE
\* Callbacks resubmit only while the session is not cancelled.
MayResubmit == ~cancellation

\* in_completion: queue the samples, resubmit unless cancelled.
InBody ==
  /\ pc[Usb] = "cbBody" /\ cb.dir = "in"
  /\ \E a \in Arrivals(capture[cb.dev]) :
       /\ ePtr' = (ePtr \/ a.threw)
       /\ IF MayResubmit
          THEN \E r \in Results :
                 SubmitIn(cb.dev, cb.t, a.cap, r) /\ CallbackTurn(r)
          ELSE /\ capture' = [capture EXCEPT ![cb.dev] = a.cap]
               /\ CallbackTurn("closed")
               /\ UNCHANGED <<flight, numActive>>
  /\ UNCHANGED <<cur, next, cb, lockVars, marked, sampling, countVars,
                 cancellation, continuous, userVars, history>>

\* out_completion: resubmit unless cancelled.
OutBody ==
  /\ pc[Usb] = "cbBody" /\ cb.dir = "out"
  /\ IF MayResubmit
     THEN \E r \in Results :
            SubmitOut(cb.dev, cb.t, r) /\ CallbackTurn(r)
     ELSE CallbackTurn("closed") /\ UNCHANGED <<flight, numActive, capture, ePtr>>
  /\ UNCHANGED <<cur, next, cb, lockVars, marked, sampling, countVars,
                 cancellation, continuous, userVars, history>>

\* The callback returns: m_state is released.
CallbackReturns ==
  /\ stateOwner' = [stateOwner EXCEPT ![cb.dev] = Nobody]
  /\ cb' = NoCallback

\* Mutant: a device is done when the finished direction is.
DirectionDone == numActive[<<cb.dev, cb.dir>>] = 0
\* The device is done when both directions have no active transfer.
DeviceDone == \A dir \in Dirs : numActive[<<cb.dev, dir>>] = 0

CallbackEnd ==
  /\ pc[Usb] = "cbEnd"
  /\ IF DeviceDone
     THEN Goto(Usb, "compDec") /\ UNCHANGED <<stateOwner, cb>>
     ELSE Goto(Usb, "idle") /\ CallbackReturns
  /\ UNCHANGED <<cur, ret, next, lockOwner, usbVars, capture, sampling,
                 countVars, flagVars, userVars, history>>

\* Session::completion: m_active_devices -= 1 ...
CompletionDec ==
  /\ pc[Usb] = "compDec"
  /\ calls' = [calls EXCEPT ![cb.dev] = Lesser(@ + 1, 2)]
  /\ \/ /\ activeDevices' = Dec(activeDevices)
        /\ Goto(Usb, "compRead")
        /\ UNCHANGED loaded
     \/ /\ "torn" \in Faults
        /\ loaded' = [loaded EXCEPT ![Usb] = activeDevices]
        /\ Goto(Usb, "compStore")
        /\ UNCHANGED activeDevices
  /\ UNCHANGED <<cur, ret, next, cb, lockVars, usbVars, capture, sampling,
                 flagVars, userVars, called>>

CompletionStore ==
  /\ pc[Usb] = "compStore"
  /\ activeDevices' = Dec(loaded[Usb])
  /\ loaded' = [loaded EXCEPT ![Usb] = 0]
  /\ Goto(Usb, "compRead")
  /\ UNCHANGED <<cur, ret, next, cb, lockVars, usbVars, capture, sampling,
                 flagVars, userVars, history>>

\* Mutant: never take m_lock.
CompletionReadNoLock ==
  /\ pc[Usb] = "compRead"
  /\ Goto(Usb, "compNotify")
  /\ UNCHANGED <<cur, ret, next, cb, lockVars, usbVars, capture, sampling,
                 countVars, flagVars, userVars, history>>
\* ... then, unless the session was cancelled, take and drop m_lock ...
CompletionRead ==
  /\ pc[Usb] = "compRead"
  /\ Goto(Usb, IF cancellation THEN "compNotify" ELSE "compLock")
  /\ UNCHANGED <<cur, ret, next, cb, lockVars, usbVars, capture, sampling,
                 countVars, flagVars, userVars, history>>

CompletionLock ==
  /\ pc[Usb] = "compLock" /\ lockOwner = Nobody
  /\ Goto(Usb, "compNotify")
  /\ UNCHANGED <<cur, ret, next, cb, lockVars, usbVars, capture, sampling,
                 countVars, flagVars, userVars, history>>

\* ... and when no device is active run the callback and wake end().
CompletionNotify ==
  /\ pc[Usb] = "compNotify"
  /\ pc' = [pc EXCEPT ![Usb] = "idle",
                      ![User] = IF activeDevices = 0 /\ @ = "endSleep"
                                THEN "endWake" ELSE @]
  /\ called' = (called \/ activeDevices = 0)
  /\ CallbackReturns
  /\ UNCHANGED <<cur, ret, next, lockOwner, usbVars, capture, sampling,
                 countVars, flagVars, userVars, calls>>

-----------------------------------------------------------------------------
Calls ==
  \/ Configure \/ CallCancel \/ CallEnd
  \/ \E n \in Counts, isRun \in BOOLEAN : CallStart(n, isRun)

\* What the user's thread does inside a call.
UserStep ==
  \/ \E d \in Devices : DeviceOn(d) \/ DeviceRun(d) \/ DeviceReset(d)
                         \/ CancelStep(d) \/ DeviceOff(d)
  \/ Activate \/ ActivateStore
  \/ EndBegins \/ EndLock \/ EndCheck \/ EndBlock \/ EndTimeout \/ EndWake

KickStep(d) == KickLock(d) \/ KickIn(d) \/ KickOut(d) \/ KickEnd(d) \/ HandleError(d)

LibusbStep == \E d \in Devices, dir \in Dirs, t \in Slots, s \in Statuses :
                LibusbComplete(d, dir, t, s)

UsbStep ==
  \/ CallbackLock \/ InBody \/ OutBody \/ CallbackEnd
  \/ CompletionDec \/ CompletionStore \/ CompletionRead \/ CompletionLock
  \/ CompletionNotify \/ HandleError(Usb)

Next == Calls \/ UserStep \/ UsbStep \/ LibusbStep \/ \E d \in Devices : KickStep(d)

Spec == Init /\ [][Next]_vars

\* Every thread runs.  The threads that wait for a mutex which others keep
\* taking and releasing, or for the event loop between two callbacks, get
\* it eventually: the USB thread sleeps for milliseconds between transfers.
\* The caller is never obliged to call anything.
FairSpec ==
  /\ Spec
  /\ SF_vars(UserStep)
  /\ WF_vars(UsbStep)
  /\ WF_vars(LibusbStep)
  /\ \A d \in Devices : SF_vars(KickStep(d))

-----------------------------------------------------------------------------
(* Properties *)

HandleErrorPCs == {"heLock", "heCancel", "heUnlock"}
StartPCs == {"on", "run", "reset", "inc", "incStore"}
EndPCs   == {"end", "endLock", "endCheck", "endBlock", "endSleep", "endWake",
             "endExpired", "off"}
UserPCs  == {"idle", "cancel"} \cup StartPCs \cup EndPCs
CompletionPCs == {"compDec", "compStore", "compRead", "compLock", "compNotify"}
UsbPCs   == {"idle", "cbLock", "cbBody", "cbEnd"} \cup CompletionPCs \cup HandleErrorPCs
KickPCs  == {"none", "kLock", "kIn", "kOut", "kEnd"} \cup HandleErrorPCs

PCs == UserPCs \cup UsbPCs \cup KickPCs

ThreadsTypeOK ==
  /\ pc \in [Threads -> PCs]
  /\ cur \in [Threads -> Devices]
  /\ ret \in [Threads -> {"idle", "endLock", "cbEnd", "kOut", "kEnd"}]
  /\ next \in [Devices -> Slots]
  /\ cb \in [dev : Devices, dir : Dirs, t : Slots, status : Statuses]
  /\ stateOwner \in [Devices -> Threads \cup {Nobody}]
  /\ lockOwner \in Threads \cup {Nobody}

CaptureType == [count : Nat, req : Nat, out : Nat, ins : Nat, got : Int]

TransfersTypeOK ==
  /\ flight \in [Devices \X Dirs -> SUBSET Slots]
  /\ marked \in [Devices \X Dirs -> SUBSET Slots]
  /\ numActive \in [Devices \X Dirs -> Int]
  /\ capture \in [Devices -> CaptureType]
  /\ sampling \in [Devices -> BOOLEAN]

SessionTypeOK ==
  /\ activeDevices \in 0 .. CounterMod - 1
  /\ loaded \in [{User, Usb} -> 0 .. CounterMod - 1]
  /\ cancellation \in BOOLEAN /\ continuous \in BOOLEAN /\ ePtr \in BOOLEAN
  /\ session \in {"stopped", "started", "failed"}
  /\ want \in Nat /\ thenEnd \in BOOLEAN /\ samples \in Nat /\ starts \in 0 .. MaxStarts
  /\ calls \in [Devices -> 0 .. 2] /\ called \in BOOLEAN

\* Every variable stays in its type, the unsigned m_active_devices included.
TypeOK == ThreadsTypeOK /\ TransfersTypeOK /\ SessionTypeOK

\* num_active counts exactly the transfers libusb holds, plus the one whose
\* callback has not got m_state yet: the counter behind "both directions are
\* done" never drifts, whatever fails or is cancelled in between.
NumActiveExact ==
  \A d \in Devices, dir \in Dirs :
    numActive[<<d, dir>>] =
      Cardinality(flight[<<d, dir>>])
      + (IF pc[Usb] = "cbLock" /\ cb.dev = d /\ cb.dir = dir THEN 1 ELSE 0)

\* Between two callbacks and outside start(), m_active_devices is the number
\* of devices that still have transfers out or about to be submitted
\* (libsmu.hpp:130); configure(), add() and remove() rely on it.
ActiveDevicesExact ==
  EventLoopFree /\ pc[User] \notin StartPCs
    => activeDevices = Cardinality({d \in Devices : ~Drained(d)})

\* end() turns no device off while any device still has transfers out or a
\* kickoff thread under way (libsmu.hpp:255).  The code does not keep to it:
\* the wait is reckoned from m_samples, which start(n) does not set.
EndWaits == pc[User] = "off" => \A d \in Devices : Drained(d)

\* But when it is the predicate of its wait that lets end() go on, and not the
\* deadline, nothing is out: m_active_devices never falls to 0 too early,
\* however late the devices answer and whichever captures overlap
\* (session.cpp:601).
EndSeesDrained ==
  [][pc[User] = "endCheck" /\ pc'[User] = "off" => \A d \in Devices : Drained(d)]_vars

\* A capture that was neither cancelled nor disturbed by an exception ends
\* with exactly the requested samples queued for the reader, having
\* requested them in whole transfers and not one transfer too many.
CaptureComplete ==
  \A d \in Devices :
    calls[d] > 0 /\ session = "started" /\ ~cancellation /\ ~ePtr /\ capture[d].count > 0
      => /\ capture[d].got = capture[d].count
         /\ capture[d].req \in capture[d].count .. capture[d].count + SPT - 1

\* A device reports completion at most once per start(), however its in and
\* out transfers and the kickoff thread interleave.
CompletedOnce == \A d \in Devices : calls[d] <= 1

\* end() is never left asleep by a completed session that was not cancelled:
\* with no device active, the USB thread has its notification still ahead.
NoLostWakeup ==
  pc[User] \in {"endBlock", "endSleep"} /\ activeDevices = 0 /\ ~cancellation
    => pc[Usb] \in {"compRead", "compLock", "compNotify"}

\* When end() has returned every device has been told to stop sampling
\* (libsmu.hpp:256).  The code does not keep to it: an exception that one
\* device's off() rethrows leaves the loop.
EndTurnsOff ==
  UserIdle /\ session = "stopped" => \A d \in Devices : ~sampling[d]

\* m_state is held exactly by the thread that is inside a callback of the
\* device or inside its kickoff, m_lock exactly by the thread inside
\* handle_error or end()'s critical section.
UsbHolds   == pc[Usb] \in {"cbBody", "cbEnd"} \cup CompletionPCs \cup HandleErrorPCs
KickHolds(d) == pc[d] \in {"kIn", "kOut", "kEnd"} \cup HandleErrorPCs
LockDiscipline ==
  /\ \A d \in Devices :
       /\ stateOwner[d] = Usb <=> UsbHolds /\ cb.dev = d
       /\ stateOwner[d] = d <=> KickHolds(d)
       /\ stateOwner[d] \in {Nobody, Usb, d}
  /\ \A th \in Threads :
       lockOwner = th <=> pc[th] \in {"heCancel", "heUnlock", "endCheck",
                                      "endBlock", "off"}

\* While a device completes, num_active stays 0 in both directions: the
\* kickoff of a later start() cannot slip a submission in.
CompletionQuiet ==
  pc[Usb] \in CompletionPCs => \A dir \in Dirs : numActive[<<cb.dev, dir>>] = 0

\* A cancelled session drains: every device runs out of transfers, unless
\* the caller starts again.
CancelDrains ==
  cancellation ~> (\A d \in Devices : Drained(d)) \/ ~cancellation

\* end() returns (libsmu.hpp:255); in a finite capture the code may not.
EndTerminates == pc[User] = "end" ~> UserIdle

\* cancel() returns (libsmu.hpp:215).  With several devices the code may not:
\* two threads in handle_error() can wait for each other's locks.
CancelTerminates == pc[User] = "cancel" ~> pc[User] # "cancel"

=============================================================================
