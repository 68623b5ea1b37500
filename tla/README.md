# A TLA+ model of libsmu

libsmu drives Analog Devices' ADALM1000 source-measure unit over USB. A
`Session` holds devices, a libusb event thread and a counter of the devices that
still stream; each `M1000_Device` owns two directions of asynchronous USB
transfers and, per output channel, a writer thread with a queue. The program's
hard part is the way these threads meet: the application's thread, the session's
USB thread, one detached kickoff thread per device, and two writer threads per
device. This directory models that part, the read path and the registry of
devices around it, and the calculations they rest on, and proves facts about them.

Paths below are relative to the repository root; `session.cpp`,
`device_m1000.cpp`, `usb.cpp` are under `src/`, `libsmu.hpp` under
`include/libsmu/` (in `PROJECT.json` all paths have a further `src/` in front).

## 1. Inventory

| Component | State | Operations | Interacts with | What makes it correct |
|---|---|---|---|---|
| Session capture lifecycle (`session.cpp:532-697`) | `m_active_devices`, `m_cancellation`, `m_continuous`, `m_samples`, `m_lock`, `m_completion` | `configure`, `run`, `start`, `cancel`, `end`, `handle_error`, `completion` | calls devices; called from libusb callbacks and kickoff threads | `end()` goes on only when every device is done or its wait expires, each device completes once, no wake-up is lost, no deadlock |
| M1000 transfer engine (`device_m1000.cpp:250-520, 931-962, 1043-1097`, `usb.cpp:33-116`) | transfers, `num_active` per direction, `m_state`, sample counters | kickoff, `submit_in/out_transfer`, `in/out_completion`, `cancel`, `off`, `on` | libusb, `Session::completion`, `Session::handle_error` | `num_active` equals what libusb holds, completion is reported once and only when drained |
| M1000 write channels (`device_m1000.cpp:380-443, 593-663, 964-1038`) | queue, buffer, `stop`, `avail`, peeked and previous sample, mutex | `write`, `flush`, `write_samples` thread, `encode_out`, pause, resume, exit | application, writer thread, USB thread under `m_state` | samples go out in order and once, one consumer, `encode_out` never spins for ever |
| M1000 read path (`device_m1000.cpp:522-591, 655-663, 665-755`) | input queue, `m_in_samples_avail`, `m_in_sampleno`, the global `e_ptr` | `handle_in_transfer`, `read`, `flush` | USB thread produces, application consumes | samples arrive in order and once, a gap is reported before a read returns across it, `avail` never promises what is not there |
| Device registry and hotplug (`session.cpp:56-530`) | `m_available_devices`, `m_devices` | `scan`, `probe_device`, `add`, `add_all`, `remove`, `destroy` (`attached`, `detached`) | devices that come and go on the bus | one reachable object per plugged device, no deleted object reachable |
| Sample-rate configuration (`device_m1000.cpp:300-375`) | period, packets per transfer | `configure` | `end()` reckons its wait from the rate and from `m_samples`, which `run()` sets | the rate to half a clock tick; the wait outlasts a `run()` |
| Channel modes (`device_m1000.cpp:763-866, 895-929, 1043-1097`) | `m_mode`, the device's pots, switches and mode | `set_mode`, `on`, `sync`, `off` | control transfers, any of which may fail | after `start()` a device is in the modes chosen, after `end()` it drives nothing |
| Overcurrent, LED, ADC mux | | single control transfers | | |
| Calibration (`device_m1000.cpp:113-258`) | `m_cal` | `read_calibration`, `write_calibration` | the device's EEPROM | `m_cal` is what the EEPROM holds |
| Signal waveforms (`signal.cpp`) | phase, period, source values | `get_sample` | application | every sample is where its number says, none leaves its range |
| Firmware update (`session.cpp:150-345`) | SAM-BA devices | `flash_firmware`, `samba_mode`, `scan_samba_devs` | registry | every page is written once, deleted devices leave the session |
| pysmu, the CLI | thin wrappers | | the C++ API | |

Behaviours that are hard to test, with their lines, are the `hazards` of
`PROJECT.json`: the unlocked counter, locks nested across callbacks, control
transfers made under a lock the event thread wants, condition variables notified
without their mutex, spinning under `m_state`, exceptions that leave loops, a
counter loaded twice, sequences of control transfers cut short, objects that
outlive the device or the list they stand for.

## 2. Modules

| Module | What it is |
|---|---|
| `Streaming` | Session lifecycle composed with the transfer engine of `N` devices, all their threads and locks |
| `CaptureLifecycle` | abstract: what a caller of `start`/`end` is promised |
| `StreamingRefines` | `Streaming` implements `CaptureLifecycle` |
| `StreamingProofs` | TLAPS: types of `Streaming`, lock discipline, quiet completion, no lost wake-up |
| `StreamingCounts` | TLAPS: `num_active` and `m_active_devices` are exact; what `end()` sees |
| `LifecycleProofs` | TLAPS: the refinement of `StreamingRefines`; undisturbed captures are complete |
| `WriteChannel` | one output channel: application, writer thread, USB thread |
| `SampleStream` | abstract: an ordered stream that only `flush()` shortens |
| `WriteChannelRefines` | `WriteChannel` implements `SampleStream` |
| `WriteChannelProofs` | TLAPS: types, locks, single consumer, no lost buffer |
| `WriteStreamProofs` | TLAPS: the refinement of `WriteChannelRefines`; `NoOverpromise` for finite captures |
| `ReadPath` | the input side of a device: USB thread, queue, `read()` and `flush()` |
| `SampleFeed` | abstract: samples in order, once, no unreported gap |
| `ReadPathRefines` | `ReadPath` implements `SampleFeed` |
| `ReadPathProofs` | TLAPS: types, the exact count, the refinement |
| `DeviceControl` | a device's settings and the sequences of control transfers that change them |
| `SessionDevices` | the session's lists, its devices and the user who plugs and unplugs them |
| `SessionProofs` | TLAPS: all invariants of `SessionDevices` |
| `Signals`, `SampleRate`, `SambaFlash` | the calculations of waveforms, of sample rates and of firmware images |
| `Arithmetic` | the three against reference definitions |
| `ArithmeticProofs` | TLAPS: they meet them for every argument, of waveforms where the arithmetic is exact |

### Streaming

| Model | Code |
|---|---|
| `pc`, `cur`, `ret`, `cb` | where each thread is, the device it is at, where `cancel`/`handle_error` return to, the callback that runs |
| `activeDevices`, `loaded`, the positions `incStore`, `compStore` | `m_active_devices`; with fault `torn` its `++`/`-=` are a load and a store (`session.cpp:651, 685`) |
| `stateOwner`, `lockOwner`, `EventLoopFree` | `m_state` per device, `m_lock`, whether the USB thread can serve a control transfer |
| `flight`, `marked`, `numActive` | transfers libusb holds and those it was asked to cancel, `Transfers::num_active` |
| `capture` | `m_sample_count`, `m_requested_sampleno`, `m_out_sampleno`, `m_in_sampleno`; samples are counted, values dropped |
| `want`, `samples` | `start()`'s argument and `m_samples`, the last `run()`'s, from which `end()` reckons its wait |
| `CallStart`, `DeviceOn`, `DeviceRun`, `DeviceReset`, `Activate` | `start()` device by device: `on`, `run`'s transfer, its reset of the counters with the kickoff thread, then the increment |
| `KickLock`, `KickIn`, `KickOut`, `KickEnd` | the kickoff thread under `m_state` |
| `CallbackLock`, `InBody`, `OutBody`, `DeviceDone` | `in_completion`/`out_completion` |
| `CompletionDec` ... `CompletionNotify` | `Session::completion`: decrement, read, pass through `m_lock`, notify |
| `EndLock`, `EndCheck`, `EndBlock`, `EndWake`, `EndTimeout`, `OffNext` | `end()`: `wait_until` split into predicate, release, wake or time out, then `off()` on each device under `m_lock` |
| `HandleError*` | `handle_error`: `m_lock`, then `cancel()` of each device, each taking its `m_state` |

Each action is one lock scope or one access to shared data; a scope whose data
nobody else can touch is one step.

`Faults` enables what can go wrong: `submit`, `transfer`, `cancel`, `ctrl` (that
libusb call fails), `nodev` (a control transfer says NO_DEVICE), `underflow`
(`encode_out` throws), `drop` (the read queue is full), `stall` (a device is
slower than `end()`'s wait), `short` (the caller begins captures with `start()`
that are longer than the last `run()`), `torn` (the data race on
`m_active_devices`). `EndTimeout` may happen at any time if `m_samples` is less
than what was started or with `stall`, else only when nothing is left to wait for:
the counts of the model stand for captures that are long against the two spare
seconds.

### WriteChannel

A sample is the number of its write, so order, loss and repetition are visible.
`stop` is `m_out_samples_stop` (0 run, 1 stop, 2 pause, -1 exit); each load of it
in the writer thread is a step of its own, so that stores of the other threads
fall between. `cv.wait` is predicate (`WriterCheck`), release and sleep
(`WriterBlock`), notification (`Notified`). The pause waits with a second mutex
and so keeps `m_out_samples_mtx`, as the code does. `encode_out` is
`EncodeNext` (a peeked sample), `EncodePop`, `EncodeFallback`, `EncodeThrow`;
`EncodePop` is not enabled on an empty queue, which is the code's spin with
`m_state` held.

### ReadPath

| Model | Code |
|---|---|
| `TransferArrives` ... `TransferDone` | `in_completion` takes `m_state` and calls `handle_in_transfer`, sample by sample |
| `PushSample`, `BumpAvail` | `push`, then `m_in_samples_avail++` (`device_m1000.cpp:744-747`): two steps |
| `DropTransfer` | a full queue: `buffer_overflow` thrown in the loop, stored in `e_ptr` by `in_completion` |
| `SkipLook`, `SkipPop` | `skipsamples` (528-535) |
| `Look`, `LoadAvail` | the two loads of `m_in_samples_avail` in lines 541 and 542 |
| `PopSample` | lines 547-555; the pops of one sample keep their order to those of the USB thread |
| `Fulfilled`, `OutOfTime`, `GoOn` | the ends of the loop: samples, clock, exception |
| `CopyException`, `Rethrow` | lines 586-589, one access to `e_ptr` each |
| `CallFlush` | lines 655-663 under `m_state`; `CallWrite` is `write()`'s rethrow |

A sample is the number of its arrival. `returned`, `made` and `lost` are history:
the last sample a successful read gave, the samples taken, the first lost one
that no exception has told of. `SampleFeed` has delivery, loss and report as
separate steps, and lets a read return only when no gap lies behind it.

### DeviceControl and SessionDevices

A method of a device is the *set of its outcomes*: a record of the hardware it
leaves and what it returned. `Then` is the code's `if (ret < 0) return ret;`, so
`SetMode`, `On`, `Off` are cut short after any of their transfers. `faults` bounds
the failures of a device; a device that was unplugged answers no handle that was
opened before (`plug` is the number of the plugging in, which stands for the USB
address).

| Model | Code |
|---|---|
| `obj`, `members`, `available`, `deleted` | the `Device` objects, `m_devices`, `m_available_devices`, objects deleted but in a list |
| `Scanned`, `ScanOutcomes` | `scan` and `probe_device`: members are found again by address, all others made anew (`session.cpp:356-450`) |
| `Add`, `AddAll`, `Remove`, `Destroy` | 452-530 |
| `CallSetMode`, `CallWriteCalibration`, `CallSetSerial` | the device's methods, with what they change in the object |
| `CallStart`, `StartDevice`, `Complete` | `start()` device by device, as in `Streaming` but with the real transfers and without threads; it may start over what is streaming |
| `CallEnd`, `EndWaited`, `EndDevice` | `end()`: its wait, which may be in vain, then `off()` on each member |
| `Flash` | `flash_firmware`: remove, bootloader, delete, flash, come back |
| `Unplug`, `Plug` | the user, also between the devices of `start()` and `end()` |

`Streaming` and `SessionDevices` share `start`, `end` and `m_active_devices`:
`Streaming` has the threads of a fixed set of devices, `SessionDevices` the
changing set of devices of one thread.

### Arithmetic

`Signals` counts phase and period in parts of a sample, a power of two, and has a
value as a quotient. On such numbers the doubles of the code are exact; the
truncated numbers and the fractions of a sawtooth are floats there and are rounded
here (`Float`: 24 bits, to the nearest, of two to the even). `FollowsPhase` compares
each sample with a closed form of its number.
`SampleRate` is `configure` with quotients of integers; `SambaFlash` is the loop
that writes a firmware image. A behaviour is about one of the three.

## 3. Runs

| Run | Instance | Distinct states | Shows |
|---|---|---|---|
| `capture` | 2 devices, 2 transfers each way, 2 captures, finite and continuous, no fault | 3,277,338 | `ActiveDevicesExact`, `CompletedOnce`, `NoLostWakeup`, refinement of `CaptureLifecycle` |
| `faulty` | 1 device, 2 captures, every libusb failure | 3,068,463 | types, `NumActiveExact`, `CaptureComplete` |
| `races` | 2 devices, 2 finite captures, late answers | 3,391,557 | `CompletionQuiet`, `LockDiscipline`, `EndSeesDrained` |
| `live` | 1 device, continuous, fair threads, libusb failures, torn counter | 20,647 | `CancelDrains`, `EndTerminates` |
| `write_stream` | noncyclic, `flush`, finite captures, fair threads | 57,844 | `NoOverpromise`, refinement of `SampleStream`, `EncodeTerminates`, `WritesReturn` |
| `write_channel` | all calls, cyclic, pause, destructor | 561,110 | types, `SingleConsumer`, `NoLostBuffer` |
| `read_path` | queue of 3, transfers of 2, all kinds of `read`, fair threads | 43,365 | types, `AvailExact`, `PopsWhatIsThere`, refinement of `SampleFeed`, `ReadReturns` |
| `devices` | 2 devices, 5 profiles of calls, 1 failure each | 1,506,441 | types, `OneObjectPerDevice`, `ModesApplied`, `EndLeavesOff`, `CalibrationTrue` |
| `arithmetic` | see below | 10,099 | `FollowsPhase`, `WithinPeak`, `RateWithinHalfTick`, `RunWaitSuffices`, `PagesCoverFile` |

Three more runs, `claim_*`, each check one statement of the header or a comment
that the code does not keep. Twelve further configurations, `Claim*.cfg`, do the
same for statements that fall in fewer or plainer steps and are not part of the
regular runs. All are listed below.

Bounds.

* `Streaming`: two devices are the least for which `start()` can be overtaken by a
  device that completes and `end()`'s loop can stop half way; two transfers per
  direction are what `M1000_Device::configure` allocates. Two starts let
  something of a first capture leak into a second. Three samples with two per
  transfer make the last transfer partial. `races` has one transfer each way: what
  it asks is how captures overlap, which takes two devices, one that answers
  late. With `"ctrl"` added, so that `start()` may also fail at the second device,
  it passes with 4,825,570 states; the regular run leaves that out to stay within
  minutes, and `StreamingCounts!EndSeesDrainedHolds` covers it. `CounterMod` is small so that a
  decrement below zero would show.
* `WriteChannel`: buffers of 1 and 3 against a queue of 2 give buffers that fit
  and that do not; captures of 1 and 4 samples with 3 per transfer end a transfer
  with the peeked sample and with filler; `MaxCalls` 5 is enough for write, run,
  write, flush, write.
* `ReadPath`: a queue of 3 and transfers of 2 make the second of two transfers
  overflow it in its middle; reads of 1 and 2 are less than and as much as a
  transfer; a capture of 3 has a surplus sample; 6 samples (`MaxMade`) are three
  transfers, so a loss, its report and samples after it; `Width` 8 lets
  `remaining_samples` wrap.
* `SessionDevices`: two devices tell the member from the other, six names let
  every scan find one for a new object (`EnoughNames`: a device can be a member
  twice, under its two serial numbers, and be found once more). A behaviour makes the calls of one profile only: the
  profiles are adding all and capture, modes and capture, registry and plugging,
  calibration, and serial number and firmware, each with the calls its properties speak of; five calls
  (`MaxCalls`, `end()` not counted) are scan, two adds, configure and start. Two
  pluggings let an object outlive its device. Mode 4 changes everything `set_mode`
  can change. One failure per device may hit any transfer.
* `Arithmetic`: periods of 2 to 12 samples with and without fractions, phases of
  either sign and beyond the period, thirty samples, that is up to fifteen cycles;
  rates at both ends of both clocks' ranges and around rounding; file sizes one
  off page boundaries; `SamplesMod` is small so that a capture of `run()` reaches it.
  Fractions are quarters of a sample, so that every double and float is exact
  (`ExactArguments`); `ClaimSawtooth.cfg` has parts so small that floats round. Of
  the rates, the quotients of integers differ from the code's doubles only where
  one is a tie, which the chosen rates avoid (with the first firmware's clock, for
  example, 1562 and 1563).

Deadlock is not checked: calls are bounded, so a behaviour may simply end, and
`claim_*` runs show the deadlocks there are.

Fairness. Threads run (`WF`/`SF` on their steps); waiting for a mutex is `SF`
because the threads that compete for it sleep between two scopes (the USB thread
for the milliseconds of a transfer, the writer thread between buffers). The clock
of `read()` is `SF(OutOfTime)`: the loop looks at it in every turn, and each turn
is another chance for the time to be up. libusb finishes transfers eventually
unless `stall`. The application is never obliged to call anything. `live` uses one
device and continuous mode: with a finite capture, `EndTerminates` fails, and with
two devices `CancelTerminates` does (`claim_end_returns`, `ClaimCancelReturns.cfg`). It
has one start, because after a second one a torn counter can let `end()` see 0 too
early and run into the same deadlock.

### What the code does not do

Fifteen configurations check a statement of the repository's own comments that the
code does not keep; TLC refutes each with a short counterexample. The three named
`claim_*` are runs; the others are run by hand, as in
`tlc -config ClaimEndWaits.cfg Streaming`, with the module named at the head of their
group.

The capture lifecycle (`Streaming`):

* `claim_end_returns`: the USB thread has decremented `m_active_devices` and is
  in `completion()` inside a libusb callback, about to take `m_lock`
  (`session.cpp:689`). `end()` sees 0, keeps `m_lock` and calls `off()`, whose
  synchronous control transfers need the event loop the USB thread is in.
  Neither moves (`libsmu.hpp:255-256`).
* `ClaimCancelReturns.cfg`: two devices whose submissions fail together each hold
  their own `m_state`; one is in `handle_error()` with `m_lock` and waits for the
  other's `m_state`, the other waits for `m_lock` (`session.cpp:673`). The user's
  `cancel()` waits with them (`libsmu.hpp:215`). Nor does `cancel()` block until a
  capture is complete when all goes well.
* `ClaimEndWaits.cfg`: `end()` reckons its wait from `m_samples`, which `run()` sets
  (`session.cpp:573`) and `start()` does not. After a `start()` of more samples than
  the last `run()`, or with no `run()` before, the wait expires while a healthy
  device streams, and `end()` turns it off (`session.cpp:595`, `libsmu.hpp:255-256`).
* `ClaimEndTurnsOff.cfg`: `off()` rethrows a stored exception
  (`device_m1000.cpp:1093`), so `end()` leaves its loop with the later devices still
  sampling (`libsmu.hpp:255-256`).
* `ClaimCounterExact.cfg`: `m_active_devices` is incremented and decremented on two
  threads without a lock (`session.cpp:651, 685`); one of the two is lost, and the
  count is wrong for good (`libsmu.hpp:130`).
* `ClaimCounterStuck.cfg`: a device none of whose submissions succeeds never
  completes and is counted for ever (`session.cpp:651`, `libsmu.hpp:130`); later
  calls return `-EBUSY`.

The channels (`WriteChannel`, `ReadPath`):

* `claim_flush_returns`: the writer thread, just woken, executes `stop = 0`
  (`device_m1000.cpp:989`) after `flush()` stored 1. `flush()` holds `m_state`
  and waits for the mutex; the writer keeps it while it pushes to a full queue
  that only `encode_out`, which needs `m_state`, empties
  (`device_m1000.cpp:650`, `device_m1000.hpp:107-110`). A cyclic buffer does the same
  with no full queue.
* `ClaimWriterExits.cfg`: the destructor stores -1 in `stop` and notifies without the
  mutex (`device_m1000.cpp:73`); a writer thread between its look at `stop` and its
  sleep misses both, and the destructor's `join()` waits for ever
  (`device_m1000.hpp:109-110`).
* `claim_read_returns`: `read()` finds fewer samples than it needs (541), the USB
  thread queues some, and the second load of `m_in_samples_avail` (542) counts them
  too: more is popped than was asked for, the unsigned `remaining_samples` wraps
  (554), and a read without timeout goes on although its caller's buffer is full
  (`libsmu.hpp:385-386`). `PopsWhatIsThere` holds all the same: what is popped is
  in the queue.

The devices (`SessionDevices`):

* `ClaimStartRunsAll.cfg`: `start()` configures the session only when it has no rate
  (`session.cpp:635`). A member added after `configure()` has the period 0, which
  tells it to stop, and no transfers: `start()` returns 0 and counts it active
  (`libsmu.hpp:125-126`), it never completes, and later calls return `-EBUSY`.
* `ClaimSplitApplied.cfg`: the result of the transfer that turns on the switch of a
  split mode is dropped (`device_m1000.cpp:856-860`). If it fails in `set_mode()` and
  in `start()`, both return 0 and the switch is off (`libsmu.hpp:93`). `ModesApplied`
  therefore speaks of the switch only where no transfer has failed. (libsmu never
  sends a transfer to turn it off.)
* `ClaimMembersLive.cfg`: `flash_firmware()` deletes devices without looking at the
  result of `remove()` (`session.cpp:284-294`): one that is a member and was unplugged
  cannot be released and stays in `m_devices` (`libsmu.hpp:125`).

The waveforms (`Arithmetic`):

* `ClaimSawtooth.cfg`: the fractions of period and phase are compared as floats
  (`signal.cpp:120-135`). A period of 4.3 and a phase of 0.3 less a little have equal
  floats, `max_int_phase` is taken one too small and a later sample lies beyond
  the range (`signal.cpp:126`). The program does the same with a period of 10.3 and
  a phase of 0.6, at the 21st sample, by the rounding of the sums.
* `ClaimDuty.cfg`: a square wave is at its midpoint for the duty fraction and at its
  peak for the rest (`signal.cpp:117`), so the duty cycle is not the fraction in
  which it is active (`libsmu.hpp:559`).
* `ClaimMidpoint.cfg`: a triangle, like every wave, runs from peak to midpoint and
  back (`signal.cpp:149`): "Value at the middle of the wave" (`libsmu.hpp:592`) is its
  end.

Met while modelling; each is a hazard, a precondition of a property or a limit
below.

* `Transfers::cancel` leaves the only active transfer of a direction alone
  (`usb.cpp:106`), so it drains by completing. A write that follows `off()` un-pauses
  the channel (`device_m1000.cpp:989` against 1079).
* With initial production firmware and fewer than 256 samples a second the rest
  of the last transfer can take longer than the two spare seconds of `end()`, and
  devices are turned off early even after `run()`. A capture of 2^32 samples is
  waited for as one of none (`session.cpp:573`).
* `set_serial()` scans, but a scan finds a member again and keeps the old object,
  whose `m_serial` is constant: `add()` and `destroy()` compare with the old number.
* `flash_firmware()` leaves the pointers of what it deleted in
  `m_available_devices` until the next scan.
* `write_calibration()` changes `m_cal` before it knows that the file is whole and
  the device took it; the EEPROM then differs until the next probe.
  `CalibrationTrue` therefore speaks of calls that succeeded.
* The gain of a current sample is chosen by the sign of the sample before it
  (`device_m1000.cpp:680`). A sawtooth with a period below two samples divides zero
  by zero, and one with a negative phase follows another line than the same wave a
  period later (`signal.cpp:132-136`). A page number above 255 would print as three
  digits (`session.cpp:237-260`); the M1000's image has fewer.

## 4. Proofs

Checked by TLAPS for every value of the constants that the named assumptions
`StreamingAssumption`, `WriteChannelAssumption`, `ReadPathAssumption`,
`SessionDevicesAssumption`, `SerialsAssumption`, `EnoughNames`, `SignalsAssumption`,
`RoundingAssumption`, `SampleRateAssumption` and `ArithmeticAssumption` admit, with all faults unless a further assumption is
named. TLC evaluates each of these assumptions in a run.

* `StreamingProofs!TypeCorrect`: `Spec => []TypeOK`. The type predicate is
  inductive as it stands; the lemmas follow the code's calls (`SubmittedTypes`,
  `SubmitInTypes`, ... up to `NextTypes`).
* `StreamingProofs!LockDisciplineHolds`, `CompletionQuietHolds`. The invariant
  `LockInv` says, for each lock, which thread holds it at which positions: a
  thread inside `cbBody` or a kickoff position holds its device's `m_state`, a
  thread inside `heCancel`, `endCheck`, ... holds `m_lock`, and no other thread
  does. `CompletionQuiet` is not inductive: that nothing is submitted between the
  test for two drained directions and `completion()` follows from the USB thread
  holding `m_state` there, which is a conjunct of `LockInv`. The proof moves one
  thread per step; `OthersStay` and `UserMoves` say what that leaves alone, and
  `NextLock` has one step per action.
* `StreamingProofs!NoLostWakeupHolds`. `NoLostWakeup` is not inductive: once the
  USB thread has passed `m_lock`, its notification only helps a thread that
  sleeps already. `NotificationAhead` says so; it is kept because `compLock`
  takes `m_lock`, which `end()` holds from its look at the counter to its sleep
  (`LockInv`). A torn counter does not matter, as the decrement comes before the
  lock.
* `StreamingCounts!NumActiveExactHolds`, assuming `PlainCounter`: the counter of
  devices is not torn and does not wrap (`CounterMod > N * MaxStarts`; the code's
  is 2^32). `NumActiveExact` cannot be inductive alone, because `configure()` sets
  `num_active` to 0 when `m_active_devices` is 0, whatever is out. So `DebtInv`
  keeps books: a device that has transfers out, a callback before its
  `completion()` or a kickoff that holds `m_state` owes one completion
  (`Engaged`), a kickoff that waits for `m_state` another one (`Spawned`), and the
  counter, with an increment that is due added (`Counted`), is never less than
  what is owed (`Owed`). Every step of `start()` adds to the counter at least what
  it adds to the debts, and only `CompletionDec` takes from both. `Owed` is a sum
  of two cardinalities; `NoMoreOwed`, `OneSpawned`, `OneCompleted`, `OneKicked` say
  how a step changes it. A device may owe twice: a kickoff of a later capture can
  be spawned while the last transfers of a timed-out one are still out.
* `StreamingCounts!EndSeesDrainedHolds`, assuming `PlainCounter` only: late devices,
  short waits and failed `start()`s may make captures overlap as they like. When
  the predicate of `end()`'s wait holds, the counter is 0 and so is `Owed`, which it
  never falls below; a count of 0 therefore leaves nobody owing (`AllRest`), and a
  device that owes nothing has no transfer out and no kickoff thread (`RestDrained`).
* `StreamingCounts!CompletedOnceHolds`, assuming `TameFaults`: also no `stall`,
  `short`, `ctrl` or `nodev`. A device rests when `start()` reaches it, because
  `end()` ended the last capture with all devices at rest (`Over`): it saw a count
  of 0, or timed out with nothing left (`LongWait`: `m_samples` is not less than
  what was started). With `stall` or `short` a device can complete for a capture
  that is over; with `ctrl` `start()` can give up half way and be called again
  while the first devices are busy.
* `StreamingCounts!ActiveDevicesExactHolds`, assuming `MildFaults`: no failing
  submission either. Then the inequality is an equality (`ExactInv`). A kickoff
  that submits nothing would leave a debt that nobody pays, so `Begun` says that
  its first input transfer is out from its submission on. The assumption is needed:
  with `submit` the device of section 3 is counted for ever.
* `LifecycleProofs!LifecycleImplemented`: `Spec => ImplementsLifecycle`, assuming
  `MildFaults`. `BusyRests` identifies the busy devices of the refinement mapping
  with those that owe a completion, so `ExactInv` counts them. A step of another
  thread that makes no device busy (`RestStays`) and leaves the counter alone
  leaves the same set busy (`SameBusy`: a subset of the same size) and stutters.
  The others are `Start`, `Launch`, `Started`, `Finish`, `End` and `Ended`;
  `LaunchInv` says that the devices behind `start()`'s cursor were launched, which
  `Started` and `Ended` need.
* `LifecycleProofs!CaptureCompleteHolds`, assuming `TameFaults`. `BookInv` keeps
  each device's books while its capture is live, that is launched, not yet over and
  not doomed (`Doomed`: the session is cancelled, the device's own thread is about
  to cancel it, or an exception is stored). What was requested is what arrived plus
  one transfer's worth for each that is pending, at libusb or in the callback's
  hands; the queue holds what arrived, up to what was asked for; requests stop in
  time, and a kickoff that is through has left something pending unless all is
  requested (`Balance`). So a device that reports completion, at rest and with
  nothing pending, has everything. `MarkInv` is what makes cancellation harmless:
  libusb reports a transfer cancelled, which `in_completion` drops in silence, only
  on behalf of a cancelled session. A submission that fails dooms its device before
  its books are wrong, and faults of one device do not reach the books of another
  but through the cancellation.
* `WriteChannelProofs!ChannelTypes`, `SingleConsumerHolds`, `NoLostBufferHolds`.
  One inductive invariant, `ChannelInv`: the mutex is held exactly at
  `HoldingPCs`, `m_state` exactly while `flush()` clears or `encode_out` fills,
  the buffer is empty from the thread's look at it until it sleeps (`Resting`),
  the iterator is 0 outside the pushing loop. `NoLostBuffer` needs `MutexOK`:
  `write()` replaces the buffer only with the mutex free, and the thread holds it
  from its look to its sleep.

* `WriteStreamProofs!StreamImplemented`: `Spec => ImplementsStream`, assuming
  `PlainUse` (no cyclic buffer, and only `write`, `run` and `flush`). `StreamInv`
  adds to `ChannelInv` what the refinement needs: `write()` hands over to an empty
  buffer (`WritingOK`), the writer stops short of its buffer's end only for a
  `flush()` that still waits for it (`StoppingOK`), no queued sample is the
  absent one (`StampsOK`). Then one lemma per interesting action: `WriteSet` is
  `Write`, `FlushClear` and a stopped `WriterEnd` are `Drop`, `EncodeNext` and
  `EncodePop` are `Send` unless they peek, `WriterPush` moves samples without
  changing what is pending (concatenation is associative, adjacent
  subsequences join); all other steps stutter.

  It covers continuous captures too, which `write_stream` leaves out because
  `NoOverpromise` is about finite ones.
* `WriteStreamProofs!NoOverpromiseHolds`, assuming `FiniteUse`: `PlainUse`, and no
  continuous capture, as `encode_out` counts `avail` down regardless in those.
  `PromiseInv` adds to `StreamInv` that the capture is finite and the property
  itself; each action then either leaves `Coming`, the samples on their way to
  `encode_out`, as large as it was, or lowers `avail` with it. The one loss is the
  rest of a buffer whose writer stops, and `StoppingOK` says that a `flush()`
  waits for that writer and will set `avail` to 0.
* `ReadPathProofs!ReadTypeCorrect`, `ReadAvailExact`, `ReadPopsWhatIsThere`,
  `ReadPathImplementsFeed`. `IInv` is inductive: `AvailExact` needs that `m_state`
  is held while a transfer is handled (`StateHeld`), else `flush()` could empty the
  queue between a push and its count; `PopsWhatIsThere` needs `TakeCounted`, that
  what is to be popped was counted as available, because only the reader lowers
  the count; the refinement needs `LossStored`, that a loss not yet reported is in
  `e_ptr`, so that `ReturnSamples` never crosses a gap. `DropFirst` and `DropAll`
  identify a pop and a flush with `SampleFeed`'s discards.

* `SessionProofs!SessionInvariant`: `Spec => []IInv`, for any number of devices,
  modes, rates, profiles, calls, failures and pluggings. From `IInv` follow
  `TypeCorrect`, `DevicesHaveOneObject`, `StartAppliesModes`, `EndTurnsMembersOff`
  and `CalibrationIsTheDevices`, that is every invariant of the `devices` run.

  The first part, `Core`, holds whatever the thread does. `OneObjectPerDevice` is
  inductive only with `Plugs`: an object of an earlier plugging in must never
  become reachable again, so no object may have a plug number of the future.
  `CalibrationTrue` is kept because a call through one object changes no EEPROM
  that another reachable one stands for, which is `OneObjectPerDevice` again.
  `SerialsOwn` bounds the members of a device (`add()` refuses a serial number
  that is there), so that scans find names; `ActiveCount` says that
  `m_active_devices` is never less than the members under way.

  The second part, `Progress`, is about the loops of `start()` and `end()`.
  `ModesApplied` and `EndLeavesOff` speak of the moment after the loop;
  `StartedSoFar` and `EndedSoFar` say the same of the members the loop has left
  behind, and survive a device unplugged half way because it is then no longer
  reachable. `ModesKnown` links the modes an object remembers to those that were
  chosen: `set_mode` stores the mode only when its transfers succeeded.

  The lemmas follow the code's calls. `OnOutcome`, `OffOutcome`, `StartedOutcome`,
  ... say what a sequence of transfers leaves when it succeeds and what it cannot
  touch when it fails (`Sound`); `SoundThen` composes them. `DeviceCore`,
  `ListsCore` and `FrameCore` then carry `Core` over a step that changes one
  device, only the lists, or neither, and each action has one lemma.

  Assumed of the constants: serial numbers that `set_serial()` gives are nobody's
  built-in ones (`SerialsAssumption`), and there are names for all objects that
  live at once (`EnoughNames`), as the code's allocator has addresses.
* `ArithmeticProofs!FollowsPhaseHolds`, `WithinPeakHolds`, for any number of samples
  and every unit, period, phase and duty, assuming `ExactArguments`: period and phase
  have at most 65536 parts, so that a float holds all of them (`FloatExact`; TLC's
  quarters of samples are such). `PhaseInv` says that the phase is congruent to start
  plus samples modulo the period, is within a period after the first sample, and has
  not passed 0 before its time (`fmod` keeps the sign of a negative phase); then the
  sample is a function of the phase, and `SampleIsWave` compares the functions
  waveform by waveform. The sawtooth needs `MaxIntPhaseExact`: where floats are exact
  (`MaxIntPhaseOf`) the code's test of the fractions gives the number of whole steps
  that fit in the cycle; where they are not it fails, as `ClaimSawtooth.cfg` shows.
* `ArithmeticProofs!RateWithinHalfTickHolds`, for every rate and both clocks.
* `ArithmeticProofs!RunWaitSufficesHolds`, about `run()`, assuming `ModerateUse`:
  captures of at most a million samples; with initial production firmware at most
  20000, and no rate from 256 to 299. The assumption is needed in this form because
  the rate that `end()` divides by is rounded to a whole number: over a capture of
  hours the rounding eats the spare second. `WaitCovers` adds up the three parts, the
  capture at the rounded rate, the rest of its last transfer and the rounding.
* `ArithmeticProofs!PagesCoverFileHolds`, assuming `SmallImages`: files that fill at
  most 256 pages, as beyond that a page number has three digits. `PageNumber`
  counts the commits before one by a bijection.

The lemmas on quotients (`DivMod`, `Unique`, `ModPlus`, `DivAtLeast`, ...) are stated
once: the prover knows division by literals only.

Only model-checked: liveness (`CancelDrains`, `EndTerminates`,
`EncodeTerminates`, `WritesReturn`, `ReadReturns`: out of the prover's reach),
`NoOverpromise` and `RunWaitSuffices` outside `FiniteUse` and `ModerateUse`, and
`CaptureComplete` when control transfers fail (run `faulty`, with one device).

## 5. Limits

* The Linux build: `M1000_Device::run`'s wait on `m_usb_cv` is Windows only.
* `Streaming`: one application thread; libusb callbacks run on the USB thread
  only, though a control transfer of the application's thread may handle events
  too; one kickoff thread per device at a time; unplugging is `nodev` only;
  sample counters stand still in continuous mode; transfers of an endpoint
  complete in any order; `Transfers::failed` has no effect because its loop
  (`usb.cpp:84`) never runs; without `stall` and `short`, `end()` times out only when
  nothing else can happen; condition variables wake no thread that was not
  notified.
* `WriteChannel`: one channel of a device in a source mode; `m_state` is
  released between two transfers of the kickoff (more behaviours than the code);
  the store to `stop` and the notification are one step; after an exception the
  direction may go on or stop; `write()` reads the size of the buffer at once.
  `NoOverpromise` and `EncodeTerminates` are about finite captures: in continuous
  mode `avail` counts down without limit and the spin is meant to wait for the
  application. The refinement leaves out cyclic buffers, which repeat samples,
  and pauses, which may be taken for a stop and lose some.
* `ReadPath`: one application thread; the decoding of a sample's four values is
  left out; `end()` of a finite capture comes after its transfers (`Streaming` has
  the early end); `skipsamples` lowers the count with each pop rather than once,
  and so does the loop, which the USB thread cannot tell because it never reads
  the count.
* `SessionDevices`: one application thread, which uses pointers of the two lists
  only and calls nothing but `start()` and `end()` during a capture; the starts
  that a device still has to complete are not counted by device (`Complete` may
  finish one or all of them); each plugging in has a new
  USB address (hosts go round 127 of them; a second device at the address of a
  member that is gone would be taken for it, `session.cpp:415`); flashing with no
  capture under way only; the session's destructor is left out; `configure` of a
  device does not run out of memory.
* `Signals`: periods and phases are multiples of a power of two, so that the
  doubles of `fmod` and of the sums are exact (`RoundingAssumption`); of the errors that
  add up for other periods nothing is said. Floats are rounded where a sawtooth is
  cut into parts; the last rounding of a value is left out.
* Not modelled: `attached` and `detached`, because nothing in the repository
  registers the libusb callback that calls them; `set_led`, `set_adc_mux`,
  `overcurrent` and the reading of versions, each one transfer that changes
  nothing the program looks at again; the parser of calibration files, whose
  averages are data (a file with more than eight records overruns the parser's
  arrays, what follows is undefined); the serial protocol of the SAM-BA
  bootloader; pysmu, which wraps the calls one by one; the command-line tool and
  the examples, which have no state; the errno table of `usb.cpp`.

## 6. Plan

Left to prove: the wait of `end()` at the rates of the first firmware that
`ModerateUse` leaves out.
