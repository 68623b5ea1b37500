--------------------------- MODULE SessionDevices ---------------------------
(***************************************************************************)
(* A Session's devices (src/src/session.cpp): scan() makes a Device object *)
(* of every M1000 on the bus, add() and remove() choose the members of the *)
(* session, configure(), start() and end() run them, flash_firmware()      *)
(* deletes them; between the calls, and between the devices of a call,     *)
(* devices are unplugged and plugged in again.                             *)
(*                                                                         *)
(* The application is one thread that uses the objects of the two lists    *)
(* only.  What streaming does is Streaming's subject: here a device that   *)
(* was started just completes.  Each plugging in gets a new USB address.   *)
(***************************************************************************)
EXTENDS DeviceControl, FiniteSets, Functions

CONSTANTS Devices,     \* the M1000s there are
          Objects,     \* names, addresses, for the Device objects that live at once
          Modes,       \* arguments of set_mode()
          Profiles,    \* sets of calls; a behaviour makes those of one of them
          Rates,       \* arguments of configure(), each its own period
          MaxCalls,    \* bound on its calls
          MaxPlugs,    \* bound on plugging in
          MaxFaults    \* bound on the failures of each device's transfers

ASSUME SessionDevicesAssumption ==
  /\ Modes \subseteq 0 .. 5 /\ Rates \subseteq Nat \ {0} /\ MaxCalls \in Nat
  /\ MaxPlugs \in Nat \ {0} /\ MaxFaults \in Nat
  /\ IsFiniteSet(Devices) /\ IsFiniteSet(Objects)

\* A number that set_serial() gives is no device's built-in number.
ASSUME SerialsAssumption == \A d, e \in Devices : d # <<e>>

\* Two members for each device, of its two serial numbers, and a new object:
\* a scan never runs out of names.
ASSUME EnoughNames == Cardinality(Objects) >= 3 * Cardinality(Devices)

VARIABLES
  hw,           \* the device: see PoweredUp
  obj,          \* the Device objects, functions of Objects
  members, available,    \* m_devices, m_available_devices
  deleted,      \* objects that were deleted and are in a list still
  active, rate, continuous, cancellation,  \* m_active_devices, ...
  streaming,    \* members with transfers under way, or never any
  profile,      \* the calls of this behaviour
  pc, todo,     \* where the application's thread is in start() or end()
  calls, plugs,
  chosen, calOK, phase  \* history: see the properties

lists    == <<members, available, deleted>>
capture  == <<active, rate, continuous, cancellation, streaming>>
thread   == <<profile, pc, todo>>
history  == <<chosen, calOK, phase>>
vars == <<hw, obj, lists, capture, thread, calls, plugs, history>>

None == [dev |-> "none"]

Init ==
  /\ hw = [d \in Devices |-> PoweredUp(1, d, "factory", MaxFaults)]
  /\ obj = [o \in Objects |-> None]
  /\ members = {} /\ available = {} /\ deleted = {}
  /\ active = 0 /\ rate = 0 /\ continuous = FALSE /\ cancellation = FALSE
  /\ profile \in Profiles
  /\ streaming = {} /\ pc = "idle" /\ todo = {} /\ calls = 0 /\ plugs = 1
  /\ chosen = [o \in Objects |-> [ch \in Channels |-> HI_Z]]
  /\ calOK = {} /\ phase = "none"

-----------------------------------------------------------------------------
Plugged(d)   == hw[d].plug # 0
HwOf(o)      == hw[obj[o].dev]
Reachable(o) == obj[o].plug = HwOf(o).plug
\* An object reached by way of the application's pointers, not deleted.
Usable == (members \cup available) \ deleted

\* The application may call: the calls that touch a list need its pointers.
Call(name) ==
  /\ pc = "idle" /\ calls < MaxCalls /\ name \in profile
  /\ members \cap deleted = {}
  /\ calls' = calls + 1
\* if (m_active_devices) return -EBUSY;
IdleCall(name) == Call(name) /\ active = 0

\* One device's settings changed as that outcome says.
Settle(o, x) == hw' = [hw EXCEPT ![obj[o].dev] = x.hw]

-----------------------------------------------------------------------------
(* scan() and probe_device() *)

\* The M1000_Device a probe of h makes: modes HI_Z, no rate, calibration read.
NewObject(d, h, r) ==
  [dev |-> d, plug |-> h.plug, serial |-> h.serial,
   mode |-> [ch \in Channels |-> HI_Z], cal |-> CalibrationRead(h, r),
   period |-> 0]

\* Mutant: a device that is a member already gets another object.
NoMemberAt(d) == {}
\* The member at that USB address, if any.
MemberAt(d) == {o \in members : obj[o].dev = d /\ obj[o].plug = hw[d].plug}

\* Names for the new objects of those devices.
Names(new) == CHOOSE f \in [new -> Objects \ members] : IsInjective(f)

\* What scan() finds on a bus: the available list starts from nothing; a
\* member is found again, any other device gets a new object.  Of the plugged
\* devices those in found can be probed, of those in read the calibration read.
Scanned(bus, found, read) ==
  LET new     == {d \in found : MemberAt(d) = {}}
      name    == Names(new)
      made(d) == NewObject(d, bus[d], IF d \in read THEN "ok" ELSE "error")
  IN [obj |-> [o \in Objects |->
                 IF o \in members THEN obj[o]
                 ELSE IF \E d \in new : name[d] = o
                 THEN made(CHOOSE d \in new : name[d] = o) ELSE None],
      available |-> (UNION {MemberAt(d) : d \in found}) \cup {name[d] : d \in new},
      read |-> {name[d] : d \in new \cap read}]

\* One probe and one read may fail.
ScanOutcomes(bus) ==
  LET all  == {d \in Devices : Plugged(d)}
      most == {all} \cup {all \ {d} : d \in {e \in all : bus[e].faults > 0}}
  IN {Scanned(bus, found, read) : found \in most, read \in most}

AfterScan(s) ==
  /\ obj' = s.obj /\ available' = s.available /\ deleted' = {}
  /\ calOK' = (calOK \cap members) \cup s.read
  /\ chosen' = [o \in Objects |->
                  IF o \in members THEN chosen[o] ELSE [ch \in Channels |-> HI_Z]]

Scan ==
  /\ Call("scan") /\ active = 0
  /\ \E s \in ScanOutcomes(hw) : AfterScan(s)
  /\ phase' = "none"
  /\ UNCHANGED <<hw, members, capture, thread, plugs>>

-----------------------------------------------------------------------------
(* Members: add(), add_all(), remove(), destroy() *)

\* A member with the same serial number makes room for the new one.
WithMember(o, ms) == {m \in ms : obj[m].serial # obj[o].serial} \cup {o}

\* claim() and release() are calls to libusb that leave the device as it is.
Claim(o)   == Transfer(HwOf(o), obj[o], HwOf(o))
Release(o) == Transfer(HwOf(o), obj[o], HwOf(o))

Add(o) ==
  /\ IdleCall("add") /\ o \in available \ deleted
  /\ \E x \in Claim(o) :
       members' = IF x.ret = "ok" THEN WithMember(o, members) ELSE members
  /\ phase' = "none"
  /\ UNCHANGED <<hw, obj, available, deleted, capture, thread, plugs, chosen, calOK>>

\* add_all(): a scan, then every device found until one cannot be claimed.
AddAll ==
  /\ IdleCall("add_all")
  /\ \E s \in ScanOutcomes(hw) :
       /\ AfterScan(s)
       /\ \E added \in SUBSET s.available :
            /\ added = s.available \/
                 \E o \in s.available \ added : hw[s.obj[o].dev].faults > 0
            /\ members' = added \cup
                 {m \in members : \A o \in added : s.obj[m].serial # s.obj[o].serial}
  /\ phase' = "none"
  /\ UNCHANGED <<hw, capture, thread, plugs>>

\* remove(): a device that has been detached may be removed all the same.
Remove(o, detached) ==
  /\ IdleCall("remove") /\ o \in members
  /\ \E x \in Release(o) :
       members' = IF x.ret = "ok" \/ (detached /\ x.ret = "nodev")
                  THEN members \ {o} ELSE members
  /\ phase' = "none"
  /\ UNCHANGED <<hw, obj, available, deleted, capture, thread, plugs, chosen, calOK>>

\* destroy(): some available device with that serial number is forgotten.
Destroy(o) ==
  /\ IdleCall("destroy") /\ o \in Usable /\ deleted = {}
  /\ LET same == {a \in available : obj[a].serial = obj[o].serial}
     IN IF same = {} THEN UNCHANGED available
        ELSE \E a \in same : available' = available \ {a}
  /\ phase' = "none"
  /\ UNCHANGED <<hw, obj, members, deleted, capture, thread, plugs, chosen, calOK>>

-----------------------------------------------------------------------------
(* The devices' own methods *)

CallSetMode(o, ch, mode) ==
  /\ Call("set_mode") /\ active = 0 /\ o \in Usable
  /\ \E x \in SetMode(HwOf(o), obj[o], ch, mode) :
       /\ Settle(o, x)
       /\ IF x.ret = "ok"
          THEN /\ obj' = [obj EXCEPT ![o].mode[ch] = mode]
               /\ chosen' = [chosen EXCEPT ![o][ch] = mode]
          ELSE UNCHANGED <<obj, chosen>>
  /\ phase' = "none"
  /\ UNCHANGED <<lists, capture, thread, plugs, calOK>>

CallWriteCalibration(o, f) ==
  /\ Call("write_calibration") /\ active = 0 /\ o \in Usable
  /\ obj' = [obj EXCEPT ![o].cal = f.cal]
  /\ \E x \in WriteCalibration(HwOf(o), obj[o], f) :
       /\ Settle(o, x)
       /\ calOK' = IF x.ret = "ok" THEN calOK \cup {o} ELSE calOK \ {o}
  /\ phase' = "none"
  /\ UNCHANGED <<lists, capture, thread, plugs, chosen>>

\* set_serial() scans again, whatever the members are.
CallSetSerial(o, serial) ==
  /\ IdleCall("set_serial") /\ o \in Usable
  /\ phase' = "none"
  /\ \E x \in SetSerial(HwOf(o), obj[o], serial) :
       /\ Settle(o, x)
       /\ IF x.ret = "ok"
          THEN \E s \in ScanOutcomes(hw') : AfterScan(s)
          ELSE UNCHANGED <<obj, available, deleted, calOK, chosen>>
  /\ UNCHANGED <<members, capture, thread, plugs>>

-----------------------------------------------------------------------------
(* configure(), start() and end() *)

Configured(r) ==
  obj' = [o \in Objects |-> IF o \in members THEN [obj[o] EXCEPT !.period = r]
                            ELSE obj[o]]

Configure(r) ==
  /\ IdleCall("configure") /\ members # {}
  /\ Configured(r) /\ rate' = r
  /\ phase' = "none"
  /\ UNCHANGED <<hw, lists, active, continuous, cancellation, streaming, thread,
                 plugs, chosen, calOK>>

\* start() looks at no count: after an end() whose wait was in vain, or with
\* no end() at all, it starts over what is streaming.  It configures a session
\* that has no rate yet, and so no member that joined later.
CallStart(cont) ==
  /\ Call("start") /\ members # {}
  /\ continuous' = cont /\ cancellation' = FALSE
  /\ IF rate = 0 THEN \E r \in Rates : Configured(r) /\ rate' = r
     ELSE UNCHANGED <<obj, rate>>
  /\ pc' = "start" /\ todo' = members /\ phase' = "none"
  /\ UNCHANGED <<hw, lists, active, streaming, profile, plugs, chosen, calOK>>

\* What start() does with one device.
Started(o) ==
  Then(On(HwOf(o), obj[o]), LAMBDA h1 :
  Then(IF Cardinality(members) > 1 THEN Sync(h1, obj[o]) ELSE {Outcome(h1, "ok")},
       LAMBDA h2 : Run(h2, obj[o])))

\* The loop of start(), whose order is that of the pointers: any.
StartDevice(o) ==
  /\ pc = "start" /\ o \in todo
  /\ \E x \in Started(o) :
       /\ Settle(o, x)
       /\ IF x.ret = "ok"
          THEN /\ active' = active + 1 /\ streaming' = streaming \cup {o}
               /\ todo' = todo \ {o}
          ELSE todo' = {} /\ UNCHANGED <<active, streaming>>
       /\ pc' = IF todo' = {} THEN "idle" ELSE pc
       /\ phase' = IF x.ret = "ok" /\ todo' = {} THEN "capture" ELSE "none"
  /\ UNCHANGED <<obj, lists, rate, continuous, cancellation, profile, calls, plugs,
                 chosen, calOK>>

\* Mutant: the device may complete again.
CompleteAgain(o) ==
  /\ o \in streaming /\ obj[o].period # 0
  /\ ~continuous \/ cancellation \/ ~Reachable(o)
  /\ active' = active - 1
  /\ cancellation' = (cancellation \/ ~Reachable(o))
  /\ UNCHANGED <<hw, obj, lists, rate, continuous, streaming, thread, calls, plugs, history>>
\* The last transfer of a device is back: its samples are in, the session is
\* cancelled, or the device is gone, which cancels the session.  A device that
\* was never configured has no transfers and nothing to complete.  One started
\* over may complete once for both starts, or once for each: the count of the
\* starts to complete is not kept by device.
Complete(o) ==
  /\ o \in streaming /\ obj[o].period # 0
  /\ ~continuous \/ cancellation \/ ~Reachable(o)
  /\ active' = active - 1
  /\ \/ streaming' = streaming \ {o}
     \/ active > Cardinality(streaming) /\ UNCHANGED streaming
  /\ cancellation' = (cancellation \/ ~Reachable(o))
  /\ UNCHANGED <<hw, obj, lists, rate, continuous, thread, calls, plugs, history>>

CallEnd ==
  /\ pc = "idle" /\ phase # "ended" /\ members # {} /\ members \cap deleted = {}
  /\ cancellation' = (cancellation \/ continuous) /\ continuous' = FALSE
  /\ pc' = "wait"
  /\ phase' = "none"
  /\ UNCHANGED <<hw, obj, lists, active, rate, streaming, profile, todo, calls, plugs,
                 chosen, calOK>>

\* The wait is over when no device is active, or in vain: how long it lasts
\* has nothing to do with how long the devices stream (see Streaming).
EndWaited ==
  /\ pc = "wait"
  /\ pc' = "end" /\ todo' = members
  /\ UNCHANGED <<hw, obj, lists, capture, profile, calls, plugs, history>>

\* The loop of end(): -ENODEV does not count, another error ends it.
EndDevice(o) ==
  /\ pc = "end" /\ o \in todo
  /\ \E x \in Off(HwOf(o), obj[o]) :
       /\ Settle(o, x)
       /\ todo' = IF x.ret = "error" THEN {} ELSE todo \ {o}
       /\ pc' = IF todo' = {} THEN "idle" ELSE pc
       /\ phase' = IF x.ret # "error" /\ todo' = {} THEN "ended" ELSE "none"
  /\ UNCHANGED <<obj, lists, capture, profile, calls, plugs, chosen, calOK>>

-----------------------------------------------------------------------------
(* flash_firmware() *)

\* One device gives up its place and goes to its bootloader, whatever the
\* result of remove().
Unloaded(o) ==
  {[obj |-> o, removed |-> r.ret = "ok", hw |-> b.hw] :
     r \in (IF o \in members THEN Release(o) ELSE {Outcome(HwOf(o), "error")}),
     b \in SambaMode(HwOf(o), obj[o])}

\* The objects that remove() takes out of the session.
Removed(out) == {o \in DOMAIN out : out[o].removed}

\* The devices of the objects in S are forced into their bootloaders and
\* their objects deleted; then every device found in its bootloader, those of
\* an earlier failure too, is flashed and comes back, or fails.  Nothing is
\* flashed if there are fewer than asked for.
Flash(S) ==
  /\ Call("flash") /\ active = 0 /\ S \subseteq available \ deleted
  /\ \E out \in {f \in [S -> UNION {Unloaded(o) : o \in S}] : \A o \in S : f[o].obj = o} :
       LET own(d) == {o \in S : obj[o].dev = d /\ Reachable(o)}
           after  == [d \in Devices |-> IF own(d) = {} THEN hw[d]
                                        ELSE out[CHOOSE o \in own(d) : TRUE].hw]
           boot   == {d \in Devices : after[d].boot}
       IN /\ members' = members \ Removed(out)
          /\ \E back \in SUBSET boot :
               /\ back # {} => Cardinality(boot) >= Cardinality(S) /\ plugs < MaxPlugs
               /\ plugs' = IF back = {} THEN plugs ELSE plugs + 1
               /\ hw' = [d \in Devices |->
                           IF d \notin back THEN after[d]
                           ELSE PoweredUp(plugs', hw[d].serial, hw[d].eeprom, after[d].faults)]
  /\ deleted' = deleted \cup S
  /\ phase' = "none"
  /\ UNCHANGED <<obj, available, capture, thread, chosen, calOK>>

-----------------------------------------------------------------------------
(* The user's hands *)

Unplug(d) ==
  /\ Plugged(d) /\ "unplug" \in profile
  /\ hw' = [hw EXCEPT ![d] = PoweredUp(0, @.serial, @.eeprom, @.faults)]
  /\ UNCHANGED <<obj, lists, capture, thread, calls, plugs, history>>

\* Power is what an M1000 takes from the bus: its settings are gone.
Plug(d) ==
  /\ ~Plugged(d) /\ ~hw[d].boot /\ plugs < MaxPlugs
  /\ plugs' = plugs + 1
  /\ hw' = [hw EXCEPT ![d] = PoweredUp(plugs', @.serial, @.eeprom, @.faults)]
  /\ UNCHANGED <<obj, lists, capture, thread, calls, history>>

-----------------------------------------------------------------------------
ListCalls ==
  \/ Scan \/ AddAll
  \/ \E o \in Objects : Add(o) \/ Destroy(o)
  \/ \E o \in Objects, detached \in BOOLEAN : Remove(o, detached)
  \/ \E S \in {available} \cup {{o} : o \in Objects} : Flash(S)

DeviceCalls ==
  \/ \E o \in Objects, ch \in Channels, mode \in Modes : CallSetMode(o, ch, mode)
  \/ \E o \in Objects, f \in CalibrationFiles : CallWriteCalibration(o, f)
  \/ \E o \in Objects : \E s \in {obj[o].dev, <<obj[o].dev>>} : CallSetSerial(o, s)

SessionSteps ==
  \/ \E r \in Rates : Configure(r)
  \/ \E cont \in BOOLEAN : CallStart(cont)
  \/ \E o \in Objects : StartDevice(o) \/ Complete(o) \/ EndDevice(o)
  \/ CallEnd \/ EndWaited

Next ==
  \/ ListCalls \/ DeviceCalls \/ SessionSteps
  \/ \E d \in Devices : Unplug(d) \/ Plug(d)

Spec == Init /\ [][Next]_vars

-----------------------------------------------------------------------------
(* Properties *)

Serials == Devices \cup {<<d>> : d \in Devices}

HwType ==
  [plug : 0 .. MaxPlugs, serial : Serials, eeprom : {"factory", "unity", "file"},
   faults : 0 .. MaxFaults, pset : [Channels -> {"0x7f7f", "0x0000", "0x3000"}],
   mode : [Channels -> 0 .. 2], split : SUBSET Channels, alt : {0, 1},
   boot : BOOLEAN, ready : BOOLEAN, sampling : Nat]

ObjectType ==
  [dev : Devices, plug : 1 .. MaxPlugs, serial : Serials,
   mode : [Channels -> 0 .. 5], cal : {"unity", "factory", "file", "mixed"},
   period : Nat]

\* Every variable has its type (the declarations of libsmu.hpp).
TypeOK ==
  /\ hw \in [Devices -> HwType] /\ obj \in [Objects -> ObjectType \cup {None}]
  /\ members \subseteq Objects /\ available \subseteq Objects
  /\ \A o \in members \cup available : obj[o] \in ObjectType
  /\ deleted \subseteq available \cup members
  /\ active \in Nat /\ rate \in Nat
  /\ continuous \in BOOLEAN /\ cancellation \in BOOLEAN
  /\ streaming \subseteq Objects /\ todo \subseteq members
  /\ pc \in {"idle", "start", "wait", "end"} /\ profile \in Profiles
  /\ plugs \in 1 .. MaxPlugs /\ calls \in 0 .. MaxCalls
  /\ chosen \in [Objects -> [Channels -> 0 .. 5]]
  /\ phase \in {"none", "capture", "ended"}

\* However plugging, scanning, adding and removing alternate, the objects the
\* application can reach are one per plugged device: a setting made through
\* one cannot be missing from another (session.cpp:414-419).
OneObjectPerDevice ==
  \A a, b \in Usable :
    obj[a].dev = obj[b].dev /\ Reachable(a) /\ Reachable(b) => a = b

\* After a start() that succeeded each device is in the modes that the last
\* successful set_mode chose for its channels and samples at its rate,
\* whatever transfers of earlier calls failed (device_m1000.cpp:895-918).  The
\* switch of a split mode is on if no transfer to the device ever failed: the
\* result of the one that turns it on is dropped (856-860).
ModesApplied ==
  phase = "capture" =>
    \A o \in members : Reachable(o) =>
      /\ HwOf(o).sampling = obj[o].period
      /\ \A ch \in Channels :
           /\ HwOf(o).pset[ch] = Pset(chosen[o][ch])
           /\ HwOf(o).mode[ch] = chosen[o][ch] % 3
           /\ Split(chosen[o][ch]) /\ HwOf(o).faults = MaxFaults =>
                ch \in HwOf(o).split

\* After an end() that returned 0 no member is left driving its channels or
\* sampling: those end() passed over as detached are detached
\* (session.cpp:606-615).
EndLeavesOff ==
  phase = "ended" =>
    \A o \in members : Reachable(o) =>
      /\ HwOf(o).sampling = 0
      /\ \A ch \in Channels : HwOf(o).mode[ch] = HI_Z

\* What an object scales samples with is what its device's EEPROM holds, if
\* the last call through it to read or write that succeeded
\* (device_m1000.cpp:150-258, session.cpp:440).
CalibrationTrue ==
  \A o \in Usable \cap calOK : Reachable(o) => obj[o].cal = CalibrationRead(HwOf(o), "ok")

-----------------------------------------------------------------------------
(* What the header says, and the code does not keep to *)

\* "Devices that are part of this session.  These devices will be started when
\* start() is called" (libsmu.hpp:125-126): none that start() reported to be
\* running is left with the period 0, which stops it (session.cpp:634-636).
StartRunsAll ==
  phase = "capture" => \A o \in members : Reachable(o) => HwOf(o).sampling # 0

\* "SVMI with enabled switch for the input only pin added in Rev F"
\* (libsmu.hpp:93): the switch is on when set_mode and start() have returned 0
\* (device_m1000.cpp:856-860).  It takes a failure in each to leave it off.
SplitApplied ==
  phase = "capture" =>
    \A o \in members : Reachable(o) =>
      \A ch \in Channels : Split(chosen[o][ch]) => ch \in HwOf(o).split

\* "Devices that are part of this session" (libsmu.hpp:125): none that
\* flash_firmware() has deleted, whose remove() it does not check
\* (session.cpp:289).
MembersLive == members \cap deleted = {}

=============================================================================
