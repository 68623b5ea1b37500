---------------------------- MODULE SessionProofs ----------------------------
(***************************************************************************)
(* Proofs of SessionDevices' invariants, for any devices, calls, failures  *)
(* and pluggings.                                                          *)
(*                                                                         *)
(* Nothing tells the objects of one device apart but the plug each was     *)
(* opened at: every setting is safe because plugs are fresh (Plugs) and no *)
(* two reachable objects share a device (OneObjectPerDevice).  What        *)
(* start() and end() have achieved is stated of the members they have left *)
(* behind (StartedSoFar, EndedSoFar).                                      *)
(***************************************************************************)
EXTENDS SessionDevices, FiniteSetTheorems, FunctionTheorems, TLAPS

-----------------------------------------------------------------------------
(* The inductive invariant *)

Listed == members \cup available

\* A history variable holds objects.
HistoryType == calOK \subseteq Objects

\* No plug of a device or an object is in the future.
Plugs ==
  /\ \A d \in Devices : hw[d].plug <= plugs
  /\ \A o \in Listed : obj[o].plug <= plugs

\* A serial number is its device's built-in number or the one given to it, and
\* belongs to one member.
OwnSerial(d) == {d, <<d>>}
SerialsOwn ==
  /\ \A d \in Devices : hw[d].serial \in OwnSerial(d)
  /\ \A o \in Listed : obj[o].serial \in OwnSerial(obj[o].dev)
  /\ \A a, b \in members : obj[a].serial = obj[b].serial => a = b

\* m_active_devices counts every member that streams, once at least: one that
\* was started over may count more than once.
ActiveCount ==
  streaming \subseteq members /\ Cardinality(streaming) <= active

\* An object remembers the modes that were set through it.
ModesKnown == \A o \in Listed : obj[o].mode = chosen[o]

\* Nothing is deleted under start() and end(), and a result they left is
\* forgotten with the next call.
DeletedAside == pc # "idle" \/ phase # "none" => members \cap deleted = {}
PhaseIdle    == pc # "idle" => phase = "none"

Applied(o) ==
  /\ HwOf(o).sampling = obj[o].period
  /\ \A ch \in Channels :
       /\ HwOf(o).pset[ch] = Pset(chosen[o][ch])
       /\ HwOf(o).mode[ch] = chosen[o][ch] % 3
       /\ Split(chosen[o][ch]) /\ HwOf(o).faults = MaxFaults => ch \in HwOf(o).split
StartedSoFar ==
  pc = "start" => \A o \in members \ todo : Reachable(o) => Applied(o)

TurnedOff(o) ==
  HwOf(o).sampling = 0 /\ \A ch \in Channels : HwOf(o).mode[ch] = HI_Z
EndedSoFar ==
  pc = "end" => \A o \in members \ todo : Reachable(o) => TurnedOff(o)

\* No device is left to be done but in the loops of start() and end().
LoopsOnly == pc \in {"idle", "wait"} => todo = {}

\* What holds whatever the thread is doing, and what depends on that.
Core ==
  /\ TypeOK /\ HistoryType /\ LoopsOnly /\ Plugs /\ SerialsOwn /\ ActiveCount /\ ModesKnown
  /\ OneObjectPerDevice /\ CalibrationTrue
Progress ==
  /\ DeletedAside /\ PhaseIdle /\ StartedSoFar /\ EndedSoFar
  /\ ModesApplied /\ EndLeavesOff
IInv == Core /\ Progress

-----------------------------------------------------------------------------
(* What the methods leave behind *)

\* The outcome x of transfers made through object o to a device that was h:
\* only its settings changed, no switch was turned off, and nothing happened if
\* it is not the one o was opened on.
Sound(h, o, x) ==
  /\ x.hw \in HwType /\ x.ret \in {"ok", "error", "nodev"}
  /\ x.hw.plug = h.plug /\ x.hw.serial = h.serial /\ x.hw.eeprom = h.eeprom
  /\ x.hw.boot = h.boot
  /\ x.hw.faults <= h.faults /\ h.split \subseteq x.hw.split
  /\ x.ret = "nodev" <=> h.plug # o.plug
  /\ x.ret = "nodev" => x.hw = h

\* What a failure costs.
Spent(h) == [h EXCEPT !.faults = h.faults - 1]

\* A control transfer succeeds, or fails and changes nothing.
LEMMA TransferOutcome ==
  ASSUME NEW h \in HwType, NEW o, NEW after, NEW x \in Transfer(h, o, after)
  PROVE  /\ x.ret \in {"ok", "error", "nodev"}
         /\ x.ret = "nodev" <=> h.plug # o.plug
         /\ x.ret = "ok" => x.hw = after
         /\ x.ret = "nodev" => x.hw = h
         /\ x.ret = "error" => x.hw = Spent(h) /\ Spent(h) \in HwType
<1>1. CASE h.plug # o.plug
  BY <1>1 DEF Transfer, Outcome
<1>2. CASE h.plug = o.plug /\ x = Outcome(after, "ok")
  BY <1>2 DEF Outcome
<1>3. ASSUME h.plug = o.plug, NEW n \in {h.faults} \ {0},
             x = Outcome([h EXCEPT !.faults = n - 1], "error")
      PROVE  x.ret = "error" /\ x.hw = Spent(h) /\ Spent(h) \in HwType
  BY <1>3, SessionDevicesAssumption DEF Outcome, HwType, Spent
<1> QED BY <1>1, <1>2, <1>3 DEF Transfer

\* A failed transfer leaves all but the count of failures.
LEMMA SpentKeeps ==
  ASSUME NEW h \in HwType
  PROVE  /\ Spent(h).plug = h.plug /\ Spent(h).serial = h.serial
         /\ Spent(h).eeprom = h.eeprom /\ Spent(h).boot = h.boot
         /\ Spent(h).pset = h.pset /\ Spent(h).mode = h.mode
         /\ Spent(h).sampling = h.sampling /\ Spent(h).split = h.split
         /\ Spent(h).faults = h.faults - 1
BY DEF Spent, HwType

\* A transfer that changes settings only.
LEMMA TransferSound ==
  ASSUME NEW h \in HwType, NEW o, NEW after \in HwType, NEW x \in Transfer(h, o, after),
         after.plug = h.plug, after.serial = h.serial, after.eeprom = h.eeprom,
         after.boot = h.boot, after.faults = h.faults, h.split \subseteq after.split
  PROVE  Sound(h, o, x) /\ (x.ret = "ok" => x.hw = after)
<1>1. h.faults \in Nat
  BY SessionDevicesAssumption DEF HwType
<1> QED BY <1>1, TransferOutcome, SpentKeeps DEF Sound

\* g is h with that channel in that mode, its switch on unless a transfer
\* failed.
ModeSet(h, ch, mode, g) ==
  /\ g.pset = [h.pset EXCEPT ![ch] = Pset(mode)]
  /\ g.mode = [h.mode EXCEPT ![ch] = mode % 3]
  /\ g.sampling = h.sampling
  /\ Split(mode) /\ g.faults = h.faults => ch \in g.split

\* set_mode that succeeds sets the channel's potentiometer and mode, and leaves
\* the other channel alone.
LEMMA SetModeOutcome ==
  ASSUME NEW h \in HwType, NEW o, NEW ch \in Channels, NEW mode \in 0 .. 5,
         NEW x \in SetMode(h, o, ch, mode)
  PROVE  Sound(h, o, x) /\ (x.ret = "ok" => ModeSet(h, ch, mode, x.hw))
<1> DEFINE g1 == [h EXCEPT !.pset[ch] = Pset(mode)]
           g2 == [g1 EXCEPT !.mode[ch] = mode % 3]
           g3 == [g2 EXCEPT !.split = @ \cup {ch}]
<1>1. Pset(mode) \in {"0x7f7f", "0x0000", "0x3000"} /\ mode % 3 \in 0 .. 2
  BY DEF Pset
<1>2. /\ g1 \in HwType /\ g1.plug = h.plug /\ g1.serial = h.serial
      /\ g1.eeprom = h.eeprom /\ g1.boot = h.boot /\ g1.sampling = h.sampling
      /\ g1.pset = [h.pset EXCEPT ![ch] = Pset(mode)] /\ g1.mode = h.mode
      /\ g1.faults = h.faults /\ g1.split = h.split
  BY <1>1 DEF HwType
<1>3. /\ g2 \in HwType /\ g2.plug = g1.plug /\ g2.serial = g1.serial
      /\ g2.eeprom = g1.eeprom /\ g2.boot = g1.boot /\ g2.sampling = g1.sampling
      /\ g2.pset = g1.pset /\ g2.mode = [g1.mode EXCEPT ![ch] = mode % 3]
      /\ g2.faults = g1.faults /\ g2.split = g1.split
  BY <1>1, <1>2 DEF HwType
<1>4. /\ g3 \in HwType /\ g3.plug = g2.plug /\ g3.serial = g2.serial
      /\ g3.eeprom = g2.eeprom /\ g3.boot = g2.boot /\ g3.sampling = g2.sampling
      /\ g3.pset = g2.pset /\ g3.mode = g2.mode
      /\ g3.faults = g2.faults /\ g3.split = g2.split \cup {ch}
  BY <1>3 DEF HwType
<1> HIDE DEF g1, g2, g3
<1>5. \A y \in Transfer(h, o, g1) : Sound(h, o, y) /\ (y.ret = "ok" => y.hw = g1)
  BY <1>2, TransferSound
<1>6. \A y \in Transfer(g1, o, g2) : Sound(g1, o, y) /\ (y.ret = "ok" => y.hw = g2)
  BY <1>2, <1>3, TransferSound
<1>7. \A y \in Transfer(g2, o, g3) :
        Sound(g2, o, y) /\ (g2.plug = o.plug => y.hw \in {g3, Spent(g2)})
  BY <1>3, <1>4, TransferOutcome, TransferSound
<1> DEFINE T1 == Transfer(h, o, [h EXCEPT !.pset[ch] = Pset(mode)])
           T2(h1) == Transfer(h1, o, [h1 EXCEPT !.mode[ch] = mode % 3])
           T3(h2) == Ignored(Transfer(h2, o, [h2 EXCEPT !.split = @ \cup {ch}]))
           R2(h2) == IF Split(mode) THEN T3(h2) ELSE {Outcome(h2, "ok")}
           R1(h1) == Then(T2(h1), R2)
           Goal(y) == Sound(h, o, y) /\ (y.ret = "ok" => ModeSet(h, ch, mode, y.hw))
<1>8. SetMode(h, o, ch, mode) =
        {y \in T1 : y.ret # "ok"} \cup UNION {R1(y.hw) : y \in {z \in T1 : z.ret = "ok"}}
  BY DEF SetMode, Then
<1>9. R1(g1) =
        {y \in T2(g1) : y.ret # "ok"}
          \cup UNION {R2(y.hw) : y \in {z \in T2(g1) : z.ret = "ok"}}
  BY DEF Then
<1>10. \A y \in T1 :
         /\ y.ret = "ok" => y.hw = g1 /\ h.plug = o.plug
         /\ y.ret # "ok" => Goal(y)
  BY <1>5 DEF g1, Sound
<1>11. ASSUME h.plug = o.plug
       PROVE  \A y \in T2(g1) : (y.ret = "ok" => y.hw = g2) /\ (y.ret # "ok" => Goal(y))
  BY <1>2, <1>6, <1>11 DEF g2, Sound
<1>12. ASSUME h.plug = o.plug PROVE \A y \in R2(g2) : Goal(y)
  <2>1. T3(g2) = {Outcome(z.hw, "ok") : z \in Transfer(g2, o, g3)}
    BY DEF Ignored, g3
  <2>2. ASSUME NEW g \in {g2, g3, Spent(g2)}, g \in HwType,
               Split(mode) => g \in {g3, Spent(g2)}
        PROVE  Goal(Outcome(g, "ok"))
    <3>1. Outcome(g, "ok").hw = g /\ Outcome(g, "ok").ret = "ok"
      BY DEF Outcome
    <3>2. /\ g \in HwType /\ g.plug = g2.plug /\ g.serial = g2.serial
          /\ g.eeprom = g2.eeprom /\ g.boot = g2.boot /\ g.pset = g2.pset
          /\ g.mode = g2.mode /\ g.sampling = g2.sampling
      BY <2>2, <1>3, <1>4, SpentKeeps
    <3>3. /\ h.faults \in Nat /\ g.faults <= h.faults /\ h.split \subseteq g.split
          /\ Split(mode) /\ g.faults = h.faults => ch \in g.split
      <4>1. h.faults \in Nat /\ g2.faults = h.faults /\ g2.split = h.split
        BY <1>2, <1>3, SessionDevicesAssumption DEF HwType
      <4> QED BY <2>2, <1>4, <4>1, <1>3, SpentKeeps
    <3> HIDE DEF T1, T2, T3, R1, R2
    <3> QED BY <1>2, <1>3, <1>12, <3>1, <3>2, <3>3 DEF Sound, ModeSet
  <2>3. ASSUME NEW y \in Transfer(g2, o, g3), Split(mode) PROVE Goal(Outcome(y.hw, "ok"))
    <3>1. y.hw \in {g3, Spent(g2)} /\ y.hw \in HwType
      BY <1>2, <1>3, <1>7, <1>12 DEF Sound
    <3> QED BY <2>2, <2>3, <3>1
  <2>4. ~Split(mode) => Goal(Outcome(g2, "ok"))
    BY <1>3, <2>2
  <2> HIDE DEF T1, T2, T3, R1, Goal
  <2> QED BY <2>1, <2>3, <2>4 DEF R2
<1>13. Goal(x)
  <2> HIDE DEF T1, T2, R1, R2, Goal
  <2> QED BY <1>8, <1>9, <1>10, <1>11, <1>12
<1> QED BY <1>13

\* One sound call after another that succeeded.
LEMMA SoundThen ==
  ASSUME NEW h \in HwType, NEW o, NEW y, NEW x, Sound(h, o, y), y.ret = "ok",
         Sound(y.hw, o, x)
  PROVE  Sound(h, o, x)
<1>1. h.faults \in Nat /\ y.hw.faults \in Nat /\ x.hw.faults \in Nat
  BY SessionDevicesAssumption DEF Sound, HwType
<1> QED BY <1>1 DEF Sound

\* Both channels as the modes m ask.
InModes(g, m) ==
  \A ch \in Channels :
    /\ g.pset[ch] = Pset(m[ch]) /\ g.mode[ch] = m[ch] % 3
    /\ Split(m[ch]) /\ g.faults = MaxFaults => ch \in g.split

\* Setting A and then B sets both.
LEMMA BothModes ==
  ASSUME NEW h \in HwType, NEW o, NEW m \in [Channels -> 0 .. 5],
         NEW y \in SetMode(h, o, "A", m["A"]), y.ret = "ok",
         NEW x \in SetMode(y.hw, o, "B", m["B"])
  PROVE  Sound(y.hw, o, x) /\ (x.ret = "ok" => InModes(x.hw, m))
<1>1. m["A"] \in 0 .. 5 /\ m["B"] \in 0 .. 5 /\ "A" \in Channels /\ "B" \in Channels
  BY DEF Channels
<1>2. y.hw \in HwType /\ ModeSet(h, "A", m["A"], y.hw) /\ y.hw.faults <= h.faults
  BY <1>1, SetModeOutcome DEF Sound
<1>3. Sound(y.hw, o, x) /\ (x.ret = "ok" => ModeSet(y.hw, "B", m["B"], x.hw))
  BY <1>1, <1>2, SetModeOutcome
<1>4. DOMAIN h.pset = Channels /\ DOMAIN h.mode = Channels
  BY DEF HwType
<1>5. ASSUME NEW g \in HwType, ModeSet(y.hw, "B", m["B"], g), g.faults <= y.hw.faults,
             y.hw.split \subseteq g.split
      PROVE  InModes(g, m)
  <2>1. /\ g.pset["A"] = Pset(m["A"]) /\ g.mode["A"] = m["A"] % 3
        /\ g.pset["B"] = Pset(m["B"]) /\ g.mode["B"] = m["B"] % 3
    BY <1>2, <1>4, <1>5 DEF Channels, ModeSet
  <2>2. g.faults = MaxFaults => y.hw.faults = MaxFaults /\ h.faults = MaxFaults
    BY <1>2, <1>5, SessionDevicesAssumption DEF HwType
  <2>3. /\ Split(m["A"]) /\ g.faults = MaxFaults => "A" \in g.split
        /\ Split(m["B"]) /\ g.faults = MaxFaults => "B" \in g.split
    BY <1>2, <1>5, <2>2 DEF ModeSet
  <2> QED BY <2>1, <2>3 DEF InModes, Channels
<1> QED BY <1>3, <1>5 DEF Sound

\* on() that succeeds leaves the channels in the modes the object remembers.
LEMMA OnOutcome ==
  ASSUME NEW h \in HwType, NEW o, o.mode \in [Channels -> 0 .. 5], NEW x \in On(h, o)
  PROVE  Sound(h, o, x) /\ (x.ret = "ok" => InModes(x.hw, o.mode))
<1> DEFINE T1 == Transfer(h, o, [h EXCEPT !.alt = 1])
           S1(h1) == SetMode(h1, o, "A", o.mode["A"])
           S2(h2) == SetMode(h2, o, "B", o.mode["B"])
           T3(h3) == Transfer(h3, o, [h3 EXCEPT !.sampling = 0])
           R4(h4) == Transfer(h4, o, [h4 EXCEPT !.ready = TRUE])
           R3(h3) == Then(T3(h3), R4)
           R2(h2) == Then(S2(h2), R3)
           R1(h1) == Then(S1(h1), R2)
<1>1. On(h, o) =
        {y \in T1 : y.ret # "ok"} \cup UNION {R1(y.hw) : y \in {z \in T1 : z.ret = "ok"}}
  BY DEF On, Then
<1>2. ASSUME NEW g
      PROVE  /\ R1(g) = {y \in S1(g) : y.ret # "ok"}
                  \cup UNION {R2(y.hw) : y \in {z \in S1(g) : z.ret = "ok"}}
             /\ R2(g) = {y \in S2(g) : y.ret # "ok"}
                  \cup UNION {R3(y.hw) : y \in {z \in S2(g) : z.ret = "ok"}}
             /\ R3(g) = {y \in T3(g) : y.ret # "ok"}
                  \cup UNION {R4(y.hw) : y \in {z \in T3(g) : z.ret = "ok"}}
  BY DEF Then
<1>3. \A y \in T1 : Sound(h, o, y)
  <2> DEFINE after == [h EXCEPT !.alt = 1]
  <2>1. /\ after \in HwType /\ after.plug = h.plug /\ after.serial = h.serial
        /\ after.eeprom = h.eeprom /\ after.boot = h.boot
        /\ after.faults = h.faults /\ after.split = h.split
    BY DEF HwType
  <2> HIDE DEF after
  <2>2. \A y \in Transfer(h, o, after) : Sound(h, o, y)
    BY <2>1, TransferSound
  <2> QED BY <2>2 DEF after
<1>4. ASSUME NEW g \in HwType PROVE \A y \in S1(g) : Sound(g, o, y)
  BY SetModeOutcome DEF Channels
<1>5. ASSUME NEW g \in HwType, NEW y \in S1(g), y.ret = "ok"
      PROVE  \A z \in S2(y.hw) : Sound(y.hw, o, z) /\ (z.ret = "ok" => InModes(z.hw, o.mode))
  BY <1>5, BothModes
<1>6. ASSUME NEW g \in HwType, InModes(g, o.mode)
      PROVE  \A y \in T3(g) : Sound(g, o, y) /\ (y.ret = "ok" => InModes(y.hw, o.mode))
  <2> DEFINE after == [g EXCEPT !.sampling = 0]
  <2>1. /\ after \in HwType /\ after.plug = g.plug /\ after.serial = g.serial
        /\ after.eeprom = g.eeprom /\ after.boot = g.boot
        /\ after.pset = g.pset /\ after.mode = g.mode
        /\ after.faults = g.faults /\ after.split = g.split
    BY DEF HwType
  <2> HIDE DEF after
  <2>2. \A y \in Transfer(g, o, after) : Sound(g, o, y) /\ (y.ret = "ok" => y.hw = after)
    BY <2>1, TransferSound
  <2>3. InModes(after, o.mode)
    BY <1>6, <2>1 DEF InModes
  <2> QED BY <2>2, <2>3 DEF after
<1>7. ASSUME NEW g \in HwType, InModes(g, o.mode)
      PROVE  \A y \in R4(g) : Sound(g, o, y) /\ (y.ret = "ok" => InModes(y.hw, o.mode))
  <2> DEFINE after == [g EXCEPT !.ready = TRUE]
  <2>1. /\ after \in HwType /\ after.plug = g.plug /\ after.serial = g.serial
        /\ after.eeprom = g.eeprom /\ after.boot = g.boot
        /\ after.pset = g.pset /\ after.mode = g.mode
        /\ after.faults = g.faults /\ after.split = g.split
    BY DEF HwType
  <2> HIDE DEF after
  <2>2. \A y \in Transfer(g, o, after) : Sound(g, o, y) /\ (y.ret = "ok" => y.hw = after)
    BY <2>1, TransferSound
  <2>3. InModes(after, o.mode)
    BY <1>7, <2>1 DEF InModes
  <2> QED BY <2>2, <2>3 DEF after
<1> HIDE DEF T1, S1, S2, T3, R1, R2, R3, R4
<1>8. ASSUME NEW g \in HwType, InModes(g, o.mode)
      PROVE  \A y \in R3(g) : Sound(g, o, y) /\ (y.ret = "ok" => InModes(y.hw, o.mode))
  <2>1. \A y \in T3(g) : y.hw \in HwType
    BY <1>6, <1>8 DEF Sound
  <2> QED BY <1>2, <1>6, <1>7, <1>8, <2>1, SoundThen
<1>9. ASSUME NEW g \in HwType, NEW y \in S1(g), y.ret = "ok", Sound(g, o, y)
      PROVE  \A z \in R2(y.hw) : Sound(g, o, z) /\ (z.ret = "ok" => InModes(z.hw, o.mode))
  <2>1. \A z \in S2(y.hw) : z.hw \in HwType
    BY <1>5, <1>9 DEF Sound
  <2>2. y.hw \in HwType
    BY <1>9 DEF Sound
  <2>3. \A z \in R2(y.hw) : Sound(y.hw, o, z) /\ (z.ret = "ok" => InModes(z.hw, o.mode))
    BY <1>2, <1>5, <1>8, <1>9, <2>1, <2>2, SoundThen
  <2> QED BY <1>9, <2>3, SoundThen
<1>10. ASSUME NEW g \in HwType
       PROVE  \A y \in R1(g) : Sound(g, o, y) /\ (y.ret = "ok" => InModes(y.hw, o.mode))
  BY <1>2, <1>4, <1>9
<1>11. \A y \in T1 : y.hw \in HwType
  BY <1>3 DEF Sound
<1> QED BY <1>1, <1>3, <1>10, <1>11, SoundThen

\* off() that succeeds leaves nothing driven and nothing sampled.
OffNow(g) == g.sampling = 0 /\ \A ch \in Channels : g.mode[ch] = HI_Z

LEMMA OffOutcome ==
  ASSUME NEW h \in HwType, NEW o, NEW x \in Off(h, o)
  PROVE  Sound(h, o, x) /\ (x.ret = "ok" => OffNow(x.hw))
<1> DEFINE m == [ch \in Channels |-> HI_Z]
           S1 == SetMode(h, o, "A", HI_Z)
           S2(h1) == SetMode(h1, o, "B", HI_Z)
           R2(h2) == Transfer(h2, o, [h2 EXCEPT !.sampling = 0])
           R1(h1) == Then(S2(h1), R2)
<1>1. Off(h, o) =
        {y \in S1 : y.ret # "ok"} \cup UNION {R1(y.hw) : y \in {z \in S1 : z.ret = "ok"}}
  BY DEF Off, Then
<1>2. ASSUME NEW g
      PROVE  R1(g) = {y \in S2(g) : y.ret # "ok"}
                \cup UNION {R2(y.hw) : y \in {z \in S2(g) : z.ret = "ok"}}
  BY DEF Then
<1>3. \A y \in S1 : Sound(h, o, y)
  BY SetModeOutcome DEF Channels, HI_Z
<1>4. ASSUME NEW y \in S1, y.ret = "ok"
      PROVE  \A z \in S2(y.hw) : Sound(y.hw, o, z) /\ (z.ret = "ok" => InModes(z.hw, m))
  <2>1. m \in [Channels -> 0 .. 5] /\ m["A"] = HI_Z /\ m["B"] = HI_Z
    BY DEF Channels, HI_Z
  <2> HIDE DEF m
  <2> QED BY <1>4, <2>1, BothModes
<1>5. ASSUME NEW g \in HwType, InModes(g, m)
      PROVE  \A y \in R2(g) : Sound(g, o, y) /\ (y.ret = "ok" => OffNow(y.hw))
  <2> DEFINE after == [g EXCEPT !.sampling = 0]
  <2>1. /\ after \in HwType /\ after.plug = g.plug /\ after.serial = g.serial
        /\ after.eeprom = g.eeprom /\ after.boot = g.boot
        /\ after.mode = g.mode /\ after.sampling = 0
        /\ after.faults = g.faults /\ after.split = g.split
    BY DEF HwType
  <2> HIDE DEF after
  <2>2. \A y \in Transfer(g, o, after) : Sound(g, o, y) /\ (y.ret = "ok" => y.hw = after)
    BY <2>1, TransferSound
  <2>3. OffNow(after)
    BY <1>5, <2>1 DEF InModes, OffNow, HI_Z
  <2> QED BY <2>2, <2>3 DEF after
<1> HIDE DEF m, S1, S2, R1, R2
<1>6. ASSUME NEW y \in S1, y.ret = "ok"
      PROVE  \A z \in R1(y.hw) : Sound(h, o, z) /\ (z.ret = "ok" => OffNow(z.hw))
  <2>1. \A z \in S2(y.hw) : z.hw \in HwType
    BY <1>4, <1>6 DEF Sound
  <2> QED BY <1>2, <1>3, <1>4, <1>5, <1>6, <2>1, SoundThen
<1> QED BY <1>1, <1>3, <1>6

\* What start() does with a device, if all of it succeeds.
LEMMA StartedOutcome ==
  ASSUME NEW o, HwOf(o) \in HwType, obj[o].mode \in [Channels -> 0 .. 5],
         obj[o].period \in Nat, NEW x \in Started(o)
  PROVE  /\ Sound(HwOf(o), obj[o], x)
         /\ x.ret = "ok" => InModes(x.hw, obj[o].mode) /\ x.hw.sampling = obj[o].period
<1> DEFINE h == HwOf(o)
           T1 == On(h, obj[o])
           T2(h1) == IF Cardinality(members) > 1 THEN Sync(h1, obj[o])
                     ELSE {Outcome(h1, "ok")}
           R2(h2) == Run(h2, obj[o])
           R1(h1) == Then(T2(h1), R2)
<1>1. Started(o) =
        {y \in T1 : y.ret # "ok"} \cup UNION {R1(y.hw) : y \in {z \in T1 : z.ret = "ok"}}
  BY DEF Started, Then
<1>2. ASSUME NEW g
      PROVE  R1(g) = {y \in T2(g) : y.ret # "ok"}
                \cup UNION {R2(y.hw) : y \in {z \in T2(g) : z.ret = "ok"}}
  BY DEF Then
<1> h \in HwType
  OBVIOUS
<1> HIDE DEF h
<1>3. \A y \in T1 : Sound(h, obj[o], y) /\ (y.ret = "ok" => InModes(y.hw, obj[o].mode))
  BY OnOutcome DEF h
<1>4. ASSUME NEW g \in HwType, g.plug = obj[o].plug
      PROVE  \A y \in T2(g) : Sound(g, obj[o], y) /\ (y.ret = "ok" => y.hw = g)
  <2>1. \A y \in Sync(g, obj[o]) : Sound(g, obj[o], y) /\ (y.ret = "ok" => y.hw = g)
    BY TransferSound DEF Sync
  <2>2. Sound(g, obj[o], Outcome(g, "ok")) /\ Outcome(g, "ok").hw = g
    <3>1. g.faults <= g.faults
      BY SessionDevicesAssumption DEF HwType
    <3> QED BY <1>4, <3>1 DEF Sound, Outcome
  <2> QED BY <2>1, <2>2
<1>5. ASSUME NEW g \in HwType, InModes(g, obj[o].mode)
      PROVE  \A y \in R2(g) :
               /\ Sound(g, obj[o], y)
               /\ y.ret = "ok" => /\ InModes(y.hw, obj[o].mode)
                                  /\ y.hw.sampling = obj[o].period
  <2> DEFINE after == [g EXCEPT !.sampling = obj[o].period]
  <2>1. /\ after \in HwType /\ after.plug = g.plug /\ after.serial = g.serial
        /\ after.eeprom = g.eeprom /\ after.boot = g.boot /\ after.pset = g.pset
        /\ after.mode = g.mode /\ after.sampling = obj[o].period
        /\ after.faults = g.faults /\ after.split = g.split
    BY DEF HwType
  <2> HIDE DEF after
  <2>2. \A y \in Transfer(g, obj[o], after) :
          Sound(g, obj[o], y) /\ (y.ret = "ok" => y.hw = after)
    BY <2>1, TransferSound
  <2>3. InModes(after, obj[o].mode)
    BY <1>5, <2>1 DEF InModes
  <2> QED BY <2>1, <2>2, <2>3 DEF after, Run
<1> HIDE DEF T1, T2, R1, R2
<1>6. ASSUME NEW y \in T1, y.ret = "ok"
      PROVE  \A z \in R1(y.hw) :
               /\ Sound(h, obj[o], z)
               /\ z.ret = "ok" => /\ InModes(z.hw, obj[o].mode)
                                  /\ z.hw.sampling = obj[o].period
  <2>1. y.hw \in HwType /\ y.hw.plug = obj[o].plug /\ InModes(y.hw, obj[o].mode)
    BY <1>3, <1>6 DEF Sound
  <2> QED BY <1>2, <1>3, <1>4, <1>5, <1>6, <2>1, SoundThen
<1>7. /\ Sound(h, obj[o], x)
      /\ x.ret = "ok" => InModes(x.hw, obj[o].mode) /\ x.hw.sampling = obj[o].period
  BY <1>1, <1>3, <1>6
<1> QED BY <1>7 DEF h

\* The calibration file is in the EEPROM if it was written, and the one before
\* otherwise.
LEMMA WriteCalibrationOutcome ==
  ASSUME NEW h \in HwType, NEW o, NEW f \in CalibrationFiles,
         NEW x \in WriteCalibration(h, o, f)
  PROVE  /\ x.hw \in HwType /\ x.hw.plug = h.plug /\ x.hw.serial = h.serial
         /\ x.ret = "ok" => h.plug = o.plug /\ x.hw.eeprom = f.cal
         /\ x.ret # "ok" => x.hw.eeprom = h.eeprom
<1> DEFINE after == [h EXCEPT !.eeprom = f.cal]
<1>1. ASSUME f.whole
      PROVE  /\ after \in HwType /\ after.plug = h.plug /\ after.serial = h.serial
             /\ after.eeprom = f.cal
  BY <1>1 DEF HwType, CalibrationFiles
<1> HIDE DEF after
<1>2. CASE ~f.whole
  BY <1>2 DEF WriteCalibration, Outcome
<1>3. CASE f.whole
  <2>1. x \in Transfer(h, o, after)
    BY <1>3 DEF WriteCalibration, after
  <2> QED BY <2>1, <1>1, <1>3, TransferOutcome, SpentKeeps
<1> QED BY <1>2, <1>3

\* set_serial() changes nothing but the number.
LEMMA SetSerialOutcome ==
  ASSUME NEW h \in HwType, NEW o, NEW serial \in Serials, NEW x \in SetSerial(h, o, serial)
  PROVE  /\ x.hw \in HwType /\ x.hw.plug = h.plug /\ x.hw.eeprom = h.eeprom
         /\ x.hw.serial \in {h.serial, serial} /\ (x.ret = "ok" => h.plug = o.plug)
<1> DEFINE after == [h EXCEPT !.serial = serial]
<1>1. /\ after \in HwType /\ after.plug = h.plug /\ after.serial = serial
      /\ after.eeprom = h.eeprom
  BY DEF HwType
<1> HIDE DEF after
<1>2. x \in Transfer(h, o, after)
  BY DEF SetSerial, after
<1> QED BY <1>1, <1>2, TransferOutcome, SpentKeeps

\* A device sent to its bootloader is off the bus.
LEMMA SambaModeOutcome ==
  ASSUME NEW h \in HwType, NEW o, NEW x \in SambaMode(h, o)
  PROVE  /\ x.hw \in HwType /\ x.hw.plug \in {0, h.plug} /\ x.hw.serial = h.serial
         /\ x.hw.eeprom = h.eeprom
<1> DEFINE after == [h EXCEPT !.plug = 0, !.boot = TRUE]
<1>1. /\ after \in HwType /\ after.plug = 0 /\ after.serial = h.serial
      /\ after.eeprom = h.eeprom
  <2>1. 0 \in 0 .. MaxPlugs /\ TRUE \in BOOLEAN
    BY SessionDevicesAssumption
  <2>2. after = [[h EXCEPT !.plug = 0] EXCEPT !.boot = TRUE]
    BY DEF HwType
  <2>3. /\ [h EXCEPT !.plug = 0] \in HwType /\ [h EXCEPT !.plug = 0].plug = 0
        /\ [h EXCEPT !.plug = 0].serial = h.serial
        /\ [h EXCEPT !.plug = 0].eeprom = h.eeprom
    BY <2>1 DEF HwType
  <2> QED BY <2>2, <2>3 DEF HwType
<1> HIDE DEF after
<1>2. x \in Transfer(h, o, after)
  BY DEF SambaMode, after
<1> QED BY <1>1, <1>2, TransferOutcome, SpentKeeps

\* A device that gets its power.
LEMMA PoweredUpType ==
  ASSUME NEW plug \in 0 .. MaxPlugs, NEW h \in HwType, NEW faults \in 0 .. MaxFaults
  PROVE  LET g == PoweredUp(plug, h.serial, h.eeprom, faults)
         IN g \in HwType /\ g.plug = plug /\ g.serial = h.serial /\ g.eeprom = h.eeprom
BY DEF PoweredUp, HwType, Pset, HI_Z, Channels

-----------------------------------------------------------------------------
(* scan() *)

\* There are names for the objects of any new devices.
LEMMA NamesInjective ==
  ASSUME TypeOK, SerialsOwn, NEW new \in SUBSET Devices
  PROVE  /\ Names(new) \in [new -> Objects \ members]
         /\ \A d, e \in new : Names(new)[d] = Names(new)[e] => d = e
<1> DEFINE given == {<<d>> : d \in Devices}
           f == [d \in Devices |-> <<d>>]
           g == [m \in members |-> obj[m].serial]
           free == Objects \ members
<1>1. IsFiniteSet(Devices) /\ IsFiniteSet(Objects)
  BY SessionDevicesAssumption
<1>2. Cardinality(Devices) \in Nat /\ Cardinality(Objects) \in Nat
  BY <1>1, FS_CardinalityType
<1>3. IsFiniteSet(given) /\ Cardinality(given) <= Cardinality(Devices)
  <2>1. f \in Surjection(Devices, given)
    BY DEF Surjection
  <2> QED BY <1>1, <2>1, FS_Surjection
<1>4. IsFiniteSet(Serials) /\ Cardinality(Serials) <= 2 * Cardinality(Devices)
  <2>1. Cardinality(given) \in Nat
    BY <1>3, FS_CardinalityType
  <2>2. IsFiniteSet(Devices \cap given) /\ Cardinality(Devices \cap given) \in Nat
    BY <1>1, FS_CardinalityType, FS_Intersection
  <2>3. /\ IsFiniteSet(Devices \cup given)
        /\ Cardinality(Devices \cup given) =
             Cardinality(Devices) + Cardinality(given) - Cardinality(Devices \cap given)
    BY <1>1, <1>3, FS_Union
  <2> QED BY <1>2, <1>3, <2>1, <2>2, <2>3 DEF Serials
<1>5. IsFiniteSet(members) /\ Cardinality(members) <= 2 * Cardinality(Devices)
  <2>1. g \in Injection(members, Serials)
    <3>1. \A m \in members : obj[m].serial \in Serials
      BY DEF TypeOK, ObjectType
    <3>2. g \in [members -> Serials] /\ IsInjective(g)
      BY <3>1 DEF SerialsOwn, IsInjective
    <3> QED BY <3>2 DEF Injection
  <2>2. IsFiniteSet(members) /\ Cardinality(members) <= Cardinality(Serials)
    BY <1>4, <2>1, FS_Injection
  <2> QED BY <1>2, <1>4, <2>2, FS_CardinalityType
<1>6. IsFiniteSet(free) /\ Cardinality(free) >= Cardinality(Devices)
  <2>1. /\ IsFiniteSet(free)
        /\ Cardinality(free) = Cardinality(Objects) - Cardinality(Objects \cap members)
    BY <1>1, FS_Difference
  <2>2. Objects \cap members = members
    BY DEF TypeOK
  <2>3. Cardinality(members) \in Nat
    BY <1>5, FS_CardinalityType
  <2>4. Cardinality(free) = Cardinality(Objects) - Cardinality(members)
    BY <2>1, <2>2
  <2> HIDE DEF free
  <2> QED BY <1>2, <1>5, <2>1, <2>3, <2>4, EnoughNames
<1>7. ExistsInjection(new, free)
  <2>1. IsFiniteSet(new) /\ Cardinality(new) <= Cardinality(Devices)
    BY <1>1, FS_Subset
  <2>2. Cardinality(new) \in Nat /\ Cardinality(free) \in Nat
    BY <1>6, <2>1, FS_CardinalityType
  <2>3. /\ ExistsBijection(1 .. Cardinality(new), new)
        /\ ExistsBijection(1 .. Cardinality(free), free)
    BY <1>6, <2>1, FS_CardinalityType
  <2>4. ExistsInjection(1 .. Cardinality(new), 1 .. Cardinality(free))
    BY <1>2, <1>6, <2>1, <2>2, Fun_NatInjLeq
  <2>5. ExistsInjection(new, 1 .. Cardinality(new))
    <3>1. ExistsBijection(new, 1 .. Cardinality(new))
      BY <2>3, Fun_ExistsBijSymmetric
    <3> QED BY <3>1, Fun_ExistsBijEquiv
  <2>6. ExistsInjection(1 .. Cardinality(free), free)
    BY <2>3, Fun_ExistsBijEquiv
  <2> QED BY <2>4, <2>5, <2>6, Fun_ExistsInjTransitive
<1>8. \E n \in [new -> free] : IsInjective(n)
  BY <1>7 DEF ExistsInjection, Injection
<1>9. Names(new) \in [new -> free] /\ IsInjective(Names(new))
  BY <1>8 DEF Names
<1> QED BY <1>9 DEF IsInjective

\* What scan() made of the lists: members stay what they are; the available
\* are members found again, or new objects of devices no member stands for.
ScanOf(s, bus) ==
  /\ s.obj \in [Objects -> ObjectType \cup {None}]
  /\ s.available \subseteq Objects /\ s.read \subseteq s.available \ members
  /\ \A o \in members : s.obj[o] = obj[o]
  /\ \A o \in s.available \cap members : Reachable(o)
  /\ \A o \in s.available \ members :
       \E d \in Devices, r \in {"ok", "error"} :
         /\ s.obj[o] = NewObject(d, bus[d], r) /\ s.obj[o] \in ObjectType
         /\ MemberAt(d) = {} /\ (o \in s.read => r = "ok")
  /\ \A a, b \in s.available : s.obj[a].dev = s.obj[b].dev => a = b

\* A new object is an object.
LEMMA NewObjectType ==
  ASSUME NEW d \in Devices, NEW h \in HwType, h.plug # 0, NEW r \in {"ok", "error"}
  PROVE  NewObject(d, h, r) \in ObjectType
BY DEF NewObject, ObjectType, HwType, CalibrationRead, HI_Z

LEMMA ScannedIs ==
  ASSUME TypeOK, SerialsOwn, OneObjectPerDevice, members \cap deleted = {},
         NEW bus \in [Devices -> HwType], \A d \in Devices : bus[d].plug = hw[d].plug,
         NEW found \in SUBSET Devices, \A d \in found : Plugged(d), NEW read
  PROVE  ScanOf(Scanned(bus, found, read), bus)
<1> DEFINE new == {d \in found : MemberAt(d) = {}}
           name == Names(new)
           made(d) == NewObject(d, bus[d], IF d \in read THEN "ok" ELSE "error")
           s == Scanned(bus, found, read)
<1>1. /\ name \in [new -> Objects \ members]
      /\ \A d, e \in new : name[d] = name[e] => d = e
  <2>1. new \in SUBSET Devices
    OBVIOUS
  <2> HIDE DEF new
  <2> QED BY <2>1, NamesInjective
<1>2. \A d \in new : made(d) \in ObjectType
  BY NewObjectType DEF Plugged
<1>3. \A d \in new : (CHOOSE e \in new : name[e] = name[d]) = d
  <2> HIDE DEF new, name
  <2> QED BY <1>1
<1>4. /\ s.obj = [o \in Objects |->
                    IF o \in members THEN obj[o]
                    ELSE IF \E d \in new : name[d] = o
                    THEN made(CHOOSE d \in new : name[d] = o) ELSE None]
  BY DEF Scanned
<1>5. /\ \A o : (o \in s.available) <=>
                ((\E d \in found : o \in MemberAt(d)) \/ (\E d \in new : o = name[d]))
      /\ \A o : (o \in s.read) <=> (\E d \in new : d \in read /\ o = name[d])
  <2>1. /\ s.available = (UNION {MemberAt(d) : d \in found}) \cup {name[d] : d \in new}
        /\ s.read = {name[d] : d \in new \cap read}
    BY DEF Scanned
  <2> HIDE DEF s, new, name, made
  <2> QED BY <2>1
<1>6. /\ \A d \in new : made(d).dev = d
      /\ \A d \in new : d \in read => made(d) = NewObject(d, bus[d], "ok")
      /\ \A d \in new : d \notin read => made(d) = NewObject(d, bus[d], "error")
  BY DEF NewObject
<1>7. \A d \in Devices : \A o \in MemberAt(d) :
        o \in members /\ obj[o].dev = d /\ Reachable(o)
  BY DEF MemberAt, Reachable, HwOf
<1>8. new \in SUBSET found /\ \A d \in new : MemberAt(d) = {}
  OBVIOUS
<1>9. members \subseteq Objects /\ obj \in [Objects -> ObjectType \cup {None}]
  BY DEF TypeOK
<1> HIDE DEF s, new, name, made
<1>10. \A d \in new : s.obj[name[d]] = made(d) /\ name[d] \in Objects \ members
  BY <1>1, <1>3, <1>4
<1>11. s.obj \in [Objects -> ObjectType \cup {None}]
  <2>1. \A o \in Objects : s.obj[o] \in ObjectType \cup {None}
    <3> SUFFICES ASSUME NEW o \in Objects PROVE s.obj[o] \in ObjectType \cup {None}
      OBVIOUS
    <3>1. CASE o \in members
      BY <3>1, <1>4, <1>9
    <3>2. CASE o \notin members /\ \E d \in new : name[d] = o
      BY <3>2, <1>2, <1>10
    <3>3. CASE o \notin members /\ ~\E d \in new : name[d] = o
      BY <3>3, <1>4
    <3> QED BY <3>1, <3>2, <3>3
  <2>2. s.obj = [o \in Objects |-> s.obj[o]]
    BY <1>4
  <2> QED BY <2>1, <2>2
<1>12. s.available \subseteq Objects
  BY <1>7, <1>8, <1>9, <1>10, <1>5
<1>13. s.read \subseteq s.available \ members
  BY <1>10, <1>5
<1>14. \A o \in members : s.obj[o] = obj[o]
  BY <1>4, <1>9
<1>15. \A o \in s.available : o \in members => \E d \in found : o \in MemberAt(d)
  BY <1>10, <1>5
<1>16. \A o \in s.available \cap members : Reachable(o)
  BY <1>7, <1>15
<1>17. \A o \in s.available \ members : \E d \in new : o = name[d]
  BY <1>7, <1>8, <1>5
<1>18. ASSUME NEW o \in s.available \ members
       PROVE  \E d \in Devices, r \in {"ok", "error"} :
                /\ s.obj[o] = NewObject(d, bus[d], r) /\ s.obj[o] \in ObjectType
                /\ MemberAt(d) = {} /\ (o \in s.read => r = "ok")
  <2>1. PICK d \in new : o = name[d]
    BY <1>17
  <2>2. s.obj[o] = made(d) /\ s.obj[o] \in ObjectType /\ MemberAt(d) = {} /\ d \in Devices
    BY <1>2, <1>8, <1>10, <2>1
  <2>3. o \in s.read => d \in read
    BY <1>1, <1>5, <2>1
  <2> QED BY <1>6, <2>1, <2>2, <2>3
<1>19. ASSUME NEW a \in s.available, NEW b \in s.available, s.obj[a].dev = s.obj[b].dev
       PROVE  a = b
  <2>1. CASE a \in members /\ b \in members
    <3>1. Reachable(a) /\ Reachable(b) /\ obj[a].dev = obj[b].dev
      BY <1>14, <1>16, <1>19, <2>1
    <3>2. a \in Usable /\ b \in Usable
      BY <2>1 DEF Usable
    <3> QED BY <3>1, <3>2 DEF OneObjectPerDevice
  <2>2. CASE a \notin members /\ b \notin members
    <3>1. PICK d \in new : a = name[d]
      BY <1>17, <2>2
    <3>2. PICK e \in new : b = name[e]
      BY <1>17, <2>2
    <3> QED BY <1>6, <1>10, <1>19, <3>1, <3>2
  <2>3. ASSUME NEW m \in s.available, NEW n \in s.available, m \in members,
               n \notin members, s.obj[m].dev = s.obj[n].dev
        PROVE  FALSE
    <3>1. PICK d \in found : m \in MemberAt(d)
      BY <1>15, <2>3
    <3>2. PICK e \in new : n = name[e]
      BY <1>17, <2>3
    <3>3. d = e
      BY <1>6, <1>7, <1>10, <1>14, <2>3, <3>1, <3>2
    <3> QED BY <1>8, <3>1, <3>2, <3>3
  <2> QED BY <1>19, <2>1, <2>2, <2>3
<1> QED BY <1>11, <1>12, <1>13, <1>14, <1>16, <1>18, <1>19 DEF ScanOf, s

LEMMA ScanOutcomesAre ==
  ASSUME TypeOK, SerialsOwn, OneObjectPerDevice, members \cap deleted = {},
         NEW bus \in [Devices -> HwType], \A d \in Devices : bus[d].plug = hw[d].plug,
         NEW s \in ScanOutcomes(bus)
  PROVE  ScanOf(s, bus)
<1>1. PICK found \in SUBSET {d \in Devices : Plugged(d)} :
        \E read \in SUBSET Devices : s = Scanned(bus, found, read)
  BY DEF ScanOutcomes
<1>2. PICK read \in SUBSET Devices : s = Scanned(bus, found, read)
  BY <1>1
<1>3. found \in SUBSET Devices /\ \A d \in found : Plugged(d)
  OBVIOUS
<1> QED BY <1>2, <1>3, ScannedIs

-----------------------------------------------------------------------------
(* Calls between captures *)

\* What a call leaves alone that finds no device active.
QuietCall ==
  /\ pc = "idle" /\ members \cap deleted = {} /\ streaming = {}
  /\ calls' \in 0 .. MaxCalls /\ phase' = "none"
  /\ UNCHANGED <<active, rate, continuous, cancellation, streaming, profile, pc, todo>>

LEMMA QuietProgress ==
  ASSUME pc' = "idle", phase' = "none"
  PROVE  Progress'
BY DEF Progress, DeletedAside, PhaseIdle, StartedSoFar, EndedSoFar,
       ModesApplied, EndLeavesOff

LEMMA NoneStreaming ==
  ASSUME TypeOK, ActiveCount
  PROVE  /\ IsFiniteSet(streaming) /\ IsFiniteSet(members)
         /\ active = 0 => streaming = {}
<1>1. IsFiniteSet(members) /\ IsFiniteSet(streaming)
  BY SessionDevicesAssumption, FS_Subset DEF TypeOK, ActiveCount
<1>2. Cardinality(streaming) \in Nat /\ (Cardinality(streaming) = 0 <=> streaming = {})
  BY <1>1, FS_CardinalityType, FS_EmptySet
<1> QED BY <1>1, <1>2 DEF ActiveCount, TypeOK

LEMMA CallQuiet ==
  ASSUME Core, NEW name, Call(name), active = 0
  PROVE  /\ pc = "idle" /\ members \cap deleted = {} /\ streaming = {} /\ todo = {}
         /\ calls' \in 0 .. MaxCalls
<1>1. calls' \in 0 .. MaxCalls
  BY SessionDevicesAssumption DEF Call, Core, TypeOK
<1> QED BY <1>1, NoneStreaming DEF Core, Call, LoopsOnly

\* The object and the device of an element of a list.
LEMMA ListedTypes ==
  ASSUME TypeOK, NEW o \in Listed
  PROVE  /\ o \in Objects /\ obj[o] \in ObjectType /\ obj[o].dev \in Devices
         /\ obj[o].plug \in Nat \ {0} /\ obj[o].mode \in [Channels -> 0 .. 5]
         /\ obj[o].period \in Nat /\ HwOf(o) \in HwType
<1>1. o \in Objects /\ obj[o] \in ObjectType /\ hw \in [Devices -> HwType]
  BY DEF Listed, TypeOK
<1>2. obj[o].dev \in Devices /\ obj[o].plug \in 1 .. MaxPlugs
  BY <1>1 DEF ObjectType
<1>3. obj[o].mode \in [Channels -> 0 .. 5] /\ obj[o].period \in Nat
  BY <1>1 DEF ObjectType
<1> QED BY <1>1, <1>2, <1>3, SessionDevicesAssumption DEF HwOf

\* A scan, and members that may come from it.
LEMMA ScanCore ==
  ASSUME Core, QuietCall, hw' \in [Devices -> HwType],
         \A d \in Devices : /\ hw'[d].plug = hw[d].plug /\ hw'[d].eeprom = hw[d].eeprom
                            /\ hw'[d].serial \in OwnSerial(d),
         NEW s \in ScanOutcomes(hw'), AfterScan(s),
         members' \subseteq members \cup s.available,
         \A a, b \in members' : s.obj[a].serial = s.obj[b].serial => a = b,
         UNCHANGED <<plugs>>
  PROVE  Core'
<1>1. ScanOf(s, hw')
  BY ScanOutcomesAre DEF Core, QuietCall
<1>2. /\ obj' = s.obj /\ available' = s.available /\ deleted' = {}
      /\ calOK' = (calOK \cap members) \cup s.read
      /\ chosen' = [o \in Objects |-> IF o \in members THEN chosen[o]
                                      ELSE [ch \in Channels |-> HI_Z]]
  BY DEF AfterScan
<1>3. Listed' \subseteq members \cup s.available /\ Usable' \subseteq Listed'
  BY <1>2 DEF Listed, Usable
<1>4. ASSUME NEW o \in Listed'
      PROVE  /\ o \in members => o \in Listed /\ obj'[o] = obj[o]
             /\ o \notin members =>
                  \E d \in Devices, r \in {"ok", "error"} :
                    /\ obj'[o] = NewObject(d, hw'[d], r) /\ obj'[o] \in ObjectType
                    /\ MemberAt(d) = {} /\ (o \in s.read => r = "ok")
  BY <1>1, <1>2, <1>3 DEF ScanOf, Listed
<1>5. ASSUME NEW d \in Devices, NEW r
      PROVE  LET n == NewObject(d, hw'[d], r)
             IN /\ n.dev = d /\ n.plug = hw'[d].plug /\ n.serial = hw'[d].serial
                /\ n.mode = [ch \in Channels |-> HI_Z]
                /\ n.cal = CalibrationRead(hw'[d], r)
  BY DEF NewObject
<1>6. \A o \in Listed' : obj'[o] \in ObjectType /\ o \in Objects
  BY <1>1, <1>2, <1>3, <1>4, ListedTypes DEF Core, ScanOf, TypeOK
<1>7. \A o \in Objects : o \in members => o \in Listed
  BY DEF Listed
<1>8. TypeOK'
  <2>1. chosen' \in [Objects -> [Channels -> 0 .. 5]]
    BY <1>2 DEF Core, TypeOK, HI_Z
  <2>2. members' \subseteq Objects /\ available' \subseteq Objects
    BY <1>6 DEF Listed
  <2>3. \A o \in members' \cup available' : obj'[o] \in ObjectType
    BY <1>6 DEF Listed
  <2>4. obj' \in [Objects -> ObjectType \cup {None}]
    BY <1>1, <1>2 DEF ScanOf
  <2>5. todo' = {}
    BY DEF Core, QuietCall, LoopsOnly
  <2> QED BY <1>2, <2>1, <2>2, <2>3, <2>4, <2>5 DEF TypeOK, Core, QuietCall
<1>9. HistoryType'
  BY <1>1, <1>2 DEF HistoryType, Core, ScanOf
<1>10. LoopsOnly' /\ ActiveCount'
  BY DEF LoopsOnly, ActiveCount, Core, QuietCall
<1>11. Plugs'
  <2>1. \A d \in Devices : hw'[d].plug <= plugs
    BY DEF Core, Plugs
  <2>2. ASSUME NEW o \in Listed' PROVE obj'[o].plug <= plugs
    BY <1>4, <1>5, <2>1 DEF Core, Plugs
  <2> QED BY <2>1, <2>2 DEF Plugs
<1>12. SerialsOwn'
  <2>1. ASSUME NEW o \in Listed' PROVE obj'[o].serial \in OwnSerial(obj'[o].dev)
    BY <1>4, <1>5 DEF Core, SerialsOwn
  <2> QED BY <1>2, <2>1 DEF SerialsOwn, OwnSerial
<1>13. ModesKnown'
  <2>1. ASSUME NEW o \in Listed' PROVE obj'[o].mode = chosen'[o]
    BY <1>2, <1>4, <1>5, <1>6 DEF Core, ModesKnown
  <2> QED BY <2>1 DEF ModesKnown
<1>14. \A o \in members : Reachable(o)' => Reachable(o)
  BY <1>1, <1>2, ListedTypes DEF ScanOf, Reachable, HwOf, Core, Listed
<1>15. OneObjectPerDevice'
  <2>1. ASSUME NEW a \in Listed', NEW b \in Listed', obj'[a].dev = obj'[b].dev,
               Reachable(a)', Reachable(b)'
        PROVE  a = b
    <3>1. CASE a \in members /\ b \in members
      BY <1>4, <1>14, <2>1, <3>1 DEF Core, OneObjectPerDevice, Usable, QuietCall
    <3>2. CASE a \notin members /\ b \notin members
      BY <1>1, <1>2, <1>3, <2>1, <3>2 DEF ScanOf
    <3>3. ASSUME NEW m \in Listed', NEW n \in Listed', m \in members, n \notin members,
                 obj'[m].dev = obj'[n].dev, Reachable(m)'
          PROVE  FALSE
      <4>1. PICK d \in Devices, r \in {"ok", "error"} :
              obj'[n] = NewObject(d, hw'[d], r) /\ MemberAt(d) = {}
        BY <1>4, <3>3
      <4>2. obj[m].dev = d /\ Reachable(m)
        BY <1>4, <1>5, <1>14, <3>3, <4>1
      <4> QED BY <3>3, <4>1, <4>2 DEF MemberAt, Reachable, HwOf
    <3> QED BY <2>1, <3>1, <3>2, <3>3
  <2> QED BY <1>3, <2>1 DEF OneObjectPerDevice
<1>16. CalibrationTrue'
  <2>1. ASSUME NEW o \in Listed', o \in calOK', Reachable(o)'
        PROVE  obj'[o].cal = CalibrationRead(HwOf(o)', "ok")
    <3>1. CASE o \in members
      <4>1. o \in calOK /\ o \in Usable /\ Reachable(o) /\ obj'[o] = obj[o]
        BY <1>1, <1>2, <1>4, <1>14, <2>1, <3>1 DEF Usable, QuietCall, ScanOf
      <4>2. obj[o].cal = CalibrationRead(HwOf(o), "ok") /\ obj[o].dev \in Devices
        BY <3>1, <4>1, ListedTypes DEF Core, CalibrationTrue, Listed
      <4> QED BY <4>1, <4>2 DEF CalibrationRead, HwOf
    <3>2. CASE o \notin members
      <4>1. o \in s.read
        BY <1>2, <2>1, <3>2
      <4>2. PICK d \in Devices : obj'[o] = NewObject(d, hw'[d], "ok")
        BY <1>4, <3>2, <4>1
      <4> QED BY <1>5, <4>2 DEF HwOf
    <3> QED BY <3>1, <3>2
  <2> QED BY <1>3, <2>1 DEF CalibrationTrue
<1> QED BY <1>8, <1>9, <1>10, <1>11, <1>12, <1>13, <1>15, <1>16 DEF Core

LEMMA ScanStep ==
  ASSUME IInv, Scan
  PROVE  IInv'
<1>1. QuietCall
  BY CallQuiet DEF IInv, Scan, QuietCall, capture, thread
<1>2. PICK s \in ScanOutcomes(hw) : AfterScan(s)
  BY DEF Scan
<1>3. \A o \in members : s.obj[o] = obj[o]
  BY <1>1, ScanOutcomesAre DEF ScanOf, IInv, Core, TypeOK, QuietCall
<1>4. Core'
  BY <1>1, <1>2, <1>3, ScanCore DEF IInv, Core, TypeOK, SerialsOwn, Scan
<1> QED BY <1>1, <1>4, QuietProgress DEF IInv, QuietCall

\* A device's settings changed through one of its objects; o is that object, g
\* the device now.
Through(o, g) ==
  /\ hw' = [hw EXCEPT ![obj[o].dev] = g]
  /\ g \in HwType /\ g.plug = HwOf(o).plug /\ g.serial \in OwnSerial(obj[o].dev)

\* Then no object is reachable that was not, or the other way round.
LEMMA ThroughReach ==
  ASSUME Core, NEW o \in Listed, NEW g, Through(o, g)
  PROVE  /\ hw' \in [Devices -> HwType]
         /\ \A d \in Devices : /\ d # obj[o].dev => hw'[d] = hw[d]
                               /\ d = obj[o].dev => hw'[d] = g
                               /\ hw'[d].plug = hw[d].plug
                               /\ hw'[d].serial \in OwnSerial(d)
         /\ \A q \in Listed :
              (obj'[q].dev = obj[q].dev /\ obj'[q].plug = obj[q].plug) =>
                (Reachable(q)' <=> Reachable(q))
<1>1. hw \in [Devices -> HwType] /\ obj[o].dev \in Devices
  BY ListedTypes DEF Core, TypeOK
<1>2. /\ hw' \in [Devices -> HwType]
      /\ \A d \in Devices : /\ d # obj[o].dev => hw'[d] = hw[d]
                            /\ d = obj[o].dev => hw'[d] = g
                            /\ hw'[d].plug = hw[d].plug
  BY <1>1 DEF Through, HwOf
<1>3. \A d \in Devices : hw'[d].serial \in OwnSerial(d)
  BY <1>1, <1>2 DEF Through, Core, SerialsOwn
<1> QED BY <1>2, <1>3, ListedTypes DEF Reachable, HwOf, Core

LEMMA AddAllStep ==
  ASSUME IInv, AddAll
  PROVE  IInv'
<1>1. QuietCall
  BY CallQuiet DEF IInv, AddAll, IdleCall, QuietCall, capture, thread
<1>2. PICK s \in ScanOutcomes(hw) :
        /\ AfterScan(s)
        /\ \E added \in SUBSET s.available :
             members' = added \cup
               {m \in members : \A o \in added : s.obj[m].serial # s.obj[o].serial}
  BY DEF AddAll
<1>3. PICK added \in SUBSET s.available :
        members' = added \cup
          {m \in members : \A o \in added : s.obj[m].serial # s.obj[o].serial}
  BY <1>2
<1>4. ScanOf(s, hw)
  BY <1>1, ScanOutcomesAre DEF IInv, Core, TypeOK, QuietCall
<1>5. ASSUME NEW o \in s.available \cup members
      PROVE  s.obj[o].dev \in Devices /\ s.obj[o].serial \in OwnSerial(s.obj[o].dev)
  <2>1. CASE o \in members
    BY <1>4, <2>1, ListedTypes DEF ScanOf, IInv, Core, SerialsOwn, Listed
  <2>2. CASE o \notin members
    <3>1. PICK d \in Devices, r \in {"ok", "error"} : s.obj[o] = NewObject(d, hw[d], r)
      BY <1>4, <1>5, <2>2 DEF ScanOf
    <3> QED BY <3>1 DEF NewObject, IInv, Core, SerialsOwn
  <2> QED BY <2>1, <2>2
<1>6. \A d, e \in Devices : \A n \in OwnSerial(d) : n \in OwnSerial(e) => d = e
  BY SerialsAssumption DEF OwnSerial
<1>7. ASSUME NEW a \in members', NEW b \in members', s.obj[a].serial = s.obj[b].serial
      PROVE  a = b
  <2>1. CASE a \in added /\ b \in added
    <3>1. s.obj[a].dev = s.obj[b].dev
      BY <1>5, <1>6, <1>7, <2>1
    <3> QED BY <1>4, <2>1, <3>1 DEF ScanOf
  <2>2. CASE a \notin added /\ b \notin added
    BY <1>3, <1>4, <1>7, <2>2 DEF ScanOf, IInv, Core, SerialsOwn
  <2> QED BY <1>3, <1>7, <2>1, <2>2
<1>8. members' \subseteq members \cup s.available
  BY <1>3
<1>9. Core'
  BY <1>1, <1>2, <1>7, <1>8, ScanCore DEF IInv, Core, TypeOK, SerialsOwn, AddAll
<1> QED BY <1>1, <1>9, QuietProgress DEF IInv, QuietCall

\* Members come and go among the objects listed.
LEMMA ListsCore ==
  ASSUME Core, QuietCall, UNCHANGED <<hw, obj, deleted, plugs, chosen, calOK>>,
         Listed' \subseteq Listed, deleted \subseteq Listed', members' \cap deleted = {},
         \A a, b \in members' : obj[a].serial = obj[b].serial => a = b
  PROVE  Core'
<1>1. TypeOK'
  <2>1. members' \subseteq Objects /\ available' \subseteq Objects
    BY DEF Core, TypeOK, Listed
  <2>2. \A o \in members' \cup available' : obj'[o] \in ObjectType
    BY DEF Core, TypeOK, Listed
  <2>3. todo' = {}
    BY DEF Core, QuietCall, LoopsOnly
  <2>4. deleted' \subseteq available' \cup members'
    BY DEF Listed
  <2> QED BY <2>1, <2>2, <2>3, <2>4 DEF TypeOK, Core, QuietCall
<1>2. HistoryType' /\ LoopsOnly' /\ ActiveCount'
  BY DEF HistoryType, LoopsOnly, ActiveCount, Core, QuietCall
<1>3. Plugs' /\ SerialsOwn' /\ ModesKnown'
  BY DEF Plugs, SerialsOwn, ModesKnown, Core
<1>4. Usable' \subseteq Usable
  BY DEF Usable, Listed
<1>5. OneObjectPerDevice' /\ CalibrationTrue'
  BY <1>4 DEF OneObjectPerDevice, CalibrationTrue, Core, Reachable, HwOf
<1> QED BY <1>1, <1>2, <1>3, <1>5 DEF Core

LEMMA AddStep ==
  ASSUME IInv, NEW o \in Objects, Add(o)
  PROVE  IInv'
<1>1. QuietCall
  BY CallQuiet DEF IInv, Add, IdleCall, QuietCall, capture, thread
<1>2. members' \in {WithMember(o, members), members} /\ o \in available \ deleted
  BY DEF Add
<1>3. /\ Listed' \subseteq Listed /\ deleted \subseteq Listed'
      /\ members' \cap deleted = {}
  BY <1>1, <1>2 DEF Add, WithMember, Listed, QuietCall, IInv, Core, TypeOK
<1>4. \A a, b \in members' : obj[a].serial = obj[b].serial => a = b
  BY <1>2 DEF WithMember, IInv, Core, SerialsOwn
<1>5. Core'
  BY <1>1, <1>3, <1>4, ListsCore DEF Add, IInv
<1> QED BY <1>1, <1>5, QuietProgress DEF IInv, QuietCall

LEMMA RemoveStep ==
  ASSUME IInv, NEW o \in Objects, NEW detached \in BOOLEAN, Remove(o, detached)
  PROVE  IInv'
<1>1. QuietCall
  BY CallQuiet DEF IInv, Remove, IdleCall, QuietCall, capture, thread
<1>2. members' \in {members \ {o}, members}
  BY DEF Remove
<1>3. /\ Listed' \subseteq Listed /\ deleted \subseteq Listed'
      /\ members' \cap deleted = {}
  BY <1>1, <1>2 DEF Remove, Listed, QuietCall, IInv, Core, TypeOK
<1>4. \A a, b \in members' : obj[a].serial = obj[b].serial => a = b
  BY <1>2 DEF IInv, Core, SerialsOwn
<1>5. Core'
  BY <1>1, <1>3, <1>4, ListsCore DEF Remove, IInv
<1> QED BY <1>1, <1>5, QuietProgress DEF IInv, QuietCall

LEMMA DestroyStep ==
  ASSUME IInv, NEW o \in Objects, Destroy(o)
  PROVE  IInv'
<1>1. QuietCall
  BY CallQuiet DEF IInv, Destroy, IdleCall, QuietCall, capture, thread
<1>2. available' \subseteq available /\ deleted = {}
  BY DEF Destroy
<1>3. Listed' \subseteq Listed /\ deleted \subseteq Listed'
  BY <1>2 DEF Destroy, Listed
<1>4. Core'
  BY <1>1, <1>2, <1>3, ListsCore DEF Destroy, IInv, Core, SerialsOwn
<1> QED BY <1>1, <1>4, QuietProgress DEF IInv, QuietCall

\* A call to a device that scans no bus: an object of it may have remembered
\* another mode or calibration.
LEMMA DeviceCore ==
  ASSUME Core, QuietCall, NEW o \in Usable, NEW g, Through(o, g),
         UNCHANGED <<members, available, deleted, plugs>>,
         obj' \in [Objects -> ObjectType \cup {None}], obj'[o] \in ObjectType,
         \A q \in Objects : q # o => obj'[q] = obj[q],
         obj'[o].dev = obj[o].dev, obj'[o].plug = obj[o].plug,
         obj'[o].serial = obj[o].serial,
         chosen' \in [Objects -> [Channels -> 0 .. 5]], obj'[o].mode = chosen'[o],
         \A q \in Objects : q # o => chosen'[q] = chosen[q],
         calOK' \subseteq Objects, \A q \in calOK' : q # o => q \in calOK,
         Reachable(o) /\ o \in calOK' => obj'[o].cal = g.eeprom,
         ~Reachable(o) => g.eeprom = HwOf(o).eeprom
  PROVE  Core'
<1>1. o \in Listed /\ Listed' = Listed /\ Usable' = Usable /\ Usable \subseteq Listed
  BY DEF Usable, Listed
<1>2. TypeOK'
  <2>1. \A q \in members \cup available : obj'[q] \in ObjectType
    BY DEF Core, TypeOK
  <2>2. hw' \in [Devices -> HwType]
    BY <1>1, ThroughReach
  <2> QED BY <2>1, <2>2 DEF TypeOK, Core, QuietCall
<1>3. HistoryType' /\ LoopsOnly' /\ ActiveCount'
  BY DEF HistoryType, LoopsOnly, ActiveCount, Core, QuietCall
<1>4. \A q \in Listed : /\ q \in Objects /\ obj'[q].dev = obj[q].dev
                        /\ obj'[q].plug = obj[q].plug /\ obj'[q].serial = obj[q].serial
                        /\ obj[q].dev \in Devices
                        /\ Reachable(q)' <=> Reachable(q)
  BY <1>1, ListedTypes, ThroughReach DEF Core
<1>5. Plugs'
  BY <1>1, <1>4, ThroughReach DEF Plugs, Core
<1>6. SerialsOwn'
  BY <1>1, <1>4, ThroughReach DEF SerialsOwn, Core, Listed
<1>7. ModesKnown'
  BY <1>1, <1>4 DEF ModesKnown, Core
<1>8. OneObjectPerDevice'
  BY <1>1, <1>4 DEF OneObjectPerDevice, Core
<1>9. CalibrationTrue'
  <2> SUFFICES ASSUME NEW q \in Usable, q \in calOK', Reachable(q)
               PROVE  obj'[q].cal = CalibrationRead(hw'[obj[q].dev], "ok")
    BY <1>1, <1>4 DEF CalibrationTrue, HwOf
  <2>1. \A d \in Devices : CalibrationRead(hw'[d], "ok") = hw'[d].eeprom
                           /\ CalibrationRead(hw[d], "ok") = hw[d].eeprom
    BY <1>1, ThroughReach DEF CalibrationRead, HwType, Core, TypeOK
  <2>2. CASE q = o
    BY <1>1, <1>4, <2>1, <2>2, ThroughReach
  <2>3. CASE q # o /\ obj[q].dev # obj[o].dev
    BY <1>1, <1>4, <2>1, <2>3, ThroughReach DEF Core, CalibrationTrue, HwOf
  <2>4. CASE q # o /\ obj[q].dev = obj[o].dev
    <3>1. ~Reachable(o)
      BY <2>4 DEF Core, OneObjectPerDevice
    <3>2. obj[q].cal = hw[obj[q].dev].eeprom
      BY <1>1, <1>4, <2>1, <2>4 DEF Core, CalibrationTrue, HwOf
    <3> QED BY <1>1, <1>4, <2>1, <2>4, <3>1, <3>2, ThroughReach DEF HwOf
  <2> QED BY <2>2, <2>3, <2>4
<1> QED BY <1>2, <1>3, <1>5, <1>6, <1>7, <1>8, <1>9 DEF Core

LEMMA CallSetModeStep ==
  ASSUME IInv, NEW o \in Objects, NEW ch \in Channels, NEW mode \in Modes,
         CallSetMode(o, ch, mode)
  PROVE  IInv'
<1>1. QuietCall
  BY CallQuiet DEF IInv, CallSetMode, QuietCall, capture, thread
<1>2. o \in Usable /\ o \in Listed /\ mode \in 0 .. 5
  BY SessionDevicesAssumption DEF CallSetMode, Usable, Listed
<1>3. PICK x \in SetMode(HwOf(o), obj[o], ch, mode) :
        /\ hw' = [hw EXCEPT ![obj[o].dev] = x.hw]
        /\ IF x.ret = "ok"
           THEN /\ obj' = [obj EXCEPT ![o].mode[ch] = mode]
                /\ chosen' = [chosen EXCEPT ![o][ch] = mode]
           ELSE UNCHANGED <<obj, chosen>>
  BY DEF CallSetMode, Settle
<1>4. /\ o \in Objects /\ obj[o] \in ObjectType /\ obj[o].dev \in Devices
      /\ obj[o].mode \in [Channels -> 0 .. 5] /\ HwOf(o) \in HwType
  BY <1>2, ListedTypes DEF IInv, Core
<1>5. Sound(HwOf(o), obj[o], x)
  BY <1>2, <1>4, SetModeOutcome
<1>6. Through(o, x.hw) /\ x.hw.eeprom = HwOf(o).eeprom
  BY <1>3, <1>4, <1>5 DEF Sound, Through, HwOf, IInv, Core, SerialsOwn
<1>7. obj \in [Objects -> ObjectType \cup {None}] /\ chosen \in [Objects -> [Channels -> 0 .. 5]]
      /\ obj[o].mode = chosen[o]
  BY <1>2 DEF IInv, Core, TypeOK, ModesKnown
<1>8. /\ obj' \in [Objects -> ObjectType \cup {None}] /\ obj'[o] \in ObjectType
      /\ \A q \in Objects : q # o => obj'[q] = obj[q]
      /\ obj'[o].dev = obj[o].dev /\ obj'[o].plug = obj[o].plug
      /\ obj'[o].serial = obj[o].serial /\ obj'[o].cal = obj[o].cal
  <2>1. CASE x.ret = "ok"
    <3> DEFINE n == [obj[o] EXCEPT !.mode[ch] = mode]
    <3>1. /\ n \in ObjectType /\ n.dev = obj[o].dev /\ n.plug = obj[o].plug
          /\ n.serial = obj[o].serial /\ n.cal = obj[o].cal
      BY <1>2, <1>4 DEF ObjectType
    <3>2. obj' = [obj EXCEPT ![o] = n]
      BY <1>3, <2>1
    <3> HIDE DEF n
    <3> QED BY <1>7, <3>1, <3>2
  <2>2. CASE x.ret # "ok"
    BY <1>3, <1>4, <1>7, <2>2
  <2> QED BY <2>1, <2>2
<1>9. /\ chosen' \in [Objects -> [Channels -> 0 .. 5]] /\ obj'[o].mode = chosen'[o]
      /\ \A q \in Objects : q # o => chosen'[q] = chosen[q]
  <2>1. CASE x.ret = "ok"
    <3> DEFINE c == [chosen[o] EXCEPT ![ch] = mode]
    <3>1. c \in [Channels -> 0 .. 5]
      BY <1>2, <1>7
    <3>2. obj'[o].mode = c
      BY <1>3, <1>4, <1>7, <2>1 DEF ObjectType
    <3>3. chosen' = [chosen EXCEPT ![o] = c]
      BY <1>3, <2>1
    <3> HIDE DEF c
    <3> QED BY <1>7, <3>1, <3>2, <3>3
  <2>2. CASE x.ret # "ok"
    BY <1>3, <1>7, <2>2
  <2> QED BY <2>1, <2>2
<1>10. calOK' = calOK /\ (Reachable(o) /\ o \in calOK' => obj'[o].cal = x.hw.eeprom)
  BY <1>2, <1>4, <1>6, <1>8
     DEF CallSetMode, IInv, Core, CalibrationTrue, CalibrationRead, HwType
<1>11. UNCHANGED <<members, available, deleted, plugs>>
  BY DEF CallSetMode, lists
<1>12. Core'
  BY <1>1, <1>2, <1>6, <1>8, <1>9, <1>10, <1>11, DeviceCore DEF IInv, Core, HistoryType
<1> QED BY <1>1, <1>12, QuietProgress DEF IInv, QuietCall

LEMMA CallWriteCalibrationStep ==
  ASSUME IInv, NEW o \in Objects, NEW f \in CalibrationFiles, CallWriteCalibration(o, f)
  PROVE  IInv'
<1>1. QuietCall
  BY CallQuiet DEF IInv, CallWriteCalibration, QuietCall, capture, thread
<1>2. o \in Usable /\ o \in Listed
  BY DEF CallWriteCalibration, Usable, Listed
<1>3. PICK x \in WriteCalibration(HwOf(o), obj[o], f) :
        /\ hw' = [hw EXCEPT ![obj[o].dev] = x.hw]
        /\ calOK' = IF x.ret = "ok" THEN calOK \cup {o} ELSE calOK \ {o}
  BY DEF CallWriteCalibration, Settle
<1>4. /\ o \in Objects /\ obj[o] \in ObjectType /\ obj[o].dev \in Devices
      /\ HwOf(o) \in HwType /\ obj \in [Objects -> ObjectType \cup {None}]
      /\ obj[o].mode = chosen[o]
  BY <1>2, ListedTypes DEF IInv, Core, TypeOK, ModesKnown
<1>5. /\ x.hw \in HwType /\ x.hw.plug = HwOf(o).plug /\ x.hw.serial = HwOf(o).serial
      /\ x.ret = "ok" => HwOf(o).plug = obj[o].plug /\ x.hw.eeprom = f.cal
      /\ x.ret # "ok" => x.hw.eeprom = HwOf(o).eeprom
  BY <1>4, WriteCalibrationOutcome
<1>6. Through(o, x.hw)
  BY <1>3, <1>4, <1>5 DEF Through, HwOf, IInv, Core, SerialsOwn
<1>7. /\ obj' \in [Objects -> ObjectType \cup {None}] /\ obj'[o] \in ObjectType
      /\ \A q \in Objects : q # o => obj'[q] = obj[q]
      /\ obj'[o].dev = obj[o].dev /\ obj'[o].plug = obj[o].plug
      /\ obj'[o].serial = obj[o].serial /\ obj'[o].cal = f.cal
      /\ obj'[o].mode = obj[o].mode
  <2> DEFINE n == [obj[o] EXCEPT !.cal = f.cal]
  <2>1. /\ n \in ObjectType /\ n.dev = obj[o].dev /\ n.plug = obj[o].plug
        /\ n.serial = obj[o].serial /\ n.cal = f.cal /\ n.mode = obj[o].mode
    BY <1>4 DEF ObjectType, CalibrationFiles
  <2>2. obj' = [obj EXCEPT ![o] = n]
    BY DEF CallWriteCalibration
  <2> HIDE DEF n
  <2> QED BY <1>4, <2>1, <2>2
<1>8. /\ calOK' \subseteq Objects /\ \A q \in calOK' : q # o => q \in calOK
      /\ Reachable(o) /\ o \in calOK' => obj'[o].cal = x.hw.eeprom
      /\ ~Reachable(o) => x.hw.eeprom = HwOf(o).eeprom
  BY <1>3, <1>4, <1>5, <1>7 DEF IInv, Core, HistoryType, Reachable
<1>9. UNCHANGED <<members, available, deleted, plugs, chosen>>
  BY DEF CallWriteCalibration, lists
<1>10. Core'
  BY <1>1, <1>2, <1>4, <1>6, <1>7, <1>8, <1>9, DeviceCore DEF IInv, Core, TypeOK
<1> QED BY <1>1, <1>10, QuietProgress DEF IInv, QuietCall

LEMMA CallSetSerialStep ==
  ASSUME IInv, NEW o \in Objects, NEW serial \in {obj[o].dev, <<obj[o].dev>>},
         CallSetSerial(o, serial)
  PROVE  IInv'
<1>1. QuietCall
  BY CallQuiet DEF IInv, CallSetSerial, IdleCall, QuietCall, capture, thread
<1>2. o \in Usable /\ o \in Listed
  BY DEF CallSetSerial, Usable, Listed
<1>3. PICK x \in SetSerial(HwOf(o), obj[o], serial) :
        /\ hw' = [hw EXCEPT ![obj[o].dev] = x.hw]
        /\ IF x.ret = "ok"
           THEN \E s \in ScanOutcomes(hw') : AfterScan(s)
           ELSE UNCHANGED <<obj, available, deleted, calOK, chosen>>
  BY DEF CallSetSerial, Settle
<1>4. /\ o \in Objects /\ obj[o] \in ObjectType /\ obj[o].dev \in Devices
      /\ HwOf(o) \in HwType /\ serial \in Serials /\ serial \in OwnSerial(obj[o].dev)
  BY <1>2, ListedTypes DEF IInv, Core, Serials, OwnSerial
<1>5. /\ x.hw \in HwType /\ x.hw.plug = HwOf(o).plug /\ x.hw.eeprom = HwOf(o).eeprom
      /\ x.hw.serial \in {HwOf(o).serial, serial}
  BY <1>4, SetSerialOutcome
<1>6. Through(o, x.hw)
  BY <1>3, <1>4, <1>5 DEF Through, HwOf, IInv, Core, SerialsOwn
<1>7. /\ hw' \in [Devices -> HwType]
      /\ \A d \in Devices : /\ hw'[d].plug = hw[d].plug /\ hw'[d].eeprom = hw[d].eeprom
                            /\ hw'[d].serial \in OwnSerial(d)
  BY <1>2, <1>5, <1>6, ThroughReach DEF IInv, HwOf
<1>8. UNCHANGED <<members, plugs>>
  BY DEF CallSetSerial
<1>9. CASE x.ret = "ok"
  <2>1. PICK s \in ScanOutcomes(hw') : AfterScan(s)
    BY <1>3, <1>9
  <2>2. \A q \in members : s.obj[q] = obj[q]
    BY <1>1, <1>7, <2>1, ScanOutcomesAre DEF ScanOf, IInv, Core, QuietCall
  <2> QED BY <1>1, <1>7, <1>8, <2>1, <2>2, ScanCore, QuietProgress
          DEF IInv, Core, SerialsOwn, QuietCall
<1>10. CASE x.ret # "ok"
  <2>1. UNCHANGED <<obj, available, deleted, calOK, chosen>>
    BY <1>3, <1>10
  <2>2. Reachable(o) /\ o \in calOK' => obj'[o].cal = x.hw.eeprom
    BY <1>2, <1>5, <2>1 DEF IInv, Core, CalibrationTrue, CalibrationRead, HwType
  <2>3. obj' \in [Objects -> ObjectType \cup {None}] /\ obj'[o].mode = chosen'[o]
        /\ chosen' \in [Objects -> [Channels -> 0 .. 5]]
    BY <1>2, <2>1 DEF IInv, Core, TypeOK, ModesKnown
  <2>4. Core'
    BY <1>1, <1>2, <1>4, <1>5, <1>6, <1>8, <2>1, <2>2, <2>3, DeviceCore
       DEF IInv, Core, HistoryType
  <2> QED BY <1>1, <2>4, QuietProgress DEF IInv, QuietCall
<1> QED BY <1>9, <1>10

-----------------------------------------------------------------------------
(* Captures, and the user's hands *)

\* What any other step makes of the devices: their plugs are as they were, gone
\* or fresh, and the EEPROMs and numbers in them stay.
Replugged ==
  /\ plugs' >= plugs
  /\ \A d \in Devices :
       /\ hw'[d].plug \in {hw[d].plug, 0} \/ hw'[d].plug > plugs
       /\ hw'[d].plug <= plugs'
       /\ hw'[d].eeprom = hw[d].eeprom /\ hw'[d].serial = hw[d].serial

SameObjects ==
  \A o \in Listed :
    /\ obj'[o].dev = obj[o].dev /\ obj'[o].plug = obj[o].plug
    /\ obj'[o].serial = obj[o].serial /\ obj'[o].mode = obj[o].mode
    /\ obj'[o].cal = obj[o].cal

\* Only what was reachable is.
LEMMA StillReachable ==
  ASSUME Core, Replugged, SameObjects, NEW o \in Listed, Reachable(o)'
  PROVE  Reachable(o)
<1>1. obj[o].dev \in Devices /\ obj[o].plug \in Nat \ {0} /\ obj[o].plug <= plugs
  BY ListedTypes DEF Core, Plugs
<1>2. plugs \in Nat
  BY DEF Core, TypeOK
<1> QED BY <1>1, <1>2 DEF Replugged, SameObjects, Reachable, HwOf

LEMMA ShrinkCore ==
  ASSUME Core, Replugged, SameObjects, TypeOK', HistoryType', LoopsOnly', ActiveCount',
         Listed' \subseteq Listed, Usable' \subseteq Usable,
         members' \subseteq members, UNCHANGED <<calOK, chosen>>
  PROVE  Core'
<1>1. Usable \subseteq Listed
  BY DEF Listed, Usable
<1>2. \A o \in Listed : obj[o].plug \in Nat /\ obj[o].dev \in Devices
  BY ListedTypes DEF Core
<1>3. Plugs'
  BY <1>1, <1>2 DEF Plugs, Core, TypeOK, Replugged, SameObjects
<1>4. SerialsOwn'
  BY <1>1, <1>2 DEF SerialsOwn, Core, Replugged, SameObjects, Listed
<1>5. ModesKnown'
  BY <1>1 DEF ModesKnown, Core, SameObjects
<1>6. OneObjectPerDevice'
  BY <1>1, StillReachable DEF OneObjectPerDevice, Core, SameObjects
<1>7. CalibrationTrue'
  <2> SUFFICES ASSUME NEW o \in Usable, o \in calOK, Reachable(o)'
               PROVE  obj'[o].cal = CalibrationRead(HwOf(o)', "ok")
    BY DEF CalibrationTrue
  <2>1. obj[o].cal = CalibrationRead(HwOf(o), "ok")
    BY <1>1, StillReachable DEF Core, CalibrationTrue
  <2> QED BY <1>1, <1>2, <2>1 DEF SameObjects, Replugged, CalibrationRead, HwOf
<1> QED BY <1>3, <1>4, <1>5, <1>6, <1>7 DEF Core

LEMMA FrameCore ==
  ASSUME Core, Replugged, SameObjects, TypeOK', LoopsOnly', ActiveCount',
         UNCHANGED <<members, available, deleted, calOK, chosen>>
  PROVE  Core'
<1>1. HistoryType'
  BY DEF HistoryType, Core
<1>2. Listed' = Listed /\ Usable' = Usable
  BY DEF Listed, Usable
<1> QED BY <1>1, <1>2, ShrinkCore

LEMMA NothingReplugged ==
  ASSUME Core, UNCHANGED <<hw, plugs>>
  PROVE  Replugged
BY DEF Core, TypeOK, Plugs, Replugged

LEMMA ConfiguredObjects ==
  ASSUME Core, NEW r \in Rates, Configured(r)
  PROVE  /\ SameObjects /\ obj' \in [Objects -> ObjectType \cup {None}]
         /\ \A o \in Listed : obj'[o] \in ObjectType
<1>1. r \in Nat
  BY SessionDevicesAssumption
<1>2. /\ members \subseteq Listed /\ Listed \subseteq Objects
      /\ obj \in [Objects -> ObjectType \cup {None}]
      /\ \A o \in Listed : obj[o] \in ObjectType
  BY DEF Core, TypeOK, Listed
<1>3. ASSUME NEW o \in members
      PROVE  LET n == [obj[o] EXCEPT !.period = r]
             IN /\ n \in ObjectType /\ n.dev = obj[o].dev /\ n.plug = obj[o].plug
                /\ n.serial = obj[o].serial /\ n.mode = obj[o].mode
                /\ n.cal = obj[o].cal
  BY <1>1, <1>2 DEF ObjectType
<1>4. \A o \in Objects : obj'[o] = IF o \in members THEN [obj[o] EXCEPT !.period = r]
                                   ELSE obj[o]
  BY DEF Configured
<1>5. obj' \in [Objects -> ObjectType \cup {None}]
  BY <1>2, <1>3 DEF Configured
<1> QED BY <1>2, <1>3, <1>4, <1>5 DEF SameObjects

LEMMA ConfigureStep ==
  ASSUME IInv, NEW r \in Rates, Configure(r)
  PROVE  IInv'
<1>1. /\ pc = "idle" /\ todo = {} /\ calls' \in 0 .. MaxCalls
  BY CallQuiet DEF IInv, Configure, IdleCall
<1>2. SameObjects /\ obj' \in [Objects -> ObjectType \cup {None}]
      /\ \A o \in Listed : obj'[o] \in ObjectType
  BY ConfiguredObjects DEF Configure, IInv
<1>3. /\ UNCHANGED <<hw, plugs, members, available, deleted, calOK, chosen>>
      /\ UNCHANGED <<active, continuous, cancellation, streaming, profile, pc, todo>>
      /\ phase' = "none" /\ rate' = r /\ r \in Nat
  BY SessionDevicesAssumption DEF Configure, lists, thread
<1>4. TypeOK' /\ LoopsOnly' /\ ActiveCount'
  BY <1>1, <1>2, <1>3 DEF IInv, Core, TypeOK, LoopsOnly, ActiveCount, Listed
<1> QED BY <1>1, <1>2, <1>3, <1>4, FrameCore, NothingReplugged, QuietProgress DEF IInv

LEMMA CallStartStep ==
  ASSUME IInv, NEW cont \in BOOLEAN, CallStart(cont)
  PROVE  IInv'
<1>1. members \cap deleted = {} /\ calls' \in 0 .. MaxCalls
  BY SessionDevicesAssumption DEF IInv, Core, TypeOK, CallStart, Call
<1>2. /\ SameObjects /\ obj' \in [Objects -> ObjectType \cup {None}] /\ rate' \in Nat
      /\ \A o \in Listed : obj'[o] \in ObjectType
  BY ConfiguredObjects, SessionDevicesAssumption
     DEF CallStart, IInv, SameObjects, Core, TypeOK, Listed
<1>3. /\ UNCHANGED <<hw, plugs, members, available, deleted, calOK, chosen>>
      /\ UNCHANGED <<active, streaming, profile>>
      /\ pc' = "start" /\ todo' = members /\ phase' = "none" /\ members # {}
      /\ continuous' \in BOOLEAN /\ cancellation' \in BOOLEAN
  BY DEF CallStart, lists
<1>4. TypeOK' /\ LoopsOnly' /\ ActiveCount'
  BY <1>1, <1>2, <1>3 DEF IInv, Core, TypeOK, LoopsOnly, ActiveCount, Listed
<1>5. Core'
  BY <1>2, <1>3, <1>4, FrameCore, NothingReplugged DEF IInv
<1>6. Progress'
  BY <1>1, <1>3 DEF Progress, DeletedAside, PhaseIdle, StartedSoFar, EndedSoFar,
                    ModesApplied, EndLeavesOff
<1> QED BY <1>5, <1>6 DEF IInv

\* start() and end() at one of their devices.
LEMMA LoopReplugged ==
  ASSUME Core, NEW o \in Listed, NEW x, Sound(HwOf(o), obj[o], x), Settle(o, x),
         plugs' = plugs
  PROVE  Replugged /\ Through(o, x.hw)
<1>1. Through(o, x.hw) /\ x.hw.serial = HwOf(o).serial /\ x.hw.eeprom = HwOf(o).eeprom
  BY ListedTypes DEF Sound, Settle, Through, HwOf, Core, SerialsOwn
<1>2. plugs \in Nat /\ \A d \in Devices : hw[d].plug <= plugs
  BY DEF Core, TypeOK, Plugs
<1> QED BY <1>1, <1>2, ThroughReach DEF Replugged, HwOf

LEMMA StartDeviceStep ==
  ASSUME IInv, NEW o \in Objects, StartDevice(o)
  PROVE  IInv'
<1>1. pc = "start" /\ o \in todo /\ o \in members /\ o \in Listed /\ members \cap deleted = {}
  BY DEF StartDevice, IInv, Core, TypeOK, Listed, Progress, DeletedAside
<1>2. PICK x \in Started(o) :
        /\ Settle(o, x)
        /\ IF x.ret = "ok"
           THEN /\ active' = active + 1 /\ streaming' = streaming \cup {o}
                /\ todo' = todo \ {o}
           ELSE todo' = {} /\ UNCHANGED <<active, streaming>>
        /\ pc' = IF todo' = {} THEN "idle" ELSE pc
        /\ phase' = IF x.ret = "ok" /\ todo' = {} THEN "capture" ELSE "none"
  BY DEF StartDevice
<1>3. /\ UNCHANGED <<obj, members, available, deleted, calOK, chosen>>
      /\ UNCHANGED <<rate, continuous, cancellation, profile, calls, plugs>>
  BY DEF StartDevice, lists
<1>4. /\ Sound(HwOf(o), obj[o], x)
      /\ x.ret = "ok" => InModes(x.hw, obj[o].mode) /\ x.hw.sampling = obj[o].period
  BY <1>1, ListedTypes, StartedOutcome DEF IInv, Core
<1>5. Replugged /\ Through(o, x.hw) /\ SameObjects
  BY <1>1, <1>2, <1>3, <1>4, LoopReplugged DEF IInv, SameObjects
<1>6. /\ hw' \in [Devices -> HwType]
      /\ \A d \in Devices : (d # obj[o].dev => hw'[d] = hw[d])
                            /\ (d = obj[o].dev => hw'[d] = x.hw)
      /\ \A q \in Listed : Reachable(q)' => Reachable(q)
  BY <1>1, <1>3, <1>5, ThroughReach DEF IInv
<1>7. streaming' \subseteq members /\ Cardinality(streaming') <= active'
  <2>1. streaming \subseteq members /\ IsFiniteSet(streaming) /\ active \in Nat
        /\ Cardinality(streaming) \in Nat /\ Cardinality(streaming) <= active
    BY NoneStreaming, FS_CardinalityType DEF IInv, Core, TypeOK, ActiveCount
  <2>2. Cardinality(streaming \cup {o}) \in {Cardinality(streaming), Cardinality(streaming) + 1}
    BY <2>1, FS_AddElement
  <2>3. CASE x.ret = "ok"
    <3>1. active' = active + 1 /\ streaming' = streaming \cup {o}
      BY <1>2, <2>3
    <3>2. Cardinality(streaming') = Cardinality(streaming \cup {o})
      BY <3>1
    <3> QED BY <1>1, <2>1, <2>2, <3>1, <3>2
  <2>4. CASE x.ret # "ok"
    BY <1>2, <2>1, <2>4
  <2> QED BY <2>3, <2>4
<1>8. active' \in Nat
  BY <1>2 DEF IInv, Core, TypeOK
<1>9. todo' \subseteq todo /\ pc' \in {"start", "idle"} /\ (pc' = "idle" => todo' = {})
      /\ phase' \in {"none", "capture"} /\ (pc' = "start" => phase' = "none" /\ x.ret = "ok")
      /\ (phase' = "capture" => x.ret = "ok" /\ todo' = {})
  BY <1>1, <1>2
<1>10. TypeOK' /\ LoopsOnly' /\ ActiveCount'
  BY <1>3, <1>6, <1>7, <1>8, <1>9 DEF IInv, Core, TypeOK, LoopsOnly, ActiveCount
<1>11. Core'
  BY <1>3, <1>5, <1>10, FrameCore DEF IInv
<1>12. ASSUME x.ret = "ok", NEW q \in members \ todo', Reachable(q)'
       PROVE  Applied(q)'
  <2>1. obj[q].dev \in Devices /\ q \in Listed /\ Reachable(q) /\ Reachable(o)
    BY <1>4, <1>6, <1>12, ListedTypes DEF Listed, IInv, Core, Sound, Reachable
  <2>2. CASE q = o
    <3>1. obj[o].mode = chosen[o] /\ HwOf(o)' = x.hw
      BY <1>1, <1>3, <1>6, <2>1, <2>2 DEF IInv, Core, ModesKnown, HwOf
    <3> QED BY <1>3, <1>4, <1>12, <2>2, <3>1 DEF Applied, InModes
  <2>3. CASE q # o
    <3>1. q \in members \ todo
      BY <1>2, <1>12, <2>3
    <3>2. obj[q].dev # obj[o].dev
      BY <1>1, <1>12, <2>1, <2>3 DEF IInv, Core, OneObjectPerDevice, Usable
    <3>3. HwOf(q)' = HwOf(q)
      BY <1>3, <1>6, <2>1, <3>2 DEF HwOf
    <3>4. Applied(q)
      BY <1>1, <2>1, <3>1 DEF IInv, Progress, StartedSoFar
    <3> QED BY <1>3, <3>3, <3>4 DEF Applied
  <2> QED BY <2>2, <2>3
<1>13. ModesApplied'
  BY <1>3, <1>9, <1>12 DEF ModesApplied, Applied
<1>14. StartedSoFar'
  BY <1>3, <1>9, <1>12 DEF StartedSoFar
<1>15. Progress'
  BY <1>1, <1>3, <1>9, <1>13, <1>14
     DEF Progress, DeletedAside, PhaseIdle, EndedSoFar, EndLeavesOff
<1> QED BY <1>11, <1>15 DEF IInv

LEMMA CompleteStep ==
  ASSUME IInv, NEW o \in Objects, Complete(o)
  PROVE  IInv'
<1>1. /\ o \in streaming /\ obj[o].period # 0 /\ active' = active - 1
      /\ \/ streaming' = streaming \ {o}
         \/ active > Cardinality(streaming) /\ streaming' = streaming
      /\ cancellation' \in BOOLEAN
      /\ UNCHANGED <<hw, obj, members, available, deleted, calOK, chosen>>
      /\ UNCHANGED <<rate, continuous, profile, pc, todo, calls, plugs, phase>>
  BY DEF Complete, lists, thread, history, IInv, Core, TypeOK
<1>2. streaming' \subseteq members /\ Cardinality(streaming') <= active' /\ active' \in Nat
  <2>1. streaming \subseteq members /\ IsFiniteSet(streaming) /\ active \in Nat
        /\ Cardinality(streaming) \in Nat /\ Cardinality(streaming) <= active
    BY NoneStreaming, FS_CardinalityType DEF IInv, Core, TypeOK, ActiveCount
  <2>2. Cardinality(streaming \ {o}) = Cardinality(streaming) - 1
        /\ Cardinality(streaming \ {o}) \in Nat
    BY <1>1, <2>1, FS_RemoveElement, FS_CardinalityType
  <2>3. CASE streaming' = streaming \ {o}
    <3>1. Cardinality(streaming') = Cardinality(streaming \ {o})
      BY <2>3
    <3> QED BY <1>1, <2>1, <2>2, <2>3, <3>1
  <2>4. CASE active > Cardinality(streaming) /\ streaming' = streaming
    BY <1>1, <2>1, <2>4
  <2> QED BY <1>1, <2>3, <2>4
<1>3. TypeOK' /\ LoopsOnly' /\ ActiveCount' /\ SameObjects
  BY <1>1, <1>2 DEF IInv, Core, TypeOK, LoopsOnly, ActiveCount, SameObjects
<1>4. Core'
  BY <1>1, <1>3, FrameCore, NothingReplugged DEF IInv
<1>5. Progress'
  BY <1>1 DEF IInv, Progress, DeletedAside, PhaseIdle, StartedSoFar, EndedSoFar,
     ModesApplied, EndLeavesOff, Applied, TurnedOff, Reachable, HwOf
<1> QED BY <1>4, <1>5 DEF IInv

LEMMA CallEndStep ==
  ASSUME IInv, CallEnd
  PROVE  IInv'
<1>1. /\ pc = "idle" /\ todo = {} /\ members \cap deleted = {}
      /\ pc' = "wait" /\ phase' = "none"
      /\ cancellation' \in BOOLEAN /\ continuous' = FALSE
      /\ UNCHANGED <<hw, obj, members, available, deleted, calOK, chosen>>
      /\ UNCHANGED <<active, rate, streaming, profile, todo, calls, plugs>>
  BY DEF CallEnd, lists, IInv, Core, TypeOK, LoopsOnly
<1>2. TypeOK' /\ LoopsOnly' /\ ActiveCount' /\ SameObjects
  BY <1>1 DEF IInv, Core, TypeOK, LoopsOnly, ActiveCount, SameObjects
<1>3. Core'
  BY <1>1, <1>2, FrameCore, NothingReplugged DEF IInv
<1>4. Progress'
  BY <1>1 DEF Progress, DeletedAside, PhaseIdle, StartedSoFar, EndedSoFar,
     ModesApplied, EndLeavesOff
<1> QED BY <1>3, <1>4 DEF IInv

LEMMA EndWaitedStep ==
  ASSUME IInv, EndWaited
  PROVE  IInv'
<1>1. /\ pc = "wait" /\ pc' = "end" /\ todo' = members
      /\ UNCHANGED <<hw, obj, members, available, deleted, calOK, chosen>>
      /\ UNCHANGED <<active, rate, continuous, cancellation, streaming, profile, calls,
                     plugs, phase>>
  BY DEF EndWaited, lists, capture, history
<1>2. TypeOK' /\ LoopsOnly' /\ ActiveCount' /\ SameObjects
  BY <1>1 DEF IInv, Core, TypeOK, LoopsOnly, ActiveCount, SameObjects
<1>3. Core'
  BY <1>1, <1>2, FrameCore, NothingReplugged DEF IInv
<1>4. phase = "none" /\ members \cap deleted = {}
  BY <1>1 DEF IInv, Progress, PhaseIdle, DeletedAside
<1>5. Progress'
  BY <1>1, <1>4 DEF Progress, DeletedAside, PhaseIdle, StartedSoFar, EndedSoFar,
     ModesApplied, EndLeavesOff
<1> QED BY <1>3, <1>5 DEF IInv

LEMMA EndDeviceStep ==
  ASSUME IInv, NEW o \in Objects, EndDevice(o)
  PROVE  IInv'
<1>1. pc = "end" /\ o \in todo /\ o \in members /\ o \in Listed /\ members \cap deleted = {}
  BY DEF EndDevice, IInv, Core, TypeOK, Listed, Progress, DeletedAside
<1>2. PICK x \in Off(HwOf(o), obj[o]) :
        /\ Settle(o, x)
        /\ todo' = IF x.ret = "error" THEN {} ELSE todo \ {o}
        /\ pc' = IF todo' = {} THEN "idle" ELSE pc
        /\ phase' = IF x.ret # "error" /\ todo' = {} THEN "ended" ELSE "none"
  BY DEF EndDevice
<1>3. /\ UNCHANGED <<obj, members, available, deleted, calOK, chosen>>
      /\ UNCHANGED <<active, streaming, rate, continuous, cancellation, profile, calls,
                     plugs>>
  BY DEF EndDevice, lists, capture
<1>4. Sound(HwOf(o), obj[o], x) /\ (x.ret = "ok" => OffNow(x.hw))
  BY <1>1, ListedTypes, OffOutcome DEF IInv, Core
<1>5. Replugged /\ Through(o, x.hw) /\ SameObjects
  BY <1>1, <1>2, <1>3, <1>4, LoopReplugged DEF IInv, SameObjects
<1>6. /\ hw' \in [Devices -> HwType]
      /\ \A d \in Devices : (d # obj[o].dev => hw'[d] = hw[d])
                            /\ (d = obj[o].dev => hw'[d] = x.hw)
      /\ \A q \in Listed : Reachable(q)' => Reachable(q)
  BY <1>1, <1>3, <1>5, ThroughReach DEF IInv
<1>7. todo' \subseteq todo /\ pc' \in {"end", "idle"} /\ (pc' = "idle" => todo' = {})
      /\ phase' \in {"none", "ended"} /\ (pc' = "end" => phase' = "none" /\ x.ret # "error")
      /\ (phase' = "ended" => x.ret # "error" /\ todo' = {})
  BY <1>1, <1>2
<1>8. TypeOK' /\ LoopsOnly' /\ ActiveCount'
  BY <1>3, <1>6, <1>7 DEF IInv, Core, TypeOK, LoopsOnly, ActiveCount
<1>9. Core'
  BY <1>3, <1>5, <1>8, FrameCore DEF IInv
<1>10. ASSUME x.ret # "error", NEW q \in members \ todo', Reachable(q)'
       PROVE  TurnedOff(q)'
  <2>1. obj[q].dev \in Devices /\ q \in Listed /\ Reachable(q)
    BY <1>6, <1>10, ListedTypes DEF Listed, IInv, Core
  <2>2. q # o => TurnedOff(q)
    BY <1>1, <1>2, <1>10, <2>1 DEF IInv, Progress, EndedSoFar
  <2>3. CASE x.ret = "ok" /\ q = o
    <3>1. HwOf(o)' = x.hw
      BY <1>3, <1>6, <2>1, <2>3 DEF HwOf
    <3> QED BY <1>4, <2>3, <3>1 DEF TurnedOff, OffNow
  <2>4. CASE x.ret = "ok" /\ q # o
    <3>1. Reachable(o)
      BY <1>4, <2>4 DEF Sound, Reachable
    <3>2. obj[q].dev # obj[o].dev
      BY <1>1, <1>10, <2>1, <2>4, <3>1 DEF IInv, Core, OneObjectPerDevice, Usable
    <3>3. HwOf(q)' = HwOf(q)
      BY <1>3, <1>6, <2>1, <3>2 DEF HwOf
    <3> QED BY <2>2, <2>4, <3>3 DEF TurnedOff
  <2>5. CASE x.ret = "nodev"
    <3>1. ~Reachable(o) /\ x.hw = HwOf(o)
      BY <1>4, <2>5 DEF Sound, Reachable
    <3>2. HwOf(q)' = HwOf(q)
      BY <1>3, <1>6, <2>1, <3>1 DEF HwOf
    <3> QED BY <2>1, <2>2, <3>1, <3>2 DEF TurnedOff
  <2> QED BY <1>4, <1>10, <2>3, <2>4, <2>5 DEF Sound
<1>11. EndLeavesOff' /\ EndedSoFar'
  BY <1>3, <1>7, <1>10 DEF EndLeavesOff, EndedSoFar, TurnedOff
<1>12. Progress'
  BY <1>1, <1>3, <1>7, <1>11
     DEF Progress, DeletedAside, PhaseIdle, StartedSoFar, ModesApplied
<1> QED BY <1>9, <1>12 DEF IInv

LEMMA HandsStep ==
  ASSUME IInv, NEW d \in Devices, Unplug(d) \/ Plug(d)
  PROVE  IInv'
<1>1. /\ UNCHANGED <<obj, members, available, deleted, calOK, chosen>>
      /\ UNCHANGED <<active, streaming, rate, continuous, cancellation, profile, calls,
                     pc, todo, phase>>
  BY DEF Unplug, Plug, lists, capture, thread, history
<1>2. /\ hw \in [Devices -> HwType] /\ hw[d] \in HwType /\ plugs \in 1 .. MaxPlugs
      /\ \A e \in Devices : hw[e].plug \in Nat /\ hw[e].plug <= plugs
  BY DEF IInv, Core, TypeOK, Plugs, HwType
<1>3. \E p \in 0 .. MaxPlugs :
        /\ hw' = [hw EXCEPT ![d] = PoweredUp(p, hw[d].serial, hw[d].eeprom, hw[d].faults)]
        /\ \/ p = 0 /\ plugs' = plugs
           \/ p = plugs + 1 /\ plugs' = p
  BY <1>2, SessionDevicesAssumption DEF Unplug, Plug
<1>4. PICK p \in 0 .. MaxPlugs :
        /\ hw' = [hw EXCEPT ![d] = PoweredUp(p, hw[d].serial, hw[d].eeprom, hw[d].faults)]
        /\ \/ p = 0 /\ plugs' = plugs
           \/ p = plugs + 1 /\ plugs' = p
  BY <1>3
<1> DEFINE g == PoweredUp(p, hw[d].serial, hw[d].eeprom, hw[d].faults)
<1>5. /\ g \in HwType /\ g.plug = p /\ g.serial = hw[d].serial /\ g.eeprom = hw[d].eeprom
  <2>1. hw[d].faults \in 0 .. MaxFaults
    BY <1>2 DEF HwType
  <2> QED BY <1>2, <2>1, PoweredUpType
<1>6. hw' = [hw EXCEPT ![d] = g]
  BY <1>4
<1> HIDE DEF g
<1>7. /\ hw' \in [Devices -> HwType] /\ hw'[d] = g
      /\ \A e \in Devices : e # d => hw'[e] = hw[e]
  BY <1>2, <1>5, <1>6
<1>8. Replugged /\ SameObjects /\ plugs' \in 1 .. MaxPlugs
  BY <1>1, <1>2, <1>4, <1>5, <1>7, SessionDevicesAssumption DEF Replugged, SameObjects
<1>9. TypeOK' /\ LoopsOnly' /\ ActiveCount'
  BY <1>1, <1>7, <1>8 DEF IInv, Core, TypeOK, LoopsOnly, ActiveCount
<1>10. Core'
  BY <1>1, <1>8, <1>9, FrameCore DEF IInv
<1>11. ASSUME NEW o \in members, Reachable(o)'
       PROVE  Reachable(o) /\ HwOf(o)' = HwOf(o)
  <2>1. o \in Listed /\ obj[o].dev \in Devices /\ obj[o].plug \in Nat \ {0}
        /\ obj[o].plug <= plugs
    BY ListedTypes DEF Listed, IInv, Core, Plugs
  <2>2. Reachable(o)
    BY <1>8, <1>11, <2>1, StillReachable DEF IInv
  <2>3. obj[o].dev # d
    BY <1>1, <1>2, <1>4, <1>5, <1>7, <1>11, <2>1 DEF Reachable, HwOf
  <2> QED BY <1>1, <1>7, <2>1, <2>2, <2>3 DEF HwOf
<1>12. Progress'
  BY <1>1, <1>11 DEF IInv, Progress, DeletedAside, PhaseIdle, StartedSoFar, EndedSoFar,
     ModesApplied, EndLeavesOff, Applied, TurnedOff
<1> QED BY <1>10, <1>12 DEF IInv

\* A device sent to its bootloader: off the bus, or as it was.
LEMMA UnloadedOutcome ==
  ASSUME TypeOK, NEW o \in Listed, NEW u \in Unloaded(o)
  PROVE  /\ u.obj = o /\ u.removed \in BOOLEAN
         /\ u.hw \in HwType /\ u.hw.plug \in {0, HwOf(o).plug}
         /\ u.hw.serial = HwOf(o).serial /\ u.hw.eeprom = HwOf(o).eeprom
<1>1. PICK r \in (IF o \in members THEN Release(o) ELSE {Outcome(HwOf(o), "error")}),
           b \in SambaMode(HwOf(o), obj[o]) :
        u = [obj |-> o, removed |-> r.ret = "ok", hw |-> b.hw]
  BY DEF Unloaded
<1>2. u.obj = o /\ u.removed \in BOOLEAN /\ u.hw = b.hw
  BY <1>1
<1>3. HwOf(o) \in HwType
  BY ListedTypes
<1> QED BY <1>2, <1>3, SambaModeOutcome

LEMMA FlashStep ==
  ASSUME IInv, NEW S, Flash(S)
  PROVE  IInv'
<1>1. /\ S \subseteq available \ deleted /\ deleted' = deleted \cup S /\ phase' = "none"
      /\ UNCHANGED <<obj, available, chosen, calOK>>
      /\ UNCHANGED <<active, streaming, rate, continuous, cancellation, profile, pc, todo>>
  BY DEF Flash, capture, thread
<1>2. pc = "idle" /\ members \cap deleted = {} /\ todo = {} /\ calls' \in 0 .. MaxCalls
  BY CallQuiet DEF IInv, Flash
<1>3. PICK out \in {f \in [S -> UNION {Unloaded(o) : o \in S}] : \A o \in S : f[o].obj = o} :
       LET own(d) == {o \in S : obj[o].dev = d /\ Reachable(o)}
           after  == [d \in Devices |-> IF own(d) = {} THEN hw[d]
                                        ELSE out[CHOOSE o \in own(d) : TRUE].hw]
           boot   == {d \in Devices : after[d].boot}
       IN /\ members' = members \ Removed(out)
          /\ \E back \in SUBSET boot :
               /\ back # {} => Cardinality(boot) >= Cardinality(S) /\ plugs < MaxPlugs
               /\ plugs' = IF back = {} THEN plugs ELSE plugs + 1
               /\ hw' = [d \in Devices |->
                           IF d \notin back THEN after[d]
                           ELSE PoweredUp(plugs', hw[d].serial, hw[d].eeprom, after[d].faults)]
  BY DEF Flash
<1> DEFINE own(d) == {o \in S : obj[o].dev = d /\ Reachable(o)}
           after  == [d \in Devices |-> IF own(d) = {} THEN hw[d]
                                        ELSE out[CHOOSE o \in own(d) : TRUE].hw]
<1>4. PICK back \in SUBSET Devices :
        /\ back # {} => plugs < MaxPlugs
        /\ plugs' = IF back = {} THEN plugs ELSE plugs + 1
        /\ hw' = [d \in Devices |->
                    IF d \notin back THEN after[d]
                    ELSE PoweredUp(plugs', hw[d].serial, hw[d].eeprom, after[d].faults)]
  BY <1>3
<1>5. members' = members \ Removed(out)
  BY <1>3
<1>6. /\ S \subseteq Listed /\ Listed \subseteq Objects /\ plugs \in 1 .. MaxPlugs
      /\ hw \in [Devices -> HwType]
      /\ \A d \in Devices : hw[d].plug \in Nat /\ hw[d].plug <= plugs
  BY <1>1 DEF Listed, IInv, Core, TypeOK, Plugs, HwType
<1>7. ASSUME NEW o \in S PROVE out[o] \in Unloaded(o)
  <2>1. PICK q \in S : out[o] \in Unloaded(q)
    BY <1>3
  <2>2. q = o
    BY <1>3, <1>6, <2>1, UnloadedOutcome DEF IInv, Core
  <2> QED BY <2>1, <2>2
<1>8. ASSUME NEW d \in Devices
      PROVE  /\ after[d] \in HwType /\ after[d].plug \in {0, hw[d].plug}
             /\ after[d].serial = hw[d].serial /\ after[d].eeprom = hw[d].eeprom
  <2>1. CASE own(d) = {}
    BY <1>6, <2>1
  <2>2. CASE own(d) # {}
    <3>1. PICK o \in own(d) : after[d] = out[o].hw
      <4> DEFINE c == CHOOSE o \in own(d) : TRUE
      <4>1. c \in own(d)
        BY <2>2
      <4>2. after[d] = out[c].hw
        BY <2>2
      <4> QED BY <4>1, <4>2
    <3>2. o \in S /\ HwOf(o) = hw[d]
      BY <3>1 DEF HwOf
    <3> HIDE DEF own, after
    <3> QED BY <1>6, <1>7, <3>1, <3>2, UnloadedOutcome DEF IInv, Core
  <2> QED BY <2>1, <2>2
<1> HIDE DEF own, after
<1>9. plugs' \in 1 .. MaxPlugs /\ plugs' >= plugs /\ (back # {} => plugs' > plugs)
  BY <1>4, <1>6, SessionDevicesAssumption
<1>10. ASSUME NEW d \in Devices
       PROVE  /\ hw'[d] \in HwType
              /\ hw'[d].plug \in {hw[d].plug, 0} \/ hw'[d].plug > plugs
              /\ hw'[d].plug <= plugs'
              /\ hw'[d].eeprom = hw[d].eeprom /\ hw'[d].serial = hw[d].serial
  <2>1. CASE d \notin back
    BY <1>4, <1>6, <1>8, <1>9, <2>1
  <2>2. CASE d \in back
    <3> DEFINE g == PoweredUp(plugs', hw[d].serial, hw[d].eeprom, after[d].faults)
    <3>1. after[d].faults \in 0 .. MaxFaults
      BY <1>8 DEF HwType
    <3>2. plugs' \in 0 .. MaxPlugs /\ plugs' > plugs
      BY <1>9, <2>2
    <3>3. g \in HwType /\ g.plug = plugs' /\ g.serial = hw[d].serial
          /\ g.eeprom = hw[d].eeprom
      BY <1>6, <3>1, <3>2, PoweredUpType
    <3>4. hw'[d] = g
      BY <1>4, <2>2
    <3> HIDE DEF g
    <3> QED BY <1>9, <3>2, <3>3, <3>4
  <2> QED BY <2>1, <2>2
<1>11. Replugged /\ SameObjects
  BY <1>1, <1>9, <1>10 DEF Replugged, SameObjects
<1>12. /\ Listed' \subseteq Listed /\ Usable' \subseteq Usable /\ members' \subseteq members
       /\ deleted' \subseteq available' \cup members'
  <2>1. Removed(out) \subseteq S
    BY <1>3 DEF Removed
  <2> QED BY <1>1, <1>2, <1>5, <2>1 DEF Listed, Usable, IInv, Core, TypeOK
<1>13. hw' \in [Devices -> HwType]
  BY <1>4, <1>10
<1>14. TypeOK'
  BY <1>1, <1>2, <1>9, <1>12, <1>13 DEF IInv, Core, TypeOK
<1>15. LoopsOnly' /\ HistoryType'
  BY <1>1, <1>2, <1>5, <1>6 DEF IInv, Core, LoopsOnly, HistoryType
<1>16. ActiveCount'
  <2>1. streaming = {}
    BY CallQuiet DEF IInv, Flash
  <2> QED BY <1>1, <1>2, <2>1 DEF IInv, Core, ActiveCount
<1>17. Core'
  BY <1>1, <1>11, <1>12, <1>14, <1>15, <1>16, ShrinkCore DEF IInv
<1> QED BY <1>1, <1>2, <1>17, QuietProgress DEF IInv

-----------------------------------------------------------------------------
(* The theorems *)

LEMMA InitIInv ==
  ASSUME Init
  PROVE  IInv
<1>1. 1 \in 0 .. MaxPlugs /\ MaxFaults \in 0 .. MaxFaults
  BY SessionDevicesAssumption
<1>2. ASSUME NEW d \in Devices
      PROVE  /\ hw[d] \in HwType /\ hw[d].plug = 1 /\ hw[d].serial = d
  <2>1. hw[d] = PoweredUp(1, d, "factory", MaxFaults)
    BY DEF Init
  <2> QED BY <1>1, <2>1 DEF PoweredUp, HwType, Serials, Pset, HI_Z, Channels
<1>3. hw \in [Devices -> HwType]
  BY <1>2 DEF Init
<1>4. Cardinality(Objects) \in Nat /\ Cardinality({}) = 0
  BY SessionDevicesAssumption, FS_CardinalityType, FS_EmptySet
<1>5. TypeOK
  <2>1. /\ obj \in [Objects -> ObjectType \cup {None}]
        /\ chosen \in [Objects -> [Channels -> 0 .. 5]]
    BY DEF Init, HI_Z
  <2>2. /\ active \in Nat /\ rate \in Nat
        /\ plugs \in 1 .. MaxPlugs /\ calls \in 0 .. MaxCalls
    BY <1>4, SessionDevicesAssumption DEF Init
  <2>3. /\ members = {} /\ available = {} /\ deleted = {} /\ streaming = {} /\ todo = {}
        /\ continuous = FALSE /\ cancellation = FALSE /\ pc = "idle"
        /\ profile \in Profiles /\ phase = "none"
    BY DEF Init
  <2> QED BY <1>3, <2>1, <2>2, <2>3 DEF TypeOK
<1>6. HistoryType /\ LoopsOnly /\ Plugs /\ SerialsOwn /\ ActiveCount /\ ModesKnown
  BY <1>2, <1>4 DEF Init, HistoryType, LoopsOnly, Plugs, SerialsOwn, ActiveCount, ModesKnown,
                    Listed, OwnSerial
<1>7. OneObjectPerDevice /\ CalibrationTrue
  BY DEF Init, OneObjectPerDevice, CalibrationTrue, Usable
<1>8. Progress
  BY DEF Init, Progress, DeletedAside, PhaseIdle, StartedSoFar, EndedSoFar,
         ModesApplied, EndLeavesOff
<1> QED BY <1>5, <1>6, <1>7, <1>8 DEF IInv, Core

LEMMA NextIInv ==
  ASSUME IInv, [Next]_vars
  PROVE  IInv'
<1>1. CASE UNCHANGED vars
  BY <1>1 DEF vars, lists, capture, thread, history, IInv, Core, Progress, TypeOK,
     HistoryType, LoopsOnly, Plugs, SerialsOwn, ActiveCount, ModesKnown, DeletedAside,
     PhaseIdle, StartedSoFar, EndedSoFar, OneObjectPerDevice, ModesApplied,
     EndLeavesOff, CalibrationTrue, Listed, Usable, Applied, TurnedOff,
     Reachable, HwOf
<1>2. CASE ListCalls
  BY <1>2, ScanStep, AddAllStep, AddStep, DestroyStep, RemoveStep, FlashStep DEF ListCalls
<1>3. CASE DeviceCalls
  BY <1>3, CallSetModeStep, CallWriteCalibrationStep, CallSetSerialStep DEF DeviceCalls
<1>4. CASE SessionSteps
  BY <1>4, ConfigureStep, CallStartStep, StartDeviceStep, CompleteStep, EndDeviceStep,
     CallEndStep, EndWaitedStep DEF SessionSteps
<1>5. CASE \E d \in Devices : Unplug(d) \/ Plug(d)
  BY <1>5, HandsStep
<1> QED BY <1>1, <1>2, <1>3, <1>4, <1>5 DEF Next

\* The invariant holds in every state.
THEOREM SessionInvariant == Spec => []IInv
<1>1. Init => IInv
  BY InitIInv
<1>2. IInv /\ [Next]_vars => IInv'
  BY NextIInv
<1> QED BY <1>1, <1>2, PTL DEF Spec

\* Every variable keeps its type, and a list never holds an object that is not
\* one.
THEOREM TypeCorrect == Spec => []TypeOK
<1>1. IInv => TypeOK
  BY DEF IInv, Core
<1> QED BY <1>1, SessionInvariant, PTL

\* Whatever is plugged, scanned, added, removed and flashed, two objects the
\* application can reach are never of one device (session.cpp:414-419).
THEOREM DevicesHaveOneObject == Spec => []OneObjectPerDevice
<1>1. IInv => OneObjectPerDevice
  BY DEF IInv, Core
<1> QED BY <1>1, SessionInvariant, PTL

\* A start() that succeeds leaves every reachable member in the modes that were
\* set through it, sampling at its rate (device_m1000.cpp:895-918).
THEOREM StartAppliesModes == Spec => []ModesApplied
<1>1. IInv => ModesApplied
  BY DEF IInv, Progress
<1> QED BY <1>1, SessionInvariant, PTL

\* An end() that returns 0 leaves every reachable member off (session.cpp:606-615).
THEOREM EndTurnsMembersOff == Spec => []EndLeavesOff
<1>1. IInv => EndLeavesOff
  BY DEF IInv, Progress
<1> QED BY <1>1, SessionInvariant, PTL

\* The calibration an object scales with is its device's, if it was read or
\* written without an error (device_m1000.cpp:150-258).
THEOREM CalibrationIsTheDevices == Spec => []CalibrationTrue
<1>1. IInv => CalibrationTrue
  BY DEF IInv, Core
<1> QED BY <1>1, SessionInvariant, PTL

=============================================================================
