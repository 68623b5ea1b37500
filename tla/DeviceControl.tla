---------------------------- MODULE DeviceControl ----------------------------
(***************************************************************************)
(* The control transfers by which libsmu changes an M1000's settings, and  *)
(* the methods made of them (src/src/device_m1000.cpp): what they leave    *)
(* behind in the device wherever the sequence is cut short.                *)
(*                                                                         *)
(* A method is the set of its outcomes: records of the hardware it leaves  *)
(* and what it returns, "ok", "error" or "nodev" (-ENODEV).                *)
(***************************************************************************)
EXTENDS Integers

Channels == {"A", "B"}
\* enum Mode, and what set_mode makes of it
HI_Z == 0
Split(mode) == mode \in {3, 4, 5}
Pset(mode) == CASE mode \in {2, 5} -> "0x7f7f" [] mode \in {1, 4} -> "0x0000"
                [] OTHER -> "0x3000"

\* A device that has just got its power; faults bounds the transfers that may
\* still fail although it is plugged in.
PoweredUp(plug, serial, eeprom, faults) ==
  [plug |-> plug, serial |-> serial, eeprom |-> eeprom, faults |-> faults,
   pset |-> [ch \in Channels |-> Pset(HI_Z)], mode |-> [ch \in Channels |-> HI_Z],
   split |-> {}, alt |-> 0, boot |-> FALSE, ready |-> FALSE, sampling |-> 0]

-----------------------------------------------------------------------------
Outcome(h, r) == [hw |-> h, ret |-> r]

\* ctrl_transfer and its like on a handle opened at plug o.plug: unplugging a
\* device makes its handles useless.
Transfer(h, o, after) ==
  IF h.plug # o.plug THEN {Outcome(h, "nodev")}
  ELSE {Outcome(after, "ok")} \cup
       {Outcome([h EXCEPT !.faults = n - 1], "error") : n \in {h.faults} \ {0}}

\* if (ret < 0) return ret; and then ...
Then(outcomes, Rest(_)) ==
  {x \in outcomes : x.ret # "ok"}
    \cup UNION {Rest(x.hw) : x \in {y \in outcomes : y.ret = "ok"}}

\* A transfer whose result is not looked at.
Ignored(outcomes) == {Outcome(x.hw, "ok") : x \in outcomes}

-----------------------------------------------------------------------------
(* Channel modes *)

\* set_mode without its last line, which stores the mode in m_mode.
SetMode(h, o, ch, mode) ==
  Then(Transfer(h, o, [h EXCEPT !.pset[ch] = Pset(mode)]), LAMBDA h1 :
  Then(Transfer(h1, o, [h1 EXCEPT !.mode[ch] = mode % 3]), LAMBDA h2 :
    IF Split(mode)
    THEN Ignored(Transfer(h2, o, [h2 EXCEPT !.split = @ \cup {ch}]))
    ELSE {Outcome(h2, "ok")}))

\* Mutant: the modes are left as they are.
OnKeepsModes(h, o) ==
  Then(Transfer(h, o, [h EXCEPT !.alt = 1]), LAMBDA h1 :
  Then(Transfer(h1, o, [h1 EXCEPT !.sampling = 0]), LAMBDA h2 :
       Transfer(h2, o, [h2 EXCEPT !.ready = TRUE])))
\* on(): the modes of the capture before, or HI_Z, again.
On(h, o) ==
  Then(Transfer(h, o, [h EXCEPT !.alt = 1]), LAMBDA h1 :
  Then(SetMode(h1, o, "A", o.mode["A"]), LAMBDA h2 :
  Then(SetMode(h2, o, "B", o.mode["B"]), LAMBDA h3 :
  Then(Transfer(h3, o, [h3 EXCEPT !.sampling = 0]), LAMBDA h4 :
       Transfer(h4, o, [h4 EXCEPT !.ready = TRUE])))))

\* sync(), which reads the frame number and changes nothing in the device
Sync(h, o) == Transfer(h, o, h)

\* The transfer of run(); the period 0 means stop.
Run(h, o) == Transfer(h, o, [h EXCEPT !.sampling = o.period])

\* Mutant: gives up before the second channel.
OffHalf(h, o) ==
  Then(SetMode(h, o, "A", HI_Z), LAMBDA h1 : Transfer(h1, o, [h1 EXCEPT !.sampling = 0]))
\* off(): high impedance without touching m_mode, then stop.  The overcurrent
\* status, read first, changes nothing; an exception is Streaming's subject.
Off(h, o) ==
  Then(SetMode(h, o, "A", HI_Z), LAMBDA h1 :
  Then(SetMode(h1, o, "B", HI_Z), LAMBDA h2 :
       Transfer(h2, o, [h2 EXCEPT !.sampling = 0])))

-----------------------------------------------------------------------------
(* Calibration and serial number *)

\* What m_cal is after read_calibration() with that result.
CalibrationRead(h, r) == IF r = "ok" /\ h.eeprom # "blank" THEN h.eeprom ELSE "unity"

\* A calibration file: what its records leave in m_cal and whether they are 8.
\* NULL stands for the default values; a file cut short overwrites some.
CalibrationFiles == {[cal |-> "unity", whole |-> TRUE], [cal |-> "file", whole |-> TRUE],
                     [cal |-> "mixed", whole |-> FALSE]}

\* Mutant: success is reported whatever became of the transfer.
WriteUnchecked(h, o, f) ==
  IF f.whole THEN Ignored(Transfer(h, o, [h EXCEPT !.eeprom = f.cal]))
  ELSE {Outcome(h, "error")}
\* write_calibration() after m_cal has been changed.
WriteCalibration(h, o, f) ==
  IF f.whole THEN Transfer(h, o, [h EXCEPT !.eeprom = f.cal]) ELSE {Outcome(h, "error")}

\* set_serial()'s transfer; an empty one resets to the built-in number.
SetSerial(h, o, serial) == Transfer(h, o, [h EXCEPT !.serial = serial])

\* samba_mode(): the device leaves the bus for its bootloader; some errors
\* mean that it has gone already.
SambaMode(h, o) == Transfer(h, o, [h EXCEPT !.plug = 0, !.boot = TRUE])

=============================================================================
