------------------------------ MODULE Arithmetic ------------------------------
(***************************************************************************)
(* The calculations of libsmu against reference definitions, over bounded  *)
(* inputs: waveforms (Signals), sample rates (SampleRate) and firmware     *)
(* images (SambaFlash).  A behaviour is about one of the three.            *)
(***************************************************************************)
EXTENDS Signals, SampleRate, SambaFlash

CONSTANTS Firmwares,   \* firmware versions
          SampleRates, \* arguments of Session::configure
          Captures,    \* arguments of Session::run
          Sizes        \* sizes of firmware files in bytes

\* Session::configure never hands a rate of 0 to a device.
ASSUME ArithmeticAssumption ==
  SampleRates \subseteq Nat \ {0} /\ Captures \subseteq Nat /\ Sizes \subseteq Nat

VARIABLES about, fwver, rate, size

vars == <<signalVars, about, fwver, rate, size>>

Init ==
  \/ /\ about = "signal" /\ SignalInit
     /\ fwver = "none" /\ rate = 0 /\ size = 0
  \/ /\ about \in {"rate", "size"}
     /\ src = "CONSTANT" /\ srcPeriod = 1 /\ srcPhase = 0 /\ startPhase = 0
     /\ value = Level(0, 1) /\ samples = 0
     /\ \/ about = "rate" /\ fwver \in Firmwares /\ rate \in SampleRates /\ size = 0
        \/ about = "size" /\ size \in Sizes /\ fwver = "none" /\ rate = 0

Next == about = "signal" /\ GetSample /\ UNCHANGED <<about, fwver, rate, size>>

Spec == Init /\ [][Next]_vars

-----------------------------------------------------------------------------
per == SamPer(fwver, rate)
set == SetRate(fwver, per)

\* The period is the number of half clock ticks that configure() means it to
\* be, between the ends of the device's range: the rate is below the request by
\* less than half a tick in a sample, and the next longer period is below it
\* (device_m1000.cpp:328-344).
RateWithinHalfTick ==
  about = "rate" =>
    /\ per < 24000 => Clock(fwver) < 2 * (per + 1) * rate
    /\ per > 240 => 4 * per * rate <= 2 * Clock(fwver) + rate

\* The wait of end() outlasts a run() on a healthy device, the rest of its last
\* transfer included, although it is reckoned from the rounded rate, where the
\* 32 bits of m_samples hold run()'s argument; with initial production firmware
\* it does so only from 256 samples a second up, for below that the rest of a
\* transfer can take longer than the spare second (session.cpp:573, 591-601,
\* device_m1000.cpp:340-353).  It says nothing of start() and end(), after
\* which m_samples has nothing to do with the capture.
RunWaitSuffices ==
  about = "rate" /\ (fwver = "023314a*" => rate >= 256) =>
    \A n \in Captures :
      LET spt   == SamplesPerTransfer(fwver, per)
          whole == ((n + spt - 1) \div spt) * spt
      IN n < SamplesMod => Duration(fwver, per, whole) <= 1000 * EndWait(MSamples(n), set)

\* Every byte of the file is committed once, in a page of its number, after
\* the page's words were written, and page numbers fit their two digits
\* (session.cpp:192-197, 237-260).
PagesCoverFile ==
  about = "size" =>
    /\ \A byte \in 0 .. size - 1 :
         LET page == byte \div PageSize
         IN {c \in Commits(size) : c[2] = page} = {<<(page + 1) * PageSize - WordSize, page>>}
    /\ \A c \in Commits(size) : Digits(c[2]) = 2

=============================================================================
