------------------------------- MODULE Signals -------------------------------
(***************************************************************************)
(* The waveform generator of a Signal (src/src/signal.cpp): a method names *)
(* a waveform, its period and the phase it starts at, and get_sample()     *)
(* gives one value after the other.                                        *)
(*                                                                         *)
(* Phase and period are numbers of samples with a fraction: here they are  *)
(* integers that count Unit'ths of a sample, a power of two, so that sums, *)
(* remainders and comparisons of the doubles that stand for them are       *)
(* exact.  What is rounded to a float on the way is rounded here.  A value *)
(* is a level, the part of the way from m_src_v1 to m_src_v2 it is at, as  *)
(* a quotient; that of a sine is the part of the circle it is the cosine   *)
(* of.                                                                     *)
(***************************************************************************)
EXTENDS Integers

CONSTANTS Unit,             \* parts of a sample
          Waves,            \* waveforms that are generated
          Periods, Phases,  \* arguments of the methods, in parts; a phase has
                            \* either sign
          Duty,             \* duty cycle in tenths
          MaxSamples        \* bound on the samples of a buffer

Sources == {"CONSTANT", "SQUARE", "SAWTOOTH", "STAIRSTEP", "SINE", "TRIANGLE"}

\* Arguments so small that a float holds all of their parts, and that no
\* quotient of them is rounded past a step of a wave.
ExactMax == 65536
ExactArguments == Periods \subseteq 0 .. ExactMax /\ Phases \subseteq 0 .. ExactMax

\* A sawtooth of fewer than two samples may divide by zero.
ASSUME SignalsAssumption ==
  /\ Unit \in Nat \ {0} /\ Waves \subseteq Sources
  /\ Periods \subseteq Nat /\ \A p \in Periods : p >= 2 * Unit
  /\ Phases \subseteq Nat /\ Duty \in 0 .. 10 /\ MaxSamples \in Nat

\* Doubles hold the parts of a sample; only of a sawtooth is it modelled how
\* floats round what is larger.
ASSUME RoundingAssumption ==
  /\ \E k \in 0 .. 28 : Unit = 2 ^ k
  /\ ExactArguments \/ Waves = {"SAWTOOTH"}

VARIABLES
  src, srcPhase, srcPeriod,  \* m_src, m_src_phase, m_src_period
  value,                     \* the last sample
  startPhase, samples        \* history: the argument phase; samples so far

signalVars == <<src, srcPhase, srcPeriod, value, startPhase, samples>>

Level(n, d) == [num |-> n, den |-> d]

\* C's truncf and fmod, in parts of a sample.
Trunc(x)   == IF x >= 0 THEN x \div Unit ELSE -((-x) \div Unit)
Fmod(x, y) == IF x >= 0 THEN x % y ELSE -((-x) % y)

Abs(x) == IF x < 0 THEN -x ELSE x

\* The nearest multiple of ulp, of two the even one.
Nearest(x, ulp) ==
  LET low  == x - (x % ulp)
      odd  == (low \div ulp) % 2 = 1
  IN IF 2 * (x % ulp) > ulp \/ (2 * (x % ulp) = ulp /\ odd) THEN low + ulp ELSE low

\* 2^24: a float has 24 bits.
Significand == 16777216

\* The last of them, for a number from there to 2^31.
Ulp(x) == 2 ^ (CHOOSE k \in 1 .. 7 : 2 * (x \div 2 ^ k) \in Significand .. 2 * Significand - 1)

\* A double made a float.
Float(x) == IF Abs(x) < Significand THEN x
            ELSE (IF x < 0 THEN -1 ELSE 1) * Nearest(Abs(x), Ulp(Abs(x)))

\* truncf() of a phase or period, and the fraction that is left.
IntPart(x)  == Trunc(Float(x))
FracPart(x) == Float(x - Unit * IntPart(x))

\* Mutant: the last integer phase is taken to be the period's in every cycle.
PeriodPhase(phase, period) == IntPart(period)
\* max_int_phase, the greatest integer part the phase is to reach in its cycle.
MaxIntPhase(phase, period) ==
  IF FracPart(period) <= FracPart(phase) THEN IntPart(period) - 1 ELSE IntPart(period)

\* Mutant: a negative phase is left as it is.
RawPhase(phase, period) == phase
\* norm_phase times the period.
NormPhase(phase, period) == IF phase < 0 THEN phase + period ELSE phase

Sample(s, phase, period) ==
  LET norm == NormPhase(phase, period)
      max  == MaxIntPhase(phase, period)
  IN CASE s = "CONSTANT"  -> Level(0, 1)
       [] s = "SQUARE"    -> IF norm * 10 < Duty * period THEN Level(0, 1) ELSE Level(1, 1)
       [] s = "SAWTOOTH"  -> IF IntPart(phase) < 0 THEN Level(-IntPart(phase), max)
                             ELSE Level(max - IntPart(phase), max)
       [] s = "STAIRSTEP" -> Level(9 - (norm * 10) \div period, 9)
       [] s = "SINE"      -> Level(norm, period)
       [] s = "TRIANGLE"  -> Level(Abs(period - 2 * norm), period)

-----------------------------------------------------------------------------
SignalInit ==
  /\ src \in Waves
  /\ srcPeriod \in Periods /\ srcPhase \in Phases \cup {-p : p \in Phases}
  /\ startPhase = srcPhase
  /\ value = Level(0, 1) /\ samples = 0

GetSample ==
  /\ samples < MaxSamples /\ samples' = samples + 1
  /\ value' = Sample(src, srcPhase, srcPeriod)
  /\ srcPhase' = IF src = "CONSTANT" THEN srcPhase ELSE Fmod(srcPhase + Unit, srcPeriod)
  /\ UNCHANGED <<src, srcPeriod, startPhase>>

-----------------------------------------------------------------------------
(* Properties *)

\* Where a wave is at a phase within its period; for its duty a square wave is
\* at m_src_v1.  A sawtooth falls in equal steps from the first sample of a
\* cycle to the last.
AtPhase(s, phase, period) ==
  LET step == phase \div Unit
      last == (period - 1 - (phase % Unit)) \div Unit
  IN CASE s = "SQUARE"    -> IF 10 * phase < Duty * period THEN Level(0, 1) ELSE Level(1, 1)
       [] s = "SAWTOOTH"  -> Level(last - step, last)
       [] s = "STAIRSTEP" -> Level(9 - (10 * phase) \div period, 9)
       [] s = "SINE"      -> Level(phase, period)
       [] s = "TRIANGLE"  -> IF 2 * phase <= period THEN Level(period - 2 * phase, period)
                             ELSE Level(2 * phase - period, period)

\* The method's argument is within a period, or the first sample is past.
Settled == startPhase \in 1 - srcPeriod .. srcPeriod - 1 \/ samples > 1

\* The phase the last sample should be at.
Now == startPhase + Unit * (samples - 1)

\* The k-th sample is the wave at k samples after its phase, modulo the
\* period, whatever the sign of the phase and however often it wrapped round:
\* no cycle is cut short or long (signal.cpp:109-113), where the arithmetic is
\* exact.  A sawtooth keeps to it from phase 0 on.
FollowsPhase ==
  LET ref == AtPhase(src, Now % srcPeriod, srcPeriod)
  IN samples > 0 /\ Settled /\ src # "CONSTANT" /\ (src = "SAWTOOTH" => Now >= 0)
       => value.num * ref.den = ref.num * value.den

\* Every sample is a number between the two values that were given, where the
\* arithmetic is exact, a phase that is negative or beyond the period included,
\* but for the first sample of such a wave (signal.cpp:108-149).
WithinPeak == samples > 0 /\ Settled => value.den > 0 /\ value.num \in 0 .. value.den

-----------------------------------------------------------------------------
(* What comments and the header say, and the code does not keep to *)

\* "Get the integer part of the maximum value phase will be set at"
\* (signal.cpp:126): no phase of a sawtooth passes max_int_phase.
MaxIntPhaseIsGreatest == samples > 0 /\ src = "SAWTOOTH" /\ Settled => value.num >= 0

\* "Duty cycle of the waveform (fraction of time in which the signal is
\* active)" (libsmu.hpp:559): for that part of a period the signal is at its
\* peak.
DutyActive ==
  samples > 0 /\ src = "SQUARE" /\ Settled =>
    (10 * (Now % srcPeriod) < Duty * srcPeriod <=> value = Level(1, 1))

\* "Value at the middle of the wave" (libsmu.hpp:592): a quarter of a period
\* after its peak a triangle is at midpoint.
MidpointInMiddle ==
  samples > 0 /\ src = "TRIANGLE" /\ Settled /\ 4 * (Now % srcPeriod) = srcPeriod =>
    value.num = 0

=============================================================================
