--------------------------- MODULE ArithmeticProofs ---------------------------
(***************************************************************************)
(* The calculations of libsmu meet their reference definitions for every   *)
(* waveform, sample rate and firmware image.                               *)
(***************************************************************************)
EXTENDS Arithmetic, FiniteSetTheorems, TLAPS

\* Captures whose wait is proved to be long enough: up to a million samples;
\* with initial production firmware up to 20000, at 300 samples a second or
\* more (below 256 the property promises nothing).
ModerateUse ==
  \A fw \in Firmwares, r \in SampleRates, n \in Captures :
    IF fw = "023314a*" THEN r \notin 256 .. 299 /\ n <= 20000 ELSE n <= 1000000

\* Firmware files that fill at most 256 pages.
MaxFile == 65535
SmallImages == Sizes \subseteq 0 .. MaxFile

-----------------------------------------------------------------------------
(* Quotients and remainders *)

\* A number is its quotient times the divisor and a rest below the divisor.
LEMMA DivMod ==
  ASSUME NEW a \in Int, NEW b \in Nat \ {0}
  PROVE  a \div b \in Int /\ a % b \in 0 .. b - 1 /\ a = b * (a \div b) + (a % b)
  BY SMTT(30)

\* Multiplying by a natural number keeps the order.
LEMMA TimesMono ==
  ASSUME NEW a \in Int, NEW b \in Int, NEW c \in Nat, a <= b
  PROVE  a * c <= b * c /\ c * a <= c * b
  BY SMTT(30)

\* Quotients keep the order, and that of a natural number is one.
LEMMA DivNat ==
  ASSUME NEW a \in Nat, NEW b \in Nat \ {0}
  PROVE  a \div b \in Nat /\ b * (a \div b) <= a
<1> DEFINE q == a \div b
<1>1. q \in Int /\ a % b \in 0 .. b - 1 /\ a = b * q + (a % b)
  BY DivMod
<1> HIDE DEF q
<1>2. ASSUME q < 0 PROVE FALSE
  <2>1. b * q <= b * (-1) /\ b * q \in Int
    BY <1>1, <1>2, TimesMono
  <2> QED BY <1>1, <2>1
<1>3. b * q \in Int
  BY <1>1
<1> QED BY <1>1, <1>2, <1>3 DEF q

\* A quotient is at least what the divisor goes into.
LEMMA DivAtLeast ==
  ASSUME NEW a \in Int, NEW b \in Nat \ {0}, NEW c \in Int, b * c <= a
  PROVE  c <= a \div b
<1> DEFINE q == a \div b
<1>1. q \in Int /\ a % b \in 0 .. b - 1 /\ a = b * q + (a % b)
  BY DivMod
<1> HIDE DEF q
<1>2. ASSUME q < c PROVE FALSE
  <2>1. b * (q + 1) <= b * c
    BY <1>1, <1>2, TimesMono
  <2>2. b * (q + 1) = b * q + b /\ b * q \in Int /\ b * c \in Int
    BY <1>1
  <2> QED BY <1>1, <2>1, <2>2
<1> QED BY <1>1, <1>2 DEF q

\* A quotient is less than what goes beyond.
LEMMA DivLess ==
  ASSUME NEW a \in Int, NEW b \in Nat \ {0}, NEW c \in Int, a < b * c
  PROVE  a \div b < c
<1> DEFINE q == a \div b
<1>1. q \in Int /\ a % b \in 0 .. b - 1 /\ a = b * q + (a % b)
  BY DivMod
<1> HIDE DEF q
<1>2. ASSUME c <= q PROVE FALSE
  <2>1. b * c <= b * q /\ b * c \in Int /\ b * q \in Int
    BY <1>1, <1>2, TimesMono
  <2> QED BY <1>1, <2>1
<1> QED BY <1>1, <1>2 DEF q

\* Only one quotient and one rest do that.
LEMMA Unique ==
  ASSUME NEW a \in Int, NEW b \in Nat \ {0}, NEW q \in Int, NEW r \in 0 .. b - 1,
         a = b * q + r
  PROVE  q = a \div b /\ r = a % b
<1>1. CASE q < a \div b BY <1>1, DivMod, TimesMono
<1>2. CASE q > a \div b BY <1>2, DivMod, TimesMono
<1> QED BY <1>1, <1>2, DivMod

\* Whole divisors do not change the rest.
LEMMA ModShift ==
  ASSUME NEW a \in Int, NEW b \in Nat \ {0}, NEW k \in Int
  PROVE  (a + b * k) % b = a % b
<1> DEFINE c == a + b * k
           q == a \div b
           r == a % b
           m == q + k
<1>1. q \in Int /\ r \in 0 .. b - 1 /\ a = b * q + r
  BY DivMod
<1>2. b * k \in Int /\ b * q \in Int /\ m \in Int
  BY <1>1
<1>3. b * m = b * q + b * k
  BY <1>1
<1>4. c \in Int /\ c = b * m + r
  BY <1>1, <1>2, <1>3
<1> HIDE DEF c, q, r, m
<1>5. r = c % b
  BY <1>1, <1>2, <1>4, Unique
<1> QED BY <1>5 DEF c, r

\* Equal rests stay equal.
LEMMA ModPlus ==
  ASSUME NEW a \in Int, NEW c \in Int, NEW b \in Nat \ {0}, NEW d \in Int, a % b = c % b
  PROVE  (a + d) % b = (c + d) % b
<1> DEFINE q == a \div b
           p == c \div b
           r == a % b
           k == q - p
           e == c + d
<1>1. /\ q \in Int /\ p \in Int /\ r \in 0 .. b - 1
      /\ a = b * q + r /\ c = b * p + r
  BY DivMod
<1>2. b * k = b * q - b * p /\ b * q \in Int /\ b * p \in Int /\ k \in Int
  BY <1>1
<1> HIDE DEF q, p, r, k
<1>3. e \in Int /\ a + d = e + b * k
  BY <1>1, <1>2
<1> HIDE DEF e
<1>4. (e + b * k) % b = e % b
  BY <1>2, <1>3, ModShift
<1> QED BY <1>3, <1>4 DEF e

-----------------------------------------------------------------------------
(* Waveforms *)

\* Within a period norm_phase is the phase modulo the period.
LEMMA NormIsMod ==
  ASSUME NEW p \in Nat \ {0}, NEW q \in 1 - p .. p - 1
  PROVE  NormPhase(q, p) = q % p /\ NormPhase(q, p) \in 0 .. p - 1
<1>1. CASE q < 0
  <2>1. q = p * (-1) + (q + p) /\ q + p \in 0 .. p - 1
    BY <1>1
  <2> QED BY <1>1, <2>1, Unique DEF NormPhase
<1>2. CASE q >= 0
  <2>1. q = p * 0 + q /\ q \in 0 .. p - 1
    BY <1>2
  <2> QED BY <1>2, <2>1, Unique DEF NormPhase
<1> QED BY <1>1, <1>2

\* Numbers that a float holds as they are.
Small == {x \in Int : -ExactMax <= x /\ x <= ExactMax}

\* Their bound is an integer that a significand holds.
LEMMA ExactMaxInt == ExactMax \in Int /\ Significand \in Int /\ ExactMax < Significand
BY SMTT(30) DEF ExactMax, Significand

\* Periods are among them, and the phases of a period.
LEMMA PhasesSmall ==
  ASSUME NEW p \in 1 .. ExactMax
  PROVE  /\ p \in Nat \ {0} /\ p \in Small
         /\ \A q \in 1 - p .. p - 1 : q \in Small /\ q \in Int
<1>1. ExactMax \in Int
  BY ExactMaxInt
<1>2. p \in Nat \ {0} /\ p \in Int /\ -ExactMax <= p /\ p <= ExactMax
  BY <1>1
<1>3. ASSUME NEW q \in 1 - p .. p - 1
      PROVE  q \in Int /\ -ExactMax <= q /\ q <= ExactMax
  BY <1>1, <1>2
<1>4. p \in Small
  <2>1. p \in Int /\ -ExactMax <= p /\ p <= ExactMax
    BY <1>2
  <2> QED BY <2>1, Zenon DEF Small
<1>5. ASSUME NEW q \in 1 - p .. p - 1
      PROVE  q \in Small /\ q \in Int
  <2>1. q \in Int /\ -ExactMax <= q /\ q <= ExactMax
    BY <1>3
  <2> QED BY <2>1, Zenon DEF Small
<1> QED BY <1>2, <1>4, <1>5, Zenon

\* Nothing is rounded of them, nor of their fractions.
LEMMA FloatExact ==
  ASSUME NEW x \in Small
  PROVE  IntPart(x) = Trunc(x) /\ FracPart(x) = x - Unit * Trunc(x)
<1>1. ASSUME NEW y \in Small PROVE Float(y) = y
  <2>1. Abs(y) < Significand
    BY <1>1, ExactMaxInt DEF Small, Abs
  <2> QED BY <2>1, Zenon DEF Float
<1>2. IntPart(x) = Trunc(x)
  BY <1>1 DEF IntPart
<1> DEFINE f == x - Unit * Trunc(x)
<1>3. f \in Small
  <2>1. /\ x \in Int /\ Unit \in Nat \ {0} /\ ExactMax \in Int
        /\ -ExactMax <= x /\ x <= ExactMax
    BY SignalsAssumption, ExactMaxInt DEF Small
  <2>2. CASE x >= 0
    <3>1. x % Unit \in Nat /\ x = Unit * (x \div Unit) + (x % Unit) /\ x \div Unit \in Nat
      <4>1. x \in Nat
        BY <2>1, <2>2
      <4>2. x \div Unit \in Nat
        BY <2>1, <4>1, DivNat
      <4>3. x % Unit \in 0 .. Unit - 1 /\ x = Unit * (x \div Unit) + (x % Unit)
        BY <2>1, DivMod
      <4> QED BY <2>1, <4>2, <4>3
    <3>2. Unit * (x \div Unit) \in Nat /\ Trunc(x) = x \div Unit
      BY <2>1, <2>2, <3>1 DEF Trunc
    <3>3. f \in 0 .. x
      BY <2>1, <3>1, <3>2
    <3> HIDE DEF f
    <3>4. f \in Int /\ -ExactMax <= f /\ f <= ExactMax
      BY <2>1, <2>2, <3>3
    <3> QED BY <3>4 DEF Small
  <2>3. CASE x < 0
    <3> DEFINE u == -x
               t == u \div Unit
    <3>1. u \in Nat /\ x = -u
      BY <2>1, <2>3
    <3> HIDE DEF u
    <3>2. u % Unit \in Nat /\ u = Unit * t + (u % Unit) /\ t \in Nat
      <4>1. t \in Nat
        BY <2>1, <3>1, DivNat
      <4>2. u % Unit \in 0 .. Unit - 1 /\ u = Unit * t + (u % Unit)
        <5>1. u \in Int
          BY <3>1
        <5> QED BY <2>1, <5>1, DivMod
      <4> QED BY <2>1, <4>1, <4>2
    <3>3. Trunc(x) = -t
      BY <2>1, <2>3 DEF Trunc, u
    <3> HIDE DEF t
    <3>4. Unit * t \in Nat /\ Unit * (-t) = -(Unit * t)
      BY <2>1, <3>2
    <3>5. f \in x .. 0
      BY <3>1, <3>2, <3>3, <3>4
    <3> HIDE DEF f
    <3>6. f \in Int /\ -ExactMax <= f /\ f <= ExactMax
      BY <2>1, <2>3, <3>5
    <3> QED BY <3>6 DEF Small
  <2> QED BY <2>1, <2>2, <2>3
<1>4. Float(f) = f
  BY <1>1, <1>3
<1> QED BY <1>2, <1>4 DEF FracPart

\* So the comparison of the fractions is exact.
LEMMA MaxIntPhaseOf ==
  ASSUME NEW p \in Small, NEW q \in Small, p > 0
  PROVE  MaxIntPhase(q, p) = IF p % Unit <= q - Unit * Trunc(q) THEN p \div Unit - 1
                             ELSE p \div Unit
<1>1. Trunc(p) = p \div Unit
  BY DEF Trunc, Small
<1>2. p - Unit * (p \div Unit) = p % Unit
  <2>1. p \in Int /\ Unit \in Nat \ {0}
    BY SignalsAssumption DEF Small
  <2>2. p = Unit * (p \div Unit) + (p % Unit) /\ p \div Unit \in Int /\ p % Unit \in Int
    BY <2>1, DivMod
  <2> QED BY <2>1, <2>2
<1> QED BY <1>1, <1>2, FloatExact DEF MaxIntPhase

\* The number of whole steps that a sawtooth makes in its cycle.
LEMMA MaxIntPhaseExact ==
  ASSUME NEW p \in 1 .. ExactMax, NEW q \in 0 .. p - 1
  PROVE  MaxIntPhase(q, p) = (p - 1 - (q % Unit)) \div Unit
<1> DEFINE last == p - 1 - (q % Unit)
           pq == p \div Unit
           pr == p % Unit
           qr == q % Unit
<1>1. /\ Unit \in Nat \ {0} /\ pq \in Int /\ pr \in 0 .. Unit - 1 /\ qr \in 0 .. Unit - 1
      /\ p = Unit * pq + pr /\ q - Unit * Trunc(q) = qr
      /\ MaxIntPhase(q, p) = IF pr <= q - Unit * Trunc(q) THEN pq - 1 ELSE pq
  <2>1. /\ p \in Small /\ q \in Small /\ p \in Nat \ {0} /\ p \in Int /\ q \in Int
        /\ Unit \in Nat \ {0} /\ q >= 0
    BY PhasesSmall, SignalsAssumption
  <2>2. p > 0 /\ Trunc(q) = q \div Unit
    BY <2>1 DEF Trunc
  <2>3. MaxIntPhase(q, p) = IF pr <= q - Unit * Trunc(q) THEN pq - 1 ELSE pq
    BY <2>1, <2>2, MaxIntPhaseOf
  <2>4. /\ pq \in Int /\ pr \in 0 .. Unit - 1 /\ p = Unit * pq + pr
        /\ qr \in 0 .. Unit - 1 /\ q = Unit * (q \div Unit) + qr /\ q \div Unit \in Int
    BY <2>1, DivMod
  <2>5. q - Unit * (q \div Unit) = qr
    BY <2>1, <2>4
  <2> QED BY <2>1, <2>2, <2>3, <2>4, <2>5
<1>2. CASE pr <= qr
  <2> DEFINE m == pq - 1
             r == pr + Unit - 1 - qr
  <2>1. /\ m \in Int /\ r \in 0 .. Unit - 1 /\ last \in Int
        /\ Unit * m = Unit * pq - Unit /\ Unit * pq \in Int /\ Unit * m \in Int
        /\ last = p - 1 - qr
    BY <1>1, <1>2
  <2> HIDE DEF m, pq, pr, qr, last
  <2>2. last = Unit * m + r
    BY <1>1, <2>1
  <2> HIDE DEF r
  <2>3. m = last \div Unit
    <3>1. Unit \in Nat \ {0} /\ last \in Int /\ m \in Int /\ r \in 0 .. Unit - 1
      BY <1>1, <2>1
    <3> QED BY <2>2, <3>1, Unique
  <2> QED BY <1>1, <1>2, <2>3 DEF m, pq, pr, qr, last
<1>3. CASE pr > qr
  <2> DEFINE r == pr - 1 - qr
  <2>1. r \in 0 .. Unit - 1 /\ last \in Int
    BY <1>1, <1>3
  <2>2. last = Unit * pq + r
    BY <1>1, <2>1
  <2>3. pq = last \div Unit
    BY <1>1, <2>1, <2>2, Unique
  <2> QED BY <1>1, <1>3, <2>3
<1> QED BY <1>1, <1>2, <1>3

\* Within a period, the sample is the wave at the phase modulo the period.
LEMMA SampleIsWave ==
  ASSUME NEW s \in Sources \ {"CONSTANT"}, NEW p \in 1 .. ExactMax, NEW q \in 1 - p .. p - 1,
         s = "SAWTOOTH" => q >= 0
  PROVE  LET v == Sample(s, q, p)
             w == AtPhase(s, q % p, p)
         IN v.num * w.den = w.num * v.den
<1> DEFINE n == q % p
<1>0. p \in Nat \ {0} /\ q \in Small
  BY PhasesSmall
<1>1. NormPhase(q, p) = n /\ n \in 0 .. p - 1
  BY <1>0, NormIsMod
<1> HIDE DEF n
<1>2. CASE s = "SQUARE"
  <2>1. n * 10 = 10 * n
    BY <1>1
  <2> QED BY <1>1, <1>2, <2>1 DEF Sample, AtPhase, Level, n
<1>3. CASE s = "SAWTOOTH"
  <2>1. q \in 0 .. p - 1 /\ n = q /\ Trunc(q) = q \div Unit
    BY <1>0, <1>1, <1>3 DEF NormPhase, Trunc
  <2>2. MaxIntPhase(q, p) = (p - 1 - (q % Unit)) \div Unit
    BY <2>1, MaxIntPhaseExact
  <2>3. q \div Unit \in Nat
    BY <2>1, DivNat, SignalsAssumption
  <2>4. Sample(s, q, p) = AtPhase(s, n, p)
    <3>1. IntPart(q) = q \div Unit
      BY <1>0, <2>1, FloatExact
    <3> QED BY <1>3, <2>1, <2>2, <2>3, <3>1 DEF Sample, AtPhase
  <2>5. AtPhase(s, n, p).num \in Int /\ AtPhase(s, n, p).den \in Int
    <3>1. q \div Unit \in Int /\ q % Unit \in Int
      BY <2>1, SignalsAssumption
    <3>2. (p - 1 - (q % Unit)) \div Unit \in Int
      BY <3>1, SignalsAssumption
    <3> QED BY <1>3, <2>1, <3>1, <3>2 DEF AtPhase, Level
  <2> QED BY <2>4, <2>5 DEF n
<1>4. CASE s = "STAIRSTEP"
  <2>1. Sample(s, q, p) = Level(9 - (n * 10) \div p, 9) /\ AtPhase(s, n, p) = Level(9 - (10 * n) \div p, 9)
    BY <1>1, <1>4 DEF Sample, AtPhase
  <2>2. n * 10 = 10 * n /\ (n * 10) \div p \in Int
    BY <1>1
  <2> QED BY <2>1, <2>2 DEF Level, n
<1>5. CASE s = "SINE"
  BY <1>1, <1>5 DEF Sample, AtPhase, Level, n
<1>6. CASE s = "TRIANGLE"
  BY <1>0, <1>1, <1>6 DEF Sample, AtPhase, Level, Abs, n
<1> QED BY <1>2, <1>3, <1>4, <1>5, <1>6 DEF Sources

\* Within a period, no sample leaves the range.
LEMMA SampleInRange ==
  ASSUME NEW s \in Sources, NEW p \in 1 .. ExactMax, NEW q \in 1 - p .. p - 1,
         s = "SAWTOOTH" => p >= 2 * Unit
  PROVE  Sample(s, q, p).den > 0 /\ Sample(s, q, p).num \in 0 .. Sample(s, q, p).den
<1>0. p \in Nat \ {0} /\ p \in Small /\ q \in Small /\ q \in Int
  BY PhasesSmall
<1>1. NormPhase(q, p) \in 0 .. p - 1
  BY <1>0, NormIsMod
<1>9. s = "SAWTOOTH" => MaxIntPhase(q, p) > 0
  <2> SUFFICES ASSUME s = "SAWTOOTH" PROVE MaxIntPhase(q, p) > 0
    OBVIOUS
  <2>1. Unit * 2 <= p /\ p \in Int /\ Unit \in Nat \ {0}
    BY <1>0, SignalsAssumption
  <2>2. 2 <= p \div Unit /\ p \div Unit \in Int
    <3>1. 2 <= p \div Unit
      BY <2>1, DivAtLeast
    <3>2. p \div Unit \in Int
      BY <2>1, DivMod
    <3> QED BY <3>1, <3>2
  <2> QED BY <1>0, <2>2, MaxIntPhaseOf
<1>2. CASE s = "CONSTANT" BY <1>2 DEF Sample, Level
<1>3. CASE s = "SQUARE" BY <1>3 DEF Sample, Level
<1>4. CASE s = "SAWTOOTH" /\ q >= 0
  <2> DEFINE last == p - 1 - (q % Unit)
             step == q \div Unit
  <2>1. /\ step \in Int /\ q % Unit \in 0 .. Unit - 1 /\ q = Unit * step + (q % Unit)
        /\ q \in 0 .. p - 1 /\ Unit \in Nat \ {0}
    <3>1. q \in Int /\ q \in 0 .. p - 1 /\ Unit \in Nat \ {0}
      BY <1>0, <1>4, SignalsAssumption
    <3> QED BY <3>1, DivMod
  <2>2. Trunc(q) = step /\ step \in Nat
    BY <1>4, DivNat, SignalsAssumption DEF Trunc
  <2>3. MaxIntPhase(q, p) = last \div Unit
    BY <1>4, MaxIntPhaseExact
  <2> HIDE DEF step
  <2>4. Unit * step <= last /\ last \in Int
    <3>1. Unit * step \in Int
      BY <2>1
    <3> QED BY <2>1, <3>1
  <2> HIDE DEF last
  <2>5. step <= last \div Unit /\ last \div Unit \in Int
    BY <2>1, <2>4, DivAtLeast, DivMod
  <2>6. IntPart(q) = step
    BY <1>0, <2>2, FloatExact
  <2> QED BY <1>4, <1>9, <2>2, <2>3, <2>5, <2>6 DEF Sample, Level
<1>5. CASE s = "SAWTOOTH" /\ q < 0
  <2> DEFINE u == -q
             t == u \div Unit
             r == u % Unit
             pq == p \div Unit
             pr == p % Unit
  <2> HIDE DEF u
  <2>1. u \in 1 .. p - 1 /\ q = -u /\ Unit \in Nat \ {0}
    BY <1>0, <1>5, SignalsAssumption DEF u
  <2>2. t \in Int /\ r \in 0 .. Unit - 1 /\ u = Unit * t + r
    BY <2>1, DivMod
  <2>3. pq \in Int /\ pr \in 0 .. Unit - 1 /\ p = Unit * pq + pr
    BY <1>0, <2>1, DivMod
  <2>4. Trunc(q) = -t
    BY <1>5 DEF Trunc, u
  <2>5. t \in Nat
    BY <2>1, DivNat
  <2> HIDE DEF t, r, pq, pr
  <2>6. Unit * t \in Int /\ Unit * pq \in Int
    BY <2>2, <2>3, <2>1
  <2>7. q - Unit * Trunc(q) = -r
    <3>1. Unit * (-t) = -(Unit * t)
      BY <2>2, <2>1
    <3> QED BY <2>1, <2>2, <2>4, <2>6, <3>1
  <2>8. MaxIntPhase(q, p) = IF pr <= -r THEN pq - 1 ELSE pq
    BY <1>0, <2>7, MaxIntPhaseOf DEF pq, pr
  <2>9. t <= pq
    BY <2>1, <2>5, <2>6, <2>2, DivAtLeast DEF pq
  <2>10. ASSUME pr <= -r PROVE t < pq /\ t > 0
    <3>1. u = Unit * t /\ p = Unit * pq
      BY <2>2, <2>3, <2>6, <2>10
    <3>2. t # pq /\ t # 0
      BY <2>1, <3>1
    <3> QED BY <2>2, <2>3, <2>5, <2>9, <3>2
  <2>11. IntPart(q) = -t
    BY <1>0, <2>4, FloatExact
  <2> QED BY <1>5, <1>9, <2>2, <2>3, <2>5, <2>8, <2>9, <2>10, <2>11 DEF Sample, Level
<1>6. CASE s = "STAIRSTEP"
  <2> DEFINE n == NormPhase(q, p) * 10
  <2>1. n \in Nat /\ n < p * 10
    BY <1>0, <1>1
  <2>2. Sample(s, q, p) = Level(9 - n \div p, 9)
    BY <1>6 DEF Sample
  <2> HIDE DEF n
  <2>3. n \div p \in Nat /\ n \div p < 10
    BY <1>0, <2>1, DivNat, DivLess
  <2> QED BY <2>2, <2>3 DEF Level
<1>7. CASE s = "SINE" BY <1>0, <1>1, <1>7 DEF Sample, Level
<1>8. CASE s = "TRIANGLE" BY <1>0, <1>1, <1>8 DEF Sample, Level, Abs
<1> QED BY <1>2, <1>3, <1>4, <1>5, <1>6, <1>7, <1>8 DEF Sources

-----------------------------------------------------------------------------
(* The phase of a signal *)

\* The phase is k samples after the start, modulo the period and within one;
\* what has not come to phase 0 yet has not passed it.
Reached(k, phase) ==
  LET now == startPhase + Unit * k
  IN /\ phase % srcPeriod = now % srcPeriod
     /\ IF k = 0 THEN phase = now ELSE phase \in 1 - srcPeriod .. srcPeriod - 1
     /\ IF now >= 0 THEN phase >= 0 ELSE phase >= now

\* The arguments and the phases of a period.
PhaseRange == {startPhase} \cup (1 - srcPeriod .. srcPeriod - 1)

SignalTypes ==
  /\ src \in Sources /\ srcPeriod \in Nat \ {0} /\ startPhase \in Int
  /\ srcPhase \in PhaseRange /\ samples \in Nat
  /\ src # "CONSTANT" => srcPeriod \in Periods

\* The inductive invariant: the last sample was taken one sample ago.
PhaseInv ==
  /\ SignalTypes
  /\ IF src = "CONSTANT" THEN srcPhase = startPhase ELSE Reached(samples, srcPhase)
  /\ samples > 0 =>
       \E q \in PhaseRange : /\ value = Sample(src, q, srcPeriod)
                             /\ src # "CONSTANT" => Reached(samples - 1, q)

\* C's fmod keeps the rest, stays within the period and does not pass 0.
LEMMA FmodPhase ==
  ASSUME NEW x \in Int, NEW p \in Nat \ {0}
  PROVE  LET f == Fmod(x, p)
         IN /\ f \in 1 - p .. p - 1 /\ f % p = x % p
            /\ IF x >= 0 THEN f >= 0 ELSE f >= x
<1>1. CASE x >= 0
  <2> DEFINE r == x % p
  <2>1. r \in 0 .. p - 1
    BY DivMod
  <2> HIDE DEF r
  <2>2. r \in Int /\ r = p * 0 + r
    BY <2>1
  <2>3. r = r % p
    BY <2>1, <2>2, Unique
  <2> QED BY <1>1, <2>1, <2>3 DEF Fmod, r
<1>2. CASE x < 0
  <2> DEFINE y == -x
             q == y \div p
             r == y % p
             f == -r
             k == -q
  <2>1. y \in Nat /\ x = -y
    BY <1>2
  <2> HIDE DEF y
  <2>2. q \in Nat /\ r \in 0 .. p - 1 /\ y = p * q + r
    <3>1. q \in Nat
      BY <2>1, DivNat
    <3>2. y \in Int /\ r \in 0 .. p - 1 /\ y = p * q + r
      BY <2>1, DivMod
    <3> QED BY <3>1, <3>2
  <2> HIDE DEF q, r
  <2>3. p * k = -(p * q) /\ p * q \in Nat /\ k \in Int
    BY <2>2
  <2> HIDE DEF k
  <2>4. x = f + p * k /\ f \in Int /\ f \in 1 - p .. p - 1 /\ f >= x
    BY <2>1, <2>2, <2>3
  <2> HIDE DEF f
  <2>5. x % p = f % p
    BY <2>3, <2>4, ModShift
  <2>6. Fmod(x, p) = f
    BY <1>2 DEF Fmod, f, r, y
  <2> QED BY <1>2, <2>4, <2>5, <2>6
<1> QED BY <1>1, <1>2

\* One more sample brings the phase a sample further.
LEMMA ReachedNext ==
  ASSUME NEW k \in Nat, NEW q \in Int, SignalTypes, Reached(k, q)
  PROVE  /\ Reached(k + 1, Fmod(q + Unit, srcPeriod))
         /\ Fmod(q + Unit, srcPeriod) \in 1 - srcPeriod .. srcPeriod - 1
<1> DEFINE now == startPhase + Unit * k
           x   == q + Unit
           f   == Fmod(x, srcPeriod)
<1>1. /\ now \in Int /\ x \in Int /\ Unit \in Nat /\ srcPeriod \in Nat \ {0} /\ startPhase \in Int
      /\ startPhase + Unit * (k + 1) = now + Unit
  <2>1. Unit * (k + 1) = Unit * k + Unit /\ Unit * k \in Int
    BY SignalsAssumption
  <2> QED BY <2>1, SignalsAssumption DEF SignalTypes
<1>2. /\ q % srcPeriod = now % srcPeriod
      /\ IF now >= 0 THEN q >= 0 ELSE q >= now
  BY DEF Reached
<1> HIDE DEF now
<1>3. x % srcPeriod = (now + Unit) % srcPeriod
  <2>1. q \in Int /\ Unit \in Int /\ now \in Int /\ srcPeriod \in Nat \ {0}
    BY <1>1
  <2>2. q % srcPeriod = now % srcPeriod
    BY <1>2
  <2>3. (q + Unit) % srcPeriod = (now + Unit) % srcPeriod
    BY <2>1, <2>2, ModPlus
  <2> QED BY <2>3 DEF x
<1>4. x >= 0 \/ (now + Unit < 0 /\ x >= now + Unit)
  BY <1>1, <1>2
<1> HIDE DEF x
<1>5. /\ f \in 1 - srcPeriod .. srcPeriod - 1 /\ f % srcPeriod = x % srcPeriod
      /\ IF x >= 0 THEN f >= 0 ELSE f >= x
  BY <1>1, FmodPhase
<1> HIDE DEF f
<1>6. IF now + Unit >= 0 THEN f >= 0 ELSE f >= now + Unit
  BY <1>1, <1>4, <1>5
<1> QED BY <1>1, <1>3, <1>5, <1>6 DEF Reached, f, x

\* The phase of the first sample is the argument.
LEMMA InitPhase == Init => PhaseInv
<1> SUFFICES ASSUME Init PROVE PhaseInv
  OBVIOUS
<1>1. /\ src \in Sources /\ srcPeriod \in Nat \ {0} /\ srcPhase \in Int
      /\ startPhase = srcPhase /\ samples = 0
      /\ src # "CONSTANT" => srcPeriod \in Periods
  <2>1. CASE SignalInit
    <3>1. srcPhase \in Int
      <4>1. Phases \subseteq Nat
        BY SignalsAssumption
      <4>2. srcPhase \in Phases \cup {-q : q \in Phases}
        BY <2>1 DEF SignalInit
      <4>3. CASE srcPhase \in Phases
        BY <4>1, <4>3
      <4>4. CASE srcPhase \in {-q : q \in Phases}
        <5>1. PICK q \in Phases : srcPhase = -q
          BY <4>4
        <5>2. q \in Nat
          BY <4>1
        <5> QED BY <5>1, <5>2
      <4> QED BY <4>2, <4>3, <4>4
    <3>2. srcPeriod \in Nat /\ srcPeriod >= 2 * Unit /\ 2 * Unit \in Nat \ {0}
      BY <2>1, SignalsAssumption DEF SignalInit
    <3> QED BY <2>1, <3>1, <3>2, SignalsAssumption DEF SignalInit
  <2>2. CASE src = "CONSTANT" /\ srcPeriod = 1 /\ srcPhase = 0 /\ startPhase = 0 /\ samples = 0
    BY <2>2 DEF Sources
  <2> QED BY <2>1, <2>2 DEF Init
<1>2. startPhase + Unit * samples = srcPhase
  BY <1>1, SignalsAssumption
<1> QED BY <1>1, <1>2 DEF PhaseInv, SignalTypes, PhaseRange, Reached

\* Every step keeps the invariant: the phase before the step is the one the
\* new sample was taken at.
LEMMA NextPhase == PhaseInv /\ [Next]_vars => PhaseInv'
<1> SUFFICES ASSUME PhaseInv, [Next]_vars PROVE PhaseInv'
  OBVIOUS
<1>1. CASE GetSample
  <2>1. /\ samples \in Nat /\ samples' = samples + 1 /\ value' = Sample(src, srcPhase, srcPeriod)
        /\ UNCHANGED <<src, srcPeriod, startPhase>>
        /\ srcPhase \in PhaseRange /\ PhaseRange' = PhaseRange
        /\ SignalTypes /\ srcPhase \in Int
    BY <1>1 DEF GetSample, PhaseInv, SignalTypes, PhaseRange
  <2>2. CASE src = "CONSTANT"
    BY <1>1, <2>1, <2>2 DEF GetSample, PhaseInv, SignalTypes
  <2>3. CASE src # "CONSTANT"
    <3>1. Reached(samples, srcPhase) /\ srcPhase' = Fmod(srcPhase + Unit, srcPeriod)
      BY <1>1, <2>3 DEF GetSample, PhaseInv
    <3>2. Reached(samples + 1, srcPhase') /\ srcPhase' \in 1 - srcPeriod .. srcPeriod - 1
      BY <2>1, <3>1, ReachedNext
    <3>3. Reached(samples, srcPhase)' /\ samples' - 1 = samples
      BY <2>1, <3>2 DEF Reached
    <3> QED BY <2>1, <2>3, <3>1, <3>2, <3>3 DEF PhaseInv, SignalTypes, Reached, PhaseRange
  <2> QED BY <2>2, <2>3
<1>2. CASE UNCHANGED signalVars
  BY <1>2 DEF signalVars, PhaseInv, SignalTypes, PhaseRange, Reached
<1> QED BY <1>1, <1>2 DEF Next, vars

\* Once settled, the last sample was taken within a period.
LEMMA SampledWithin ==
  ASSUME PhaseInv, samples > 0, Settled
  PROVE  \E q \in 1 - srcPeriod .. srcPeriod - 1 :
           /\ value = Sample(src, q, srcPeriod)
           /\ src # "CONSTANT" => Reached(samples - 1, q)
<1>1. PICK q \in PhaseRange : /\ value = Sample(src, q, srcPeriod)
                              /\ src # "CONSTANT" => Reached(samples - 1, q)
  BY DEF PhaseInv
<1>2. samples \in Nat /\ srcPeriod \in Nat \ {0} /\ startPhase \in Int
  BY DEF PhaseInv, SignalTypes
<1>3. CASE src = "CONSTANT"
  <2>1. 0 \in 1 - srcPeriod .. srcPeriod - 1 /\ value = Sample(src, 0, srcPeriod)
    BY <1>1, <1>2, <1>3 DEF Sample
  <2> QED BY <1>3, <2>1
<1>4. CASE src # "CONSTANT"
  <2>1. q \in 1 - srcPeriod .. srcPeriod - 1
    <3>1. CASE samples > 1 BY <1>1, <1>2, <1>4, <3>1 DEF Reached
    <3>2. CASE ~(samples > 1) BY <1>1, <1>2, <3>2 DEF Settled, PhaseRange
    <3> QED BY <3>1, <3>2
  <2> QED BY <1>1, <2>1
<1> QED BY <1>3, <1>4

\* What the exactness of the arithmetic says of the period.
LEMMA ExactPeriod ==
  ASSUME ExactArguments, PhaseInv, src # "CONSTANT"
  PROVE  srcPeriod \in 1 .. ExactMax /\ srcPeriod >= 2 * Unit
<1>1. srcPeriod \in Periods /\ srcPeriod \in Nat \ {0}
  BY DEF PhaseInv, SignalTypes
<1>2. srcPeriod \in 0 .. ExactMax
  BY <1>1 DEF ExactArguments
<1> QED BY <1>1, <1>2, SignalsAssumption

\* Where floats hold the arguments, the k-th sample is the wave at k samples
\* after its phase, for every unit, period and phase (Signal::get_sample).
THEOREM FollowsPhaseHolds == ASSUME ExactArguments PROVE Spec => []FollowsPhase
<1>1. PhaseInv => FollowsPhase
  <2> DEFINE now == Now
             ref == AtPhase(src, now % srcPeriod, srcPeriod)
  <2> SUFFICES ASSUME PhaseInv, samples > 0, Settled, src # "CONSTANT",
                      src = "SAWTOOTH" => now >= 0
               PROVE  value.num * ref.den = ref.num * value.den
    BY Zenon DEF FollowsPhase
  <2>1. PICK q \in 1 - srcPeriod .. srcPeriod - 1 :
          value = Sample(src, q, srcPeriod) /\ Reached(samples - 1, q)
    BY SampledWithin
  <2>2. q % srcPeriod = now % srcPeriod /\ (src = "SAWTOOTH" => q >= 0)
    BY <2>1 DEF Reached, Now
  <2>3. src \in Sources \ {"CONSTANT"} /\ srcPeriod \in 1 .. ExactMax
    BY ExactPeriod DEF PhaseInv, SignalTypes
  <2> QED BY <2>1, <2>2, <2>3, SampleIsWave
<1> QED BY <1>1, InitPhase, NextPhase, PTL DEF Spec

\* Where floats hold the arguments, no sample leaves the range between the two
\* values given, for every unit, period and phase (Signal::get_sample).
THEOREM WithinPeakHolds == ASSUME ExactArguments PROVE Spec => []WithinPeak
<1>1. PhaseInv => WithinPeak
  <2> SUFFICES ASSUME PhaseInv, samples > 0, Settled
               PROVE  value.den > 0 /\ value.num \in 0 .. value.den
    BY DEF WithinPeak
  <2>1. PICK q \in 1 - srcPeriod .. srcPeriod - 1 : value = Sample(src, q, srcPeriod)
    BY SampledWithin
  <2>2. CASE src = "CONSTANT"
    BY <2>1, <2>2 DEF Sample, Level
  <2>3. CASE src # "CONSTANT"
    <3>1. src \in Sources /\ srcPeriod \in 1 .. ExactMax /\ srcPeriod >= 2 * Unit
      BY <2>3, ExactPeriod DEF PhaseInv, SignalTypes
    <3> QED BY <2>1, <3>1, SampleInRange
  <2> QED BY <2>2, <2>3
<1> QED BY <1>1, InitPhase, NextPhase, PTL DEF Spec

-----------------------------------------------------------------------------
(* Sample rates *)

\* Half of a rounded quotient, with products instead.
LEMMA RoundBounds ==
  ASSUME NEW a \in Nat, NEW b \in Nat \ {0}
  PROVE  /\ Round(a, b) \in Nat
         /\ 2 * (b * Round(a, b)) <= 2 * a + b
         /\ 2 * a + b < 2 * (b * Round(a, b)) + 2 * b
<1> DEFINE x == 2 * a + b
           y == 2 * b
           q == x \div y
<1>1. x \in Nat /\ y \in Nat \ {0}
  OBVIOUS
<1>2. x = 2 * a + b /\ y = 2 * b
  OBVIOUS
<1> HIDE DEF x, y
<1>3. q \in Nat /\ x % y \in 0 .. y - 1 /\ x = y * q + (x % y)
  <2>1. q \in Nat
    BY <1>1, DivNat
  <2>2. x \in Int
    BY <1>1
  <2>3. x % y \in 0 .. y - 1 /\ x = y * q + (x % y)
    BY <1>1, <2>2, DivMod
  <2> QED BY <2>1, <2>3
<1>4. q = Round(a, b)
  BY DEF Round, x, y
<1> HIDE DEF q
<1>5. y * q = 2 * (b * q) /\ b * q \in Nat
  BY <1>2, <1>3
<1> QED BY <1>1, <1>2, <1>3, <1>4, <1>5

\* A quotient rounded up, multiplied again.
LEMMA CeilingBounds ==
  ASSUME NEW a \in Nat, NEW b \in Nat \ {0}
  PROVE  Ceiling(a, b) \in Nat /\ b * Ceiling(a, b) <= a + b - 1
<1> DEFINE x == a + b - 1
<1>1. x \in Nat
  OBVIOUS
<1> HIDE DEF x
<1>2. x \div b \in Nat /\ b * (x \div b) <= x
  BY <1>1, DivNat
<1> QED BY <1>2 DEF Ceiling, x

\* The clock is a whole number of ticks a second.
LEMMA Clocks == \A fw : Clock(fw) \in Nat
  BY SMTT(30) DEF Clock

\* The period is within the limits; unless it is at one of them it is half
\* the ticks of a sample.
LEMMA SamPerBounds ==
  ASSUME NEW fw, NEW r \in Nat \ {0}
  PROVE  /\ SamPer(fw, r) \in Nat \ {0} /\ MinPer <= SamPer(fw, r) /\ SamPer(fw, r) <= MaxPer
         /\ Round(Clock(fw), r) \in Nat
         /\ SamPer(fw, r) < MaxPer => Round(Clock(fw), r) <= 2 * SamPer(fw, r) + 1
         /\ SamPer(fw, r) > MinPer => 2 * SamPer(fw, r) <= Round(Clock(fw), r)
<1> DEFINE t == Round(Clock(fw), r)
           h == t \div 2
           p == SamPer(fw, r)
<1>1. t \in Nat
  BY Clocks, RoundBounds
<1> HIDE DEF t
<1>2. h \in Nat /\ 2 * h <= t /\ t <= 2 * h + 1
  BY <1>1
<1>3. p = Clamp(h)
  BY DEF SamPer, t
<1> HIDE DEF h, p
<1>4. p = IF h < MinPer THEN MinPer ELSE IF h > MaxPer THEN MaxPer ELSE h
  BY <1>3 DEF Clamp
<1>5. /\ p \in Nat \ {0} /\ MinPer <= p /\ p <= MaxPer
      /\ (p < MaxPer => t <= 2 * p + 1) /\ (p > MinPer => 2 * p <= t)
  BY <1>1, <1>2, <1>4, SMTT(30) DEF MinPer, MaxPer
<1> QED BY <1>1, <1>5 DEF p, t

\* What an execution about a rate is about.
RateInv == about = "rate" => fwver \in Firmwares /\ rate \in SampleRates

\* Nothing changes the rate.
LEMMA RateInvariant == Spec => []RateInv
<1>1. Init => RateInv
  BY DEF Init, RateInv
<1>2. RateInv /\ [Next]_vars => RateInv'
  BY DEF RateInv, Next, vars
<1> QED BY <1>1, <1>2, PTL DEF Spec

\* The period that configure() sets is within half a clock tick of the request,
\* for every request and both clocks (M1000_Device::configure).
THEOREM RateWithinHalfTickHolds == Spec => []RateWithinHalfTick
<1>1. RateInv => RateWithinHalfTick
  <2> DEFINE c == Clock(fwver)
             t == Round(c, rate)
             rt == rate * t
  <2> SUFFICES ASSUME RateInv, about = "rate"
               PROVE  /\ per < 24000 => c < 2 * (per + 1) * rate
                      /\ per > 240 => 4 * per * rate <= 2 * c + rate
    BY SMTT(30) DEF RateWithinHalfTick
  <2>1. rate \in Nat \ {0}
    BY ArithmeticAssumption DEF RateInv
  <2>2. /\ per \in Nat \ {0} /\ t \in Nat
        /\ per < 24000 => t <= 2 * per + 1
        /\ per > 240 => 2 * per <= t
    <3>1. /\ SamPer(fwver, rate) \in Nat \ {0} /\ Round(Clock(fwver), rate) \in Nat
          /\ SamPer(fwver, rate) < MaxPer => Round(Clock(fwver), rate) <= 2 * SamPer(fwver, rate) + 1
          /\ SamPer(fwver, rate) > MinPer => 2 * SamPer(fwver, rate) <= Round(Clock(fwver), rate)
      BY <2>1, SamPerBounds
    <3>2. /\ per \in Nat \ {0} /\ t \in Nat
          /\ per < MaxPer => t <= 2 * per + 1
          /\ per > MinPer => 2 * per <= t
      BY <3>1 DEF per
    <3> HIDE DEF t, c
    <3> QED BY <3>2, SMTT(30) DEF MinPer, MaxPer
  <2>3. c \in Nat
    BY Clocks
  <2> HIDE DEF c
  <2>4. 2 * rt <= 2 * c + rate /\ 2 * c + rate < 2 * rt + 2 * rate
    BY <2>1, <2>3, RoundBounds
  <2> HIDE DEF t
  <2>5. rt \in Nat
    BY <2>1, <2>2, SMTT(30)
  <2>6. ASSUME per < 24000 PROVE c < 2 * (per + 1) * rate
    <3>1. rt <= rate * (2 * per + 1)
      BY <2>1, <2>2, <2>6, TimesMono, SMTT(30)
    <3>2. /\ rate * per \in Nat /\ rate * (2 * per + 1) = 2 * (rate * per) + rate
          /\ 2 * (per + 1) * rate = 2 * (rate * per) + 2 * rate
      BY <2>1, <2>2, SMTT(30)
    <3> HIDE DEF rt
    <3> QED BY <2>1, <2>3, <2>4, <2>5, <3>1, <3>2
  <2>7. ASSUME per > 240 PROVE 4 * per * rate <= 2 * c + rate
    <3>1. rate * (2 * per) <= rt
      BY <2>1, <2>2, <2>7, TimesMono, SMTT(30)
    <3>2. rate * per \in Nat /\ rate * (2 * per) = 2 * (rate * per) /\ 4 * per * rate = 4 * (rate * per)
      BY <2>1, <2>2, SMTT(30)
    <3> HIDE DEF rt
    <3> QED BY <2>1, <2>3, <2>4, <2>5, <3>1, <3>2
  <2> QED BY <2>6, <2>7, SMTT(30)
<1> QED BY <1>1, RateInvariant, PTL

\* The clock in ticks of a millisecond, and the ticks of half of BUFFER_TIME.
LEMMA ClockParts ==
  ASSUME NEW fw
  PROVE  LET u == IF fw = "023314a*" THEN 3000 ELSE 48000
         IN Clock(fw) = 1000 * u /\ Clock(fw) \div 1000 = u /\ Clock(fw) \div 50 = 20 * u
  BY SMTT(30) DEF Clock

\* The rounding of the rate, over the whole capture, and the rest of its last
\* transfer take less than the spare second; u ticks are a millisecond.
Spare(fw, u, p, n) ==
  /\ Clock(fw) = 1000 * u /\ Clock(fw) \div 1000 = u /\ Clock(fw) \div 50 = 20 * u
  /\ SetRate(fw, p) \in Nat \ {0}
  /\ (n \div SetRate(fw, p) + 1) * p + 20 * u + 508 * p <= 1000 * u

\* Then the wait is enough.
LEMMA WaitCovers ==
  ASSUME NEW fw, NEW u \in Nat \ {0}, NEW p \in Nat \ {0}, NEW n \in Nat, Spare(fw, u, p, n)
  PROVE  LET spt   == SamplesPerTransfer(fw, p)
             whole == ((n + spt - 1) \div spt) * spt
         IN Duration(fw, p, whole) <= 1000 * EndWait(n, SetRate(fw, p))
<1> DEFINE sr    == SetRate(fw, p)
           k     == n \div sr
           ps    == p * sr
           P     == Packets(fw, p)
           pp    == p * P
           spt   == SamplesPerTransfer(fw, p)
           x     == n + spt - 1
           whole == (x \div spt) * spt
           pw    == p * whole
           pn    == p * n
           pk    == (k + 1) * p
           uk    == u * (k + 1)
<1>1. sr \in Nat \ {0}
  BY DEF Spare
<1>2. 2 * ps <= 1000 * u + p /\ ps \in Nat
  <2> DEFINE b == 2 * p
             bs == b * sr
  <2>1. b \in Nat \ {0} /\ 1000 * u \in Nat /\ sr = Round(1000 * u, b)
    BY DEF SetRate, Spare
  <2>2. 2 * bs <= 2 * (1000 * u) + b
    BY <2>1, RoundBounds
  <2>3. bs = 2 * ps /\ ps \in Nat
    BY <1>1
  <2> HIDE DEF ps, bs
  <2> QED BY <2>2, <2>3
<1> HIDE DEF sr
<1>3. k \in Nat /\ n + 1 <= sr * (k + 1)
  <2>1. k \in Nat /\ n = sr * k + (n % sr) /\ n % sr \in 0 .. sr - 1
    <3>1. n \in Int /\ sr \in Nat \ {0}
      BY <1>1
    <3>2. n = sr * k + (n % sr) /\ n % sr \in 0 .. sr - 1
      BY <3>1, DivMod
    <3>3. k \in Nat
      BY <3>1, DivNat
    <3> QED BY <3>2, <3>3
  <2>2. sr * (k + 1) = sr * k + sr /\ sr * k \in Nat /\ sr \in Nat
    BY <1>1, <2>1
  <2> HIDE DEF k
  <2> QED BY <2>1, <2>2
<1>4. pk + 20 * u + 508 * p <= 1000 * u
  BY DEF sr, Spare
<1> HIDE DEF k
<1>5. 2 * pn + 2 * p <= 1000 * uk + pk /\ pn \in Nat /\ uk \in Nat /\ pk \in Nat
  <2>1. p * (n + 1) <= p * (sr * (k + 1))
    <3>1. sr * (k + 1) \in Nat
      BY <1>1, <1>3
    <3> QED BY <1>3, <3>1, TimesMono
  <2>2. p * (n + 1) = pn + p /\ pn \in Nat
    OBVIOUS
  <2>3. p * (sr * (k + 1)) = ps * (k + 1) /\ ps * (k + 1) \in Nat
    BY <1>1, <1>3
  <2>4. (2 * ps) * (k + 1) <= (1000 * u + p) * (k + 1)
    BY <1>2, <1>3, TimesMono
  <2>5. /\ (2 * ps) * (k + 1) = 2 * (ps * (k + 1)) /\ uk \in Nat /\ pk \in Nat
        /\ (1000 * u + p) * (k + 1) = 1000 * uk + pk
    BY <1>2, <1>3
  <2> DEFINE psk == ps * (k + 1)
  <2>6. /\ pn + p <= psk /\ 2 * psk <= 1000 * uk + pk /\ psk \in Nat
        /\ pn \in Nat /\ uk \in Nat /\ pk \in Nat
    BY <2>1, <2>2, <2>3, <2>4, <2>5
  <2> HIDE DEF psk, pn, uk, pk
  <2> QED BY <2>6
<1>6. 512 * pp <= 20 * u + 512 * p - 1 /\ P \in Nat \ {0} /\ pp \in Nat
  <2> DEFINE b == p * 256 * 2
             a == 20 * u
             y == a + b - 1
  <2>1. b \in Nat \ {0} /\ b = 512 * p /\ a \in Nat \ {0} /\ P = Ceiling(a, b)
    BY DEF Packets, ChunkSize, Spare
  <2> HIDE DEF a, b
  <2>2. P \in Nat /\ b * P <= a + b - 1
    BY <2>1, CeilingBounds
  <2>3. y \in Int /\ b * 1 <= y
    BY <2>1
  <2> HIDE DEF y
  <2>4. 1 <= y \div b
    BY <2>1, <2>3, DivAtLeast
  <2>5. b * P = 512 * pp /\ pp \in Nat
    BY <2>1, <2>2
  <2> HIDE DEF P
  <2>6. P = y \div b
    BY <2>1 DEF Ceiling, y
  <2> HIDE DEF pp
  <2> QED BY <2>1, <2>2, <2>4, <2>5, <2>6 DEF a
<1>7. spt = 256 * P
  BY <1>6 DEF SamplesPerTransfer, ChunkSize
<1> HIDE DEF P, spt
<1>8. x \in Nat /\ spt \in Nat \ {0}
  BY <1>6, <1>7
<1>9. whole \in Nat /\ whole <= x
  <2>1. x \div spt \in Nat /\ spt * (x \div spt) <= x
    BY <1>8, DivNat
  <2> QED BY <1>8, <2>1
<1> HIDE DEF whole
<1>10. pw <= pn + 256 * pp - p /\ pw \in Nat
  <2>1. pw <= p * x /\ pw \in Nat
    BY <1>8, <1>9, TimesMono
  <2>2. p * x = pn + 256 * pp - p
    BY <1>6, <1>7
  <2> QED BY <2>1, <2>2
<1> HIDE DEF pw, pn, pp, pk, uk
<1>11. 2 * pw + u - 1 < 1000 * uk + 1000 * u + u
  BY <1>4, <1>5, <1>6, <1>10
<1>12. 2 * p * whole = 2 * pw
  BY <1>9 DEF pw
<1>13. u * (1000 * (k + 2) + 1) = 1000 * uk + 1000 * u + u
  BY <1>3 DEF uk
<1>14. (2 * pw + u - 1) \div u < 1000 * (k + 2) + 1
  <2> DEFINE z == 2 * pw + u - 1
             c == 1000 * (k + 2) + 1
  <2>1. z \in Int /\ c \in Int
    BY <1>3, <1>10
  <2>2. z < u * c
    BY <1>11, <1>13
  <2> HIDE DEF z, c
  <2>3. z \div u < c
    BY <2>1, <2>2, DivLess
  <2> QED BY <2>3 DEF z, c
<1>15. EndWait(n, sr) = k + 2 /\ Duration(fw, p, whole) = (2 * pw + u - 1) \div u
  BY <1>3, <1>12 DEF EndWait, Duration, Ceiling, k, Spare
<1>16. (2 * pw + u - 1) \div u \in Int
  BY <1>10
<1> QED BY <1>3, <1>14, <1>15, <1>16 DEF sr, whole, spt, x

\* A rounded clock rate is as large as its divisor is small.
LEMMA RateAtLeast ==
  ASSUME NEW c \in Nat, NEW p \in Nat \ {0}, NEW top \in Nat, NEW low \in Nat \ {0},
         p <= top, 4 * (top * (low - 1)) + 2 * top < 2 * c
  PROVE  Round(c, 2 * p) \in Nat /\ Round(c, 2 * p) >= low
<1> DEFINE b  == 2 * p
           sr == Round(c, b)
           l  == low - 1
           tl == top * l
           bs == b * sr
<1>1. b \in Nat \ {0} /\ b = 2 * p
  OBVIOUS
<1> HIDE DEF b
<1>2. sr \in Nat /\ 2 * c + b < 2 * bs + 2 * b
  BY <1>1, RoundBounds
<1> HIDE DEF sr
<1>3. ASSUME sr < low PROVE FALSE
  <2>1. b * sr <= b * l /\ b * sr \in Nat
    BY <1>1, <1>2, <1>3, TimesMono
  <2>2. p * l <= tl /\ p * l \in Nat /\ tl \in Nat
    BY TimesMono
  <2>3. b * l = 2 * (p * l)
    BY <1>1
  <2> HIDE DEF tl
  <2>4. 2 * c < 4 * tl + b
    BY <1>1, <1>2, <2>1, <2>2, <2>3
  <2> QED BY <1>1, <2>2, <2>4 DEF tl
<1> QED BY <1>1, <1>2, <1>3 DEF sr, b

\* A capture of moderate size leaves room within the wait.
LEMMA ModerateSpare ==
  ASSUME ModerateUse, NEW fw \in Firmwares, NEW r \in SampleRates, NEW n \in Captures,
         fw = "023314a*" => r >= 256
  PROVE  \E u \in Nat \ {0} : Spare(fw, u, SamPer(fw, r), n)
<1> DEFINE u  == IF fw = "023314a*" THEN 3000 ELSE 48000
           c  == Clock(fw)
           p  == SamPer(fw, r)
           t  == Round(c, r)
           sr == SetRate(fw, p)
           k  == n \div sr
<1>1. r \in Nat \ {0} /\ n \in Nat
  BY ArithmeticAssumption
<1>2. /\ p \in Nat \ {0} /\ MinPer <= p /\ p <= MaxPer /\ t \in Nat
      /\ p > MinPer => 2 * p <= t
  BY <1>1, SamPerBounds
<1>3. c = 1000 * u /\ c \div 1000 = u /\ c \div 50 = 20 * u
  BY ClockParts
<1>4. sr = Round(c, 2 * p)
  BY DEF SetRate
<1>5. CASE fw = "023314a*"
  <2>1. r >= 300 /\ n <= 20000 /\ u = 3000
    BY <1>1, <1>5, SMTT(30) DEF ModerateUse
  <2> HIDE DEF c, u
  <2>2. c = 3000000
    BY <1>3, <2>1, SMTT(30)
  <2>3. t <= 10000
    <3> DEFINE rt == r * t
    <3>1. 2 * rt <= 2 * c + r
      BY <1>1, <2>2, RoundBounds, SMTT(30)
    <3> HIDE DEF t
    <3>2. rt \in Nat
      BY <1>1, <1>2
    <3>3. ASSUME t > 10000 PROVE FALSE
      <4>1. r * 10001 <= rt
        BY <1>1, <1>2, <3>3, TimesMono, SMTT(30)
      <4> HIDE DEF rt
      <4> QED BY <1>1, <2>1, <2>2, <3>1, <3>2, <4>1, SMTT(30)
    <3> QED BY <1>2, <3>3, SMTT(30)
  <2> HIDE DEF t, p, sr, k
  <2>4. p \in Nat \ {0} /\ p <= 5000
    BY <1>2, <2>3, SMTT(30) DEF MinPer, MaxPer
  <2>5. sr \in Nat /\ sr >= 300
    BY <1>4, <2>2, <2>4, RateAtLeast, SMTT(30)
  <2>6. k \in Nat /\ k <= 66
    <3>1. 300 * 67 <= sr * 67
      BY <2>5, SMTT(30)
    <3>2. n < sr * 67
      BY <1>1, <2>1, <2>5, <3>1, SMTT(30)
    <3>3. n \div sr \in Nat /\ n \div sr < 67
      BY <1>1, <2>5, <3>2, DivNat, DivLess, SMTT(30)
    <3> QED BY <3>3, SMTT(30) DEF k
  <2>7. (k + 1) * p + 20 * u + 508 * p <= 1000 * u
    <3>1. (k + 1) * p <= 67 * p
      BY <2>4, <2>6, SMTT(30)
    <3>2. (k + 1) * p \in Nat
      BY <2>4, <2>6, SMTT(30)
    <3> QED BY <2>1, <2>4, <3>1, <3>2, SMTT(30)
  <2>8. u \in Nat \ {0} /\ sr \in Nat \ {0}
    BY <2>1, <2>5, SMTT(30)
  <2> QED BY <1>3, <2>7, <2>8 DEF Spare, sr, k, p, c
<1>6. CASE fw # "023314a*"
  <2>1. n <= 1000000 /\ u = 48000
    BY <1>6, SMTT(30) DEF ModerateUse
  <2> HIDE DEF c, u
  <2>2. c = 48000000
    BY <1>3, <2>1, SMTT(30)
  <2> HIDE DEF t, p, sr, k
  <2>3. p \in Nat \ {0} /\ p <= 24000
    BY <1>2, SMTT(30) DEF MinPer, MaxPer
  <2>4. sr \in Nat /\ sr >= 1000
    BY <1>4, <2>2, <2>3, RateAtLeast, SMTT(30)
  <2>5. k \in Nat /\ k <= 1000
    <3>1. 1000 * 1001 <= sr * 1001
      BY <2>4, SMTT(30)
    <3>2. n < sr * 1001
      BY <1>1, <2>1, <2>4, <3>1, SMTT(30)
    <3>3. n \div sr \in Nat /\ n \div sr < 1001
      BY <1>1, <2>4, <3>2, DivNat, DivLess, SMTT(30)
    <3> QED BY <3>3, SMTT(30) DEF k
  <2>6. (k + 1) * p + 20 * u + 508 * p <= 1000 * u
    <3>1. (k + 1) * p <= 1001 * p
      BY <2>3, <2>5, SMTT(30)
    <3>2. (k + 1) * p \in Nat
      BY <2>3, <2>5, SMTT(30)
    <3> QED BY <2>1, <2>3, <3>1, <3>2, SMTT(30)
  <2>7. u \in Nat \ {0} /\ sr \in Nat \ {0}
    BY <2>1, <2>4, SMTT(30)
  <2> QED BY <1>3, <2>6, <2>7 DEF Spare, sr, k, p, c
<1> QED BY <1>5, <1>6

\* The wait of end() outlasts every moderate capture of run() on a healthy
\* device (Session::run, Session::end, M1000_Device::configure).
THEOREM RunWaitSufficesHolds == ASSUME ModerateUse PROVE Spec => []RunWaitSuffices
<1>1. RateInv => RunWaitSuffices
  <2> SUFFICES ASSUME RateInv, about = "rate", fwver = "023314a*" => rate >= 256, NEW n \in Captures,
                      n < SamplesMod
               PROVE  LET spt   == SamplesPerTransfer(fwver, per)
                          whole == ((n + spt - 1) \div spt) * spt
                      IN Duration(fwver, per, whole) <= 1000 * EndWait(MSamples(n), set)
    BY SMTT(30) DEF RunWaitSuffices
  <2>1. fwver \in Firmwares /\ rate \in SampleRates /\ n \in Nat /\ rate \in Nat \ {0}
    BY ArithmeticAssumption DEF RateInv
  <2>2. per \in Nat \ {0} /\ set = SetRate(fwver, per)
    <3>1. per \in Nat \ {0}
      BY <2>1, SamPerBounds DEF per
    <3> QED BY <3>1 DEF set
  <2>3. PICK u \in Nat \ {0} : Spare(fwver, u, per, n)
    BY <2>1, ModerateSpare DEF per
  <2>4. MSamples(n) = n
    <3>1. n = SamplesMod * 0 + n /\ n \in 0 .. SamplesMod - 1 /\ n \in Int
      BY <2>1, SampleRateAssumption
    <3> QED BY <3>1, SampleRateAssumption, Unique DEF MSamples
  <2> QED BY <2>1, <2>2, <2>3, <2>4, WaitCovers
<1> QED BY <1>1, RateInvariant, PTL

-----------------------------------------------------------------------------
(* Firmware images *)

\* The number of pages written, and the position of a page's last word.
Pages(s)     == s \div 256 + 1
LastWord(k)  == 256 * k + 252

\* The words after which a page is committed are the last of each page.
LEMMA EndsAreLastWords ==
  ASSUME NEW s \in Nat
  PROVE  \A p : p \in Words(s) /\ PageEnds(p) <=> \E k \in 0 .. Pages(s) - 1 : p = LastWord(k)
<1> DEFINE m == Pages(s)
<1>1. m \in Nat \ {0} /\ FirmwareSize(s) = 256 * m
  BY SMTT(30) DEF Pages, FirmwareSize, PageSize
<1> HIDE DEF m
<1>2. ASSUME NEW p, p \in Words(s), PageEnds(p)
      PROVE  \E k \in 0 .. m - 1 : p = LastWord(k)
  <2>1. p \in 0 .. 256 * m - 1 /\ p % 4 = 0 /\ (p % 256) \div 4 = 63
    BY <1>1, <1>2, SMTT(30) DEF Words, WordSize, PageSize, PageEnds
  <2> DEFINE k == p \div 256
  <2>2. k \in 0 .. m - 1 /\ p = 256 * k + 252
    BY <1>1, <2>1, SMTT(30)
  <2> QED BY <2>2 DEF LastWord
<1>3. ASSUME NEW k \in 0 .. m - 1
      PROVE  LastWord(k) \in Words(s) /\ PageEnds(LastWord(k))
  <2>1. LastWord(k) \in 0 .. 256 * m - 1 /\ LastWord(k) % 4 = 0 /\ LastWord(k) % 256 = 252
    BY <1>1, <1>3, SMTT(30) DEF LastWord
  <2> QED BY <1>1, <2>1, SMTT(30) DEF Words, WordSize, PageSize, PageEnds
<1> QED BY <1>2, <1>3 DEF m

\* As many last words precede one as its page has predecessors.
LEMMA PageNumber ==
  ASSUME NEW s \in Nat, NEW k \in 0 .. Pages(s) - 1
  PROVE  Cardinality({p \in Words(s) : p < LastWord(k) /\ PageEnds(p)}) = k
<1> DEFINE earlier == {p \in Words(s) : p < LastWord(k) /\ PageEnds(p)}
           f == [j \in 1 .. k |-> LastWord(j - 1)]
<1>1. Pages(s) \in Nat
  BY SMTT(30) DEF Pages
<1>2. \A p : p \in earlier <=> \E i \in 0 .. k - 1 : p = LastWord(i)
  <2>1. ASSUME NEW p \in earlier PROVE \E i \in 0 .. k - 1 : p = LastWord(i)
    <3>1. PICK i \in 0 .. Pages(s) - 1 : p = LastWord(i)
      BY EndsAreLastWords
    <3>2. p < LastWord(k)
      BY <2>1
    <3> HIDE DEF earlier
    <3>3. i \in 0 .. k - 1
      BY <1>1, <3>1, <3>2, SMTT(30) DEF LastWord
    <3> QED BY <3>1, <3>3
  <2>2. ASSUME NEW i \in 0 .. k - 1 PROVE LastWord(i) \in earlier
    <3>1. i \in 0 .. Pages(s) - 1 /\ LastWord(i) < LastWord(k)
      BY <1>1, SMTT(30) DEF LastWord
    <3> QED BY <3>1, EndsAreLastWords
  <2> QED BY <2>1, <2>2
<1> HIDE DEF earlier
<1>3. f \in [1 .. k -> earlier]
  <2>1. \A i \in 1 .. k : i - 1 \in 0 .. k - 1
    BY <1>1
  <2> QED BY <1>2, <2>1
<1>4. \A i, j \in 1 .. k : f[i] = f[j] => i = j
  BY <1>1, SMTT(30) DEF LastWord
<1>5. \A p \in earlier : \E i \in 1 .. k : f[i] = p
  <2> TAKE p \in earlier
  <2>1. PICK i \in 0 .. k - 1 : p = LastWord(i)
    BY <1>2
  <2>2. i + 1 \in 1 .. k /\ (i + 1) - 1 = i
    BY <1>1
  <2>3. f[i + 1] = p
    BY <2>1, <2>2
  <2> QED BY <2>2, <2>3
<1>6. ExistsBijection(1 .. k, earlier)
  <2> HIDE DEF f
  <2>1. f \in Injection(1 .. k, earlier) /\ f \in Surjection(1 .. k, earlier)
    BY <1>3, <1>4, <1>5 DEF Injection, Surjection, IsInjective
  <2> QED BY <2>1 DEF ExistsBijection, Bijection
<1>7. k \in Nat
  BY <1>1
<1> QED BY <1>6, <1>7, FS_CountingElements DEF earlier

\* The commits are those of the pages, by number.
LEMMA CommitsArePages ==
  ASSUME NEW s \in Nat
  PROVE  \A c : c \in Commits(s) <=> \E k \in 0 .. Pages(s) - 1 : c = <<LastWord(k), k>>
<1>1. ASSUME NEW c \in Commits(s) PROVE \E k \in 0 .. Pages(s) - 1 : c = <<LastWord(k), k>>
  <2>1. PICK p \in {p \in Words(s) : PageEnds(p)} :
          c = <<p, Cardinality({q \in Words(s) : q < p /\ PageEnds(q)})>>
    BY DEF Commits
  <2>2. PICK k \in 0 .. Pages(s) - 1 : p = LastWord(k)
    BY <2>1, EndsAreLastWords
  <2> QED BY <2>1, <2>2, PageNumber
<1>2. ASSUME NEW k \in 0 .. Pages(s) - 1 PROVE <<LastWord(k), k>> \in Commits(s)
  <2>1. LastWord(k) \in {p \in Words(s) : PageEnds(p)}
    BY EndsAreLastWords
  <2> QED BY <2>1, PageNumber DEF Commits
<1> QED BY <1>1, <1>2

\* What an execution about a firmware file is about.
SizeInv == about = "size" => size \in Sizes

\* Nothing changes the file.
LEMMA SizeInvariant == Spec => []SizeInv
<1>1. Init => SizeInv
  BY DEF Init, SizeInv
<1>2. SizeInv /\ [Next]_vars => SizeInv'
  BY DEF SizeInv, Next, vars
<1> QED BY <1>1, <1>2, PTL DEF Spec

\* Every byte of a file is committed exactly once, in the page of its number,
\* and the numbers have two digits (Session::flash_firmware).
THEOREM PagesCoverFileHolds == ASSUME SmallImages PROVE Spec => []PagesCoverFile
<1>1. SizeInv => PagesCoverFile
  <2> SUFFICES ASSUME SizeInv, about = "size"
               PROVE  /\ \A byte \in 0 .. size - 1 :
                           LET page == byte \div PageSize
                           IN {c \in Commits(size) : c[2] = page}
                                = {<<(page + 1) * PageSize - WordSize, page>>}
                      /\ \A c \in Commits(size) : Digits(c[2]) = 2
    BY SMTT(30) DEF PagesCoverFile
  <2>1. size \in Nat /\ size <= 65535
    <3>1. size \in Sizes
      BY DEF SizeInv
    <3>2. size \in 0 .. MaxFile
      BY <3>1 DEF SmallImages
    <3>3. size \in Nat /\ size <= MaxFile
      BY <3>2, SMTT(30)
    <3> QED BY <3>3, SMTT(30) DEF MaxFile
  <2>2. Pages(size) \in 1 .. 256
    BY <2>1, SMTT(30) DEF Pages
  <2>3. ASSUME NEW byte \in 0 .. size - 1
        PROVE  LET page == byte \div PageSize
               IN {c \in Commits(size) : c[2] = page}
                    = {<<(page + 1) * PageSize - WordSize, page>>}
    <3> DEFINE page == byte \div PageSize
    <3>1. page \in 0 .. Pages(size) - 1 /\ LastWord(page) = (page + 1) * PageSize - WordSize
      BY <2>1, SMTT(30) DEF Pages, LastWord, PageSize, WordSize
    <3> HIDE DEF page
    <3>2. <<LastWord(page), page>> \in Commits(size)
      BY <2>1, <3>1, CommitsArePages
    <3>3. \A c \in Commits(size) : c[2] = page => c = <<LastWord(page), page>>
      BY <2>1, CommitsArePages
    <3>4. {c \in Commits(size) : c[2] = page} = {<<LastWord(page), page>>}
      BY <3>2, <3>3
    <3> QED BY <3>1, <3>4 DEF page
  <2>4. ASSUME NEW c \in Commits(size) PROVE Digits(c[2]) = 2
    <3>1. c[2] \in 0 .. Pages(size) - 1
      BY <2>1, CommitsArePages
    <3> QED BY <2>2, <3>1, SMTT(30) DEF Digits
  <2> QED BY <2>3, <2>4
<1> QED BY <1>1, SizeInvariant, PTL

=============================================================================
