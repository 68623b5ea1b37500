------------------------------ MODULE SampleRate ------------------------------
(***************************************************************************)
(* M1000_Device::configure (src/src/device_m1000.cpp): the period, in      *)
(* clock ticks, and the transfer size for a sample rate; and the time that *)
(* Session::end allows a capture at that rate.                             *)
(*                                                                         *)
(* The doubles of the code are quotients of integers here.                 *)
(***************************************************************************)
EXTENDS Integers

CONSTANT SamplesMod    \* 2^32, the values of m_samples

ASSUME SampleRateAssumption == SamplesMod \in Nat \ {0}

\* The limits of m_sam_per, and the samples of a packet.
MinPer == 240
MaxPer == 24000
ChunkSize == 256

\* The timer clock of initial production firmware and of any later one.
Clock(fwver) == IF fwver = "023314a*" THEN 3000000 ELSE 48000000

GetDefaultRate(fwver) == IF fwver = "023314a*" THEN 62500 ELSE 100000

\* C's round and ceil of a quotient.
Round(a, b)   == (2 * a + b) \div (2 * b)
Ceiling(a, b) == (a + b - 1) \div b
Clamp(x)      == IF x < MinPer THEN MinPer ELSE IF x > MaxPer THEN MaxPer ELSE x

\* Mutant: half a period is rounded up.
SamPerUp(fwver, rate) == Clamp((Round(Clock(fwver), rate) + 1) \div 2)
\* m_sam_per: half the clock ticks between samples.
SamPer(fwver, rate) == Clamp(Round(Clock(fwver), rate) \div 2)

\* set_sample_rate, which configure() returns.
SetRate(fwver, per) == Round(Clock(fwver), 2 * per)

\* m_packets_per_transfer: two transfers hold BUFFER_TIME, 20 ms.
Packets(fwver, per) == Ceiling(Clock(fwver) \div 50, per * ChunkSize * 2)

SamplesPerTransfer(fwver, per) == Packets(fwver, per) * ChunkSize

\* m_samples, which run() sets to its argument and nothing else sets: start()
\* leaves there what the last run() put, or what the memory held.
MSamples(samples) == samples % SamplesMod

\* Mutant: no allowance for the transfer that completes a capture.
EndWaitExact(m_samples, rate) == m_samples \div rate
\* Session::end waits that many seconds.
EndWait(m_samples, rate) == m_samples \div rate + 1 + 1

\* Milliseconds in which the device takes that many samples, rounded up.
Duration(fwver, per, samples) ==
  Ceiling(2 * per * samples, Clock(fwver) \div 1000)

=============================================================================
