--------------------------- MODULE ReadPathProofs ---------------------------
(***************************************************************************)
(* ReadPath is type correct, its count of available samples is exact, and  *)
(* it implements SampleFeed, for every queue, transfer and capture size.   *)
(***************************************************************************)
EXTENDS ReadPathRefines, SequenceTheorems, TLAPS

-----------------------------------------------------------------------------
(* The inductive invariant *)

\* m_state is held just while a transfer is handled.
StateHeld == state = (IF epc = "idle" THEN "none" ELSE "usb")

\* A transfer has the sample in progress still to go.
BumpLeft == epc = "bump" => left > 0

\* What is to be popped has been counted as available; counting lags behind
\* queueing, so it is in the queue.
TakeCounted == avail \in Nat /\ (upc \in {"skipping", "pop"} => take <= avail)

\* A loss is reported as long as the exception about it is there.
LossStored == lost # 0 => ePtr

IInv == TypeOK /\ StateHeld /\ BumpLeft /\ AvailExact /\ TakeCounted /\ LossStored

-----------------------------------------------------------------------------
(* Sequences of samples *)

\* Appending a sample adds one to the length.
LEMMA Appended ==
  \A s \in Seq(Nat), n \in Nat : Append(s, n) \in Seq(Nat) /\ Len(Append(s, n)) = Len(s) + 1
BY AppendProperties

\* Popping takes one off the length, of a queue that is not empty.
LEMMA PoppedOff ==
  \A s \in Seq(Nat) :
    /\ Len(s) \in Nat
    /\ s # <<>> <=> Len(s) > 0
    /\ s # <<>> => /\ Head(s) \in Nat /\ Tail(s) \in Seq(Nat)
                   /\ Len(Tail(s)) = Len(s) - 1
BY HeadTailProperties, EmptySeq, LenProperties

\* Popping once is giving up the oldest.
LEMMA DropFirst ==
  ASSUME NEW s \in Seq(Nat), s # <<>>
  PROVE  SubSeq(s, 2, Len(s)) = Tail(s)
<1>1. /\ Len(s) \in Nat /\ Len(s) > 0
      /\ \A i \in 1 .. Len(s) : s[i] \in Nat
  BY EmptySeq, LenProperties, ElementOfSeq
<1>2. /\ Tail(s) \in Seq(Nat) /\ Len(Tail(s)) = Len(s) - 1
      /\ \A i \in 1 .. Len(Tail(s)) : Tail(s)[i] = s[i + 1]
  BY HeadTailProperties
<1> DEFINE m == 2
           n == Len(s)
           v == SubSeq(s, m, n)
<1>3. m \in Int /\ n \in Int /\ \A i \in m .. n : s[i] \in Nat
  BY <1>1
<1> HIDE DEF m, n
<1>4. /\ v \in Seq(Nat) /\ Len(v) = IF m <= n THEN n - m + 1 ELSE 0
      /\ \A i \in 1 .. n - m + 1 : v[i] = s[m + i - 1]
  BY <1>3, SubSeqProperties, SMTT(30)
<1> HIDE DEF v
<1>5. Len(v) = Len(s) - 1
  <2>1. m = 2 /\ n \in Nat /\ n > 0
    BY <1>1 DEF m, n
  <2>2. Len(v) = n - 1
    BY <1>4, <2>1
  <2> QED BY <2>2 DEF n
<1>6. ASSUME NEW i \in 1 .. Len(v)
      PROVE  v[i] = Tail(s)[i]
  <2>1. i \in 1 .. n - m + 1 /\ i \in 1 .. Len(Tail(s))
    <3>1. m = 2 /\ n = Len(s) /\ i \in 1 .. n - 1 /\ n \in Nat
      BY <1>1, <1>5 DEF m, n
    <3> QED BY <1>2, <3>1
  <2>2. m + i - 1 = i + 1
    BY DEF m
  <2> QED BY <1>2, <1>4, <2>1, <2>2
<1>7. v = Tail(s)
  BY <1>2, <1>4, <1>5, <1>6, SeqEqual
<1> QED BY <1>7 DEF v, m, n

\* Nothing is left of a queue when all of it is given up.
LEMMA DropAll ==
  ASSUME NEW s \in Seq(Nat)
  PROVE  SubSeq(s, Len(s) + 1, Len(s)) = <<>>
<1>1. Len(s) \in Nat /\ \A i \in Len(s) + 1 .. Len(s) : s[i] \in Nat
  BY LenProperties
<1> DEFINE m == Len(s) + 1
           n == Len(s)
           v == SubSeq(s, m, n)
<1>2. m \in Int /\ n \in Int /\ ~(m <= n) /\ \A i \in m .. n : s[i] \in Nat
  BY <1>1
<1> HIDE DEF m, n
<1>3. v \in Seq(Nat) /\ Len(v) = IF m <= n THEN n - m + 1 ELSE 0
  BY <1>2, SubSeqProperties, SMTT(30)
<1>4. v = <<>>
  BY <1>2, <1>3, EmptySeq
<1> QED BY <1>4 DEF v, m, n

-----------------------------------------------------------------------------
(* Invariance *)

\* The invariant holds at the beginning.
LEMMA InitIInv == Init => IInv
<1> SUFFICES ASSUME Init PROVE IInv
  OBVIOUS
<1>1. q \in Seq(Nat) /\ Len(q) = 0
  BY EmptySeq, LenProperties DEF Init
<1>2. TypeOK
  <2>1. blocking \in BOOLEAN /\ ePtr \in BOOLEAN /\ sampling \in BOOLEAN
    BY DEF Init
  <2>2. upc \in UserPCs /\ epc \in {"idle", "sample", "bump"} /\ state \in {"none", "usb"}
    BY DEF Init, UserPCs
  <2> QED BY <1>1, <2>1, <2>2 DEF Init, TypeOK
<1> QED BY <1>1, <1>2
  DEF Init, IInv, StateHeld, BumpLeft, AvailExact, TakeCounted, LossStored

\* The calls keep it.
LEMMA CallsKeepIInv == IInv /\ Calls => IInv'
<1> SUFFICES ASSUME IInv, Calls PROVE IInv'
  OBVIOUS
<1> USE DEF IInv, TypeOK, UserPCs, StateHeld, BumpLeft, AvailExact, TakeCounted,
            LossStored
<1>1. CASE CallEnd
  BY <1>1 DEF CallEnd, readVars, usbVars, queueVars
<1>2. CASE CallFlush
  <2>1. <<>> \in Seq(Nat) /\ Len(<<>>) = 0
    BY EmptySeq
  <2> QED BY <1>2, <2>1 DEF CallFlush, UserFrame, readVars, usbVars, captureVars
<1>3. CASE CallWrite
  BY <1>3 DEF CallWrite, UserFrame, readVars, usbVars, captureVars, queueVars
<1>4. ASSUME NEW n \in Counts, CallStart(n)
      PROVE  IInv'
  <2>1. n \in Nat /\ SPT \in Nat \ {0}
    BY ReadPathAssumption
  <2>2. TransfersFor(n) \in Nat
    BY <2>1 DEF TransfersFor
  <2> QED BY <1>4, <2>1, <2>2 DEF CallStart, readVars, queueVars
<1>5. ASSUME NEW n \in Wants, NEW block \in Blockings, NEW skip \in Skips,
             CallRead(n, block, skip)
      PROVE  IInv'
  <2>1. n \in Nat /\ block \in BOOLEAN
    BY ReadPathAssumption
  <2> QED BY <1>5, <2>1 DEF CallRead, UserFrame, usbVars, captureVars, queueVars
<1> QED BY <1>1, <1>2, <1>3, <1>4, <1>5 DEF Calls

\* Each step of read() and write() keeps it.
LEMMA UserKeepsIInv == IInv /\ UserStep => IInv'
<1> SUFFICES ASSUME IInv, UserStep PROVE IInv'
  OBVIOUS
<1> USE DEF IInv, TypeOK, UserPCs, StateHeld, BumpLeft, AvailExact, TakeCounted,
            LossStored, UserFrame, readVars, usbVars, captureVars, queueVars
<1>1. CASE SkipLook
  BY <1>1 DEF SkipLook
<1>2. CASE SkipPop
  <2>1. take \in Nat /\ take <= avail /\ avail \in Nat /\ take > 0 /\ Len(q) >= avail
    BY <1>2 DEF SkipPop
  <2>2. q # <<>>
    BY <2>1, PoppedOff
  <2> QED BY <1>2, <2>1, <2>2, PoppedOff DEF SkipPop, Rest
<1>3. CASE SkipDone
  BY <1>3 DEF SkipDone
<1>4. CASE Look
  BY <1>4 DEF Look
<1>5. CASE LoadAvail
  BY <1>5 DEF LoadAvail
<1>6. CASE PopSample
  <2>1. take \in Nat /\ take <= avail /\ avail \in Nat /\ take > 0 /\ Len(q) >= avail
    BY <1>6 DEF PopSample
  <2>2. q # <<>>
    BY <2>1, PoppedOff
  <2>3. (remaining - 1) % Width \in Nat
    BY ReadPathAssumption
  <2> QED BY <1>6, <2>1, <2>2, <2>3, PoppedOff DEF PopSample, Rest, Popped
<1>7. CASE Fulfilled
  BY <1>7 DEF Fulfilled
<1>8. CASE OutOfTime
  BY <1>8 DEF OutOfTime
<1>9. CASE GoOn
  BY <1>9 DEF GoOn
<1>10. CASE CopyException
  BY <1>10 DEF CopyException
<1>11. CASE Rethrow
  BY <1>11 DEF Rethrow
<1>12. CASE ReturnSamples
  BY <1>12 DEF ReturnSamples
<1> QED BY <1>1, <1>2, <1>3, <1>4, <1>5, <1>6, <1>7, <1>8, <1>9, <1>10, <1>11, <1>12
  DEF UserStep

\* Each step of the USB thread keeps it.
LEMMA UsbKeepsIInv == IInv /\ UsbStep => IInv'
<1> SUFFICES ASSUME IInv, UsbStep PROVE IInv'
  OBVIOUS
<1> USE DEF IInv, TypeOK, UserPCs, StateHeld, BumpLeft, AvailExact, TakeCounted,
            LossStored, UsbFrame, readVars, captureVars, queueVars, Counted
<1>1. CASE TransferArrives
  BY <1>1, ReadPathAssumption DEF TransferArrives
<1>2. CASE PushSample
  BY <1>2, Appended DEF PushSample
<1>3. CASE BumpAvail
  BY <1>3 DEF BumpAvail
<1>4. CASE SurplusSample
  BY <1>4 DEF SurplusSample
<1>5. CASE DropTransfer
  BY <1>5 DEF DropTransfer
<1>6. CASE TransferDone
  BY <1>6 DEF TransferDone
<1> QED BY <1>1, <1>2, <1>3, <1>4, <1>5, <1>6 DEF UsbStep

\* Every step keeps it.
LEMMA NextIInv == IInv /\ [Next]_vars => IInv'
<1> SUFFICES ASSUME IInv, [Next]_vars PROVE IInv'
  OBVIOUS
<1>1. CASE Next
  BY <1>1, CallsKeepIInv, UserKeepsIInv, UsbKeepsIInv DEF Next
<1>2. CASE UNCHANGED vars
  BY <1>2 DEF vars, readVars, usbVars, captureVars, queueVars, IInv, TypeOK, StateHeld,
    BumpLeft, AvailExact, TakeCounted, LossStored
<1> QED BY <1>1, <1>2

\* The invariant of the read path.
LEMMA Invariance == Spec => []IInv
BY InitIInv, NextIInv, PTL DEF Spec

-----------------------------------------------------------------------------
(* What it is for *)

\* Every variable has its type (device_m1000.hpp:80-110).
THEOREM ReadTypeCorrect == Spec => []TypeOK
<1>1. IInv => TypeOK
  BY DEF IInv
<1> QED BY <1>1, Invariance, PTL

\* m_in_samples_avail never promises a sample that is not in the queue.
THEOREM ReadAvailExact == Spec => []AvailExact
<1>1. IInv => AvailExact
  BY DEF IInv
<1> QED BY <1>1, Invariance, PTL

\* read() pops no more than the queue holds.
THEOREM ReadPopsWhatIsThere == Spec => []PopsWhatIsThere
<1>1. IInv => PopsWhatIsThere
  <2> SUFFICES ASSUME IInv, upc \in {"skipping", "pop"} PROVE take <= Len(q)
    BY DEF PopsWhatIsThere
  <2>1. Len(q) \in Nat /\ avail \in Nat /\ take \in Nat /\ take <= avail
    BY PoppedOff DEF IInv, TypeOK, TakeCounted
  <2> QED BY <2>1 DEF IInv, AvailExact
<1> QED BY <1>1, Invariance, PTL

-----------------------------------------------------------------------------
(* The refinement *)

\* The read path starts as the feed does.
LEMMA InitFeed == Init => Feed!Init
BY DEF Init, Asked, Feed!Init, Feed!Unlimited

\* The calls begin captures, report losses and give samples up.
LEMMA CallsImplement == IInv /\ Calls => [Feed!Next]_(Feed!vars)
<1> SUFFICES ASSUME IInv, Calls PROVE Feed!Next \/ UNCHANGED Feed!vars
  OBVIOUS
<1> USE DEF Feed!vars, Asked
<1>1. CASE CallEnd
  BY <1>1 DEF CallEnd, readVars, usbVars, queueVars, Feed!Next, Feed!Report
<1>2. CASE CallFlush
  <2>1. q \in Seq(Nat) /\ Len(q) \in Nat /\ (q # <<>> <=> Len(q) > 0)
    BY PoppedOff DEF IInv, TypeOK
  <2>2. /\ q' = <<>>
        /\ UNCHANGED <<inNo, count, made, last, returned, lost>>
    BY <1>2 DEF CallFlush, UserFrame, readVars, usbVars, captureVars
  <2>3. CASE q = <<>>
    BY <2>2, <2>3
  <2>4. CASE q # <<>>
    <3>1. Len(q) \in 1 .. Len(q)
      BY <2>1, <2>4
    <3>2. Feed!Discard(Len(q))
      BY <2>1, <2>2, DropAll DEF Feed!Discard
    <3> QED BY <3>1, <3>2 DEF Feed!Next
  <2> QED BY <2>3, <2>4
<1>3. CASE CallWrite
  BY <1>3 DEF CallWrite, UserFrame, readVars, usbVars, captureVars, queueVars
<1>4. ASSUME NEW n \in Counts, CallStart(n)
      PROVE  Feed!Next
  <2>1. n \in Nat
    BY ReadPathAssumption
  <2>2. Feed!Ask
    BY <1>4, <2>1 DEF CallStart, readVars, queueVars, Feed!Ask
  <2> QED BY <2>2 DEF Feed!Next
<1>5. ASSUME NEW n \in Wants, NEW block \in Blockings, NEW skip \in Skips,
             CallRead(n, block, skip)
      PROVE  UNCHANGED Feed!vars
  BY <1>5 DEF CallRead, UserFrame, usbVars, captureVars, queueVars
<1> QED BY <1>1, <1>2, <1>3, <1>4, <1>5 DEF Calls

\* read() delivers the oldest sample, gives it up, or does not touch the feed.
LEMMA UserImplements == IInv /\ UserStep => [Feed!Next]_(Feed!vars)
<1> SUFFICES ASSUME IInv, UserStep PROVE Feed!Next \/ UNCHANGED Feed!vars
  OBVIOUS
<1> USE DEF Feed!vars, Asked, UserFrame, readVars, usbVars, captureVars, queueVars
<1>1. ASSUME upc \in {"skipping", "pop"}, take > 0
      PROVE  /\ q \in Seq(Nat) /\ q # <<>>
             /\ 1 \in 1 .. Len(q)
  <2>1. q \in Seq(Nat) /\ take \in Nat /\ take <= avail /\ avail \in Nat /\ Len(q) >= avail
    BY <1>1 DEF IInv, TypeOK, TakeCounted, AvailExact
  <2>2. Len(q) \in Nat /\ Len(q) > 0
    BY <1>1, <2>1, PoppedOff
  <2> QED BY <2>1, <2>2, PoppedOff
<1>2. CASE SkipPop
  <2>1. q \in Seq(Nat) /\ q # <<>> /\ 1 \in 1 .. Len(q)
    BY <1>1, <1>2 DEF SkipPop
  <2>2. q' = SubSeq(q, 1 + 1, Len(q))
    BY <1>2, <2>1, DropFirst DEF SkipPop, Rest
  <2>3. Feed!Discard(1)
    BY <1>2, <2>2 DEF SkipPop, Feed!Discard
  <2> QED BY <2>1, <2>3 DEF Feed!Next
<1>3. CASE PopSample
  <2>1. q \in Seq(Nat) /\ q # <<>>
    BY <1>1, <1>3 DEF PopSample
  <2>2. Feed!Deliver
    BY <1>3, <2>1 DEF PopSample, Rest, Popped, Feed!Deliver
  <2> QED BY <2>2 DEF Feed!Next
<1>4. CASE Rethrow
  BY <1>4 DEF Rethrow, Feed!Next, Feed!Report
<1>5. CASE ReturnSamples
  <2>1. lost = 0
    BY <1>5 DEF ReturnSamples, IInv, LossStored
  <2> QED BY <1>5, <2>1 DEF ReturnSamples, Feed!Next, Feed!ReturnSamples
<1>6. CASE SkipLook \/ SkipDone \/ Look \/ LoadAvail
  BY <1>6 DEF SkipLook, SkipDone, Look, LoadAvail
<1>7. CASE Fulfilled \/ OutOfTime \/ GoOn \/ CopyException
  BY <1>7 DEF Fulfilled, OutOfTime, GoOn, CopyException
<1> QED BY <1>2, <1>3, <1>4, <1>5, <1>6, <1>7 DEF UserStep

\* handle_in_transfer keeps, ignores or loses the samples that arrive.
LEMMA UsbImplements == IInv /\ UsbStep => [Feed!Next]_(Feed!vars)
<1> SUFFICES ASSUME IInv, UsbStep PROVE Feed!Next \/ UNCHANGED Feed!vars
  OBVIOUS
<1> USE DEF Feed!vars, UsbFrame, readVars, captureVars, queueVars
<1>1. count \in Nat /\ inNo \in Nat /\ made \in Nat /\ left \in Nat
  BY DEF IInv, TypeOK
<1>2. CASE TransferArrives
  BY <1>2 DEF TransferArrives, Asked
<1>3. CASE PushSample
  <2>1. Asked # 0 /\ Asked' = IF Asked = -1 THEN Asked ELSE Asked - 1
    BY <1>1, <1>3 DEF PushSample, AskedFor, Counted, Asked
  <2>2. Feed!Arrive
    BY <1>3, <2>1 DEF PushSample, Feed!Arrive, Feed!Unlimited
  <2> QED BY <2>2 DEF Feed!Next
<1>4. CASE BumpAvail
  BY <1>4 DEF BumpAvail, Asked
<1>5. CASE SurplusSample
  <2>1. Asked = 0 /\ Asked' = Asked
    BY <1>1, <1>5 DEF SurplusSample, AskedFor, Counted, Asked
  <2>2. Feed!Ignore
    BY <1>5, <2>1 DEF SurplusSample, Feed!Ignore
  <2> QED BY <2>2 DEF Feed!Next
<1>6. CASE DropTransfer
  <2>1. Asked' \in Int
    BY <1>1, <1>6 DEF DropTransfer, Counted, Asked
  <2>2. made' > made
    BY <1>1, <1>6 DEF DropTransfer
  <2>3. Feed!Lose
    BY <1>6, <2>1, <2>2 DEF DropTransfer, Feed!Lose
  <2> QED BY <2>3 DEF Feed!Next
<1>7. CASE TransferDone
  BY <1>7 DEF TransferDone, Asked
<1> QED BY <1>2, <1>3, <1>4, <1>5, <1>6, <1>7 DEF UsbStep

\* The samples of a device reach the application in order and once, and no read
\* returns normally across a gap that was not reported, whatever the sizes.
THEOREM ReadPathImplementsFeed == Spec => ImplementsFeed
<1>1. IInv /\ [Next]_vars => [Feed!Next]_(Feed!vars)
  <2> SUFFICES ASSUME IInv, [Next]_vars PROVE [Feed!Next]_(Feed!vars)
    OBVIOUS
  <2>1. CASE UNCHANGED vars
    BY <2>1 DEF vars, readVars, usbVars, captureVars, queueVars, Feed!vars, Asked
  <2> QED BY <2>1, CallsImplement, UserImplements, UsbImplements DEF Next
<1> QED BY <1>1, InitFeed, Invariance, PTL DEF Spec, ImplementsFeed, Feed!Spec

=============================================================================
