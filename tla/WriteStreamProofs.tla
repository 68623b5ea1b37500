------------------------- MODULE WriteStreamProofs -------------------------
(***************************************************************************)
(* WriteChannel implements SampleStream for every queue, transfer and      *)
(* buffer size, while buffers are not cyclic and the capture not paused;   *)
(* and encode_out is promised no sample that will not come, in finite      *)
(* captures of any length: so the spin in which it holds m_state always    *)
(* has something to wait for.                                              *)
(***************************************************************************)
EXTENDS WriteChannelRefines, WriteChannelProofs

\* The calls that keep the stream: write(), run() and flush().
PlainUse == Cyclics \subseteq {FALSE} /\ Calls \subseteq {"flush"}

Stamps == Nat \ {0}

-----------------------------------------------------------------------------
(* Sequences *)

\* Head and tail of a concatenation.
LEMMA HeadTailConcat ==
  ASSUME NEW S, NEW s \in Seq(S), NEW t \in Seq(S), s # <<>>
  PROVE  /\ Head(s \o t) = Head(s)
         /\ Tail(s \o t) = Tail(s) \o t
         /\ s \o t # <<>>
<1>1. Len(s) \in Nat /\ Len(s) > 0 /\ Len(t) \in Nat
  BY EmptySeq, LenProperties
<1>2. /\ s \o t \in Seq(S) /\ Len(s \o t) = Len(s) + Len(t)
      /\ \A i \in 1 .. Len(s) + Len(t) :
           (s \o t)[i] = IF i <= Len(s) THEN s[i] ELSE t[i - Len(s)]
  BY ConcatProperties
<1>3. s \o t # <<>>
  BY <1>1, <1>2, EmptySeq
<1>4. /\ Tail(s) \in Seq(S) /\ Len(Tail(s)) = Len(s) - 1
      /\ \A i \in 1 .. Len(Tail(s)) : Tail(s)[i] = s[i + 1]
  BY HeadTailProperties
<1>5. /\ Tail(s \o t) \in Seq(S) /\ Len(Tail(s \o t)) = Len(s) + Len(t) - 1
      /\ \A i \in 1 .. Len(Tail(s \o t)) : Tail(s \o t)[i] = (s \o t)[i + 1]
  BY <1>2, <1>3, HeadTailProperties
<1>6. /\ Tail(s) \o t \in Seq(S) /\ Len(Tail(s) \o t) = Len(s) - 1 + Len(t)
      /\ \A i \in 1 .. Len(s) - 1 + Len(t) :
           (Tail(s) \o t)[i] = IF i <= Len(s) - 1 THEN Tail(s)[i] ELSE t[i - (Len(s) - 1)]
  BY <1>4, ConcatProperties
<1>7. Tail(s \o t) = Tail(s) \o t
  <2>1. ASSUME NEW i \in 1 .. Len(s) + Len(t) - 1
        PROVE  Tail(s \o t)[i] = (Tail(s) \o t)[i]
    BY <1>1, <1>2, <1>4, <1>5, <1>6, <2>1
  <2>2. Len(Tail(s \o t)) = Len(Tail(s) \o t)
    BY <1>1, <1>5, <1>6
  <2> QED BY <1>1, <1>5, <1>6, <2>1, <2>2, SeqEqual
<1>8. Head(s \o t) = Head(s)
  BY <1>1, <1>2, <1>3
<1> QED BY <1>3, <1>7, <1>8

\* A sequence up to its n-th element, and from there on.
UpTo(w, n)  == SubSeq(w, 1, n)
After(w, n) == SubSeq(w, n + 1, Len(w))

\* Concatenated sequences can be taken apart again.
LEMMA TakeApart ==
  ASSUME NEW s \in Seq(Nat), NEW t \in Seq(Nat)
  PROVE  UpTo(s \o t, Len(s)) = s /\ After(s \o t, Len(s)) = t
<1> DEFINE w == s \o t
<1>1. Len(s) \in Nat /\ Len(t) \in Nat
  BY LenProperties
<1>2. /\ w \in Seq(Nat) /\ Len(w) = Len(s) + Len(t)
      /\ \A i \in 1 .. Len(s) + Len(t) : w[i] = IF i <= Len(s) THEN s[i] ELSE t[i - Len(s)]
  BY ConcatProperties
<1> HIDE DEF w
<1>3. \A i \in 1 .. Len(w) : w[i] \in Nat
  BY <1>2, ElementOfSeq
<1>4. UpTo(w, Len(s)) = s
  <2>1. \A i \in 1 .. Len(s) : w[i] \in Nat
    BY <1>1, <1>2, <1>3
  <2>2. /\ SubSeq(w, 1, Len(s)) \in Seq(Nat)
        /\ Len(SubSeq(w, 1, Len(s))) = IF 1 <= Len(s) THEN Len(s) - 1 + 1 ELSE 0
        /\ \A i \in 1 .. Len(s) - 1 + 1 : SubSeq(w, 1, Len(s))[i] = w[1 + i - 1]
    BY <1>1, <2>1, SubSeqProperties, SMTT(30)
  <2>3. Len(SubSeq(w, 1, Len(s))) = Len(s)
    BY <1>1, <2>2
  <2>4. ASSUME NEW i \in 1 .. Len(s)
        PROVE  SubSeq(w, 1, Len(s))[i] = s[i]
    BY <1>1, <1>2, <2>2
  <2> QED BY <2>2, <2>3, <2>4, SeqEqual DEF UpTo
<1>5. After(w, Len(s)) = t
  <2>1. Len(s) + 1 \in Int /\ Len(w) \in Int /\ Len(w) - (Len(s) + 1) + 1 = Len(t)
    BY <1>1, <1>2
  <2> DEFINE m == Len(s) + 1
             n == Len(w)
             v == SubSeq(w, m, n)
  <2>2. m \in Int /\ n \in Int /\ \A i \in m .. n : w[i] \in Nat
    BY <1>1, <1>2, <1>3
  <2> HIDE DEF m, n
  <2>3. /\ v \in Seq(Nat) /\ Len(v) = IF m <= n THEN n - m + 1 ELSE 0
        /\ \A i \in 1 .. n - m + 1 : v[i] = w[m + i - 1]
    BY <2>2, SubSeqProperties, SMTT(30)
  <2> HIDE DEF v
  <2>4. Len(v) = Len(t) /\ n - m + 1 = Len(t)
    BY <1>1, <1>2, <2>3 DEF m, n
  <2>5. ASSUME NEW i \in 1 .. Len(t)
        PROVE  v[i] = t[i]
    <3>1. v[i] = w[m + i - 1]
      BY <2>3, <2>4
    <3>2. m + i - 1 = Len(s) + i /\ Len(s) + i \in 1 .. Len(s) + Len(t)
      BY <1>1 DEF m
    <3>3. w[Len(s) + i] = t[i]
      <4> DEFINE k == Len(s) + i
      <4>1. k \in 1 .. Len(s) + Len(t) /\ ~(k <= Len(s)) /\ k - Len(s) = i
        BY <1>1, <3>2
      <4> HIDE DEF k
      <4>2. w[k] = t[k - Len(s)]
        BY <1>2, <4>1
      <4> QED BY <4>1, <4>2 DEF k
    <3> QED BY <3>1, <3>2, <3>3
  <2>6. v = t
    BY <2>3, <2>4, <2>5, SeqEqual
  <2> QED BY <2>6 DEF v, m, n, After
<1> QED BY <1>4, <1>5 DEF w

\* Concatenation of sequences of samples is associative.
LEMMA SampleAssociative ==
  \A s, t, u \in Seq(Nat) : (s \o t) \o u = s \o (t \o u)
BY ConcatAssociative, SMTT(30)

\* HeadTailConcat for sequences of samples.
LEMMA SampleHeadTail ==
  \A s, t \in Seq(Nat) :
    s # <<>> => /\ Head(s \o t) = Head(s)
                /\ Tail(s \o t) = Tail(s) \o t
                /\ s \o t # <<>>
BY HeadTailConcat

\* Concatenation adds lengths.
LEMMA SampleLengths ==
  \A s, t \in Seq(Nat) :
    /\ Len(s) \in Nat /\ Len(t) \in Nat
    /\ s \o t \in Seq(Nat) /\ Len(s \o t) = Len(s) + Len(t)
BY ConcatProperties, LenProperties

-----------------------------------------------------------------------------
(* The invariant *)

\* Nothing is cyclic, paused or destroyed.
PlainOK ==
  /\ cyclic = FALSE /\ arg.cyclic = FALSE
  /\ stop \in {0, 1}
  /\ upc \in {"idle", "writeWait", "writeSet", "flushLock", "flushClear"} /\ after = "idle"
  /\ wpc \notin {"pauseCheck", "pauseBlock", "pauseSleep", "again", "exit"}

\* A write() in progress has samples, and a free buffer to put them in.
WritingOK ==
  /\ upc \in {"writeWait", "writeSet"} => arg.n \in Stamps
  /\ upc = "writeSet" => buf = <<>>

\* The write thread stops short of its buffer's end only for a flush() that
\* is waiting for it.
StoppingOK ==
  /\ wpc \in {"push", "test", "testStop", "end"} /\ stop # 0 => upc = "flushClear"
  /\ wpc = "end" => stop # 0 \/ it = Len(buf)

\* No sample is taken for the absent one.
StampsOK == buf \in Seq(Stamps) /\ q \in Seq(Stamps)

StreamInv == ChannelInv /\ PlainOK /\ WritingOK /\ StoppingOK /\ StampsOK

\* A part of a sequence.
LEMMA PartOfSeqOf ==
  ASSUME NEW S, NEW s \in Seq(S), NEW m \in Nat, NEW n \in Nat, m <= n, n <= Len(s)
  PROVE  SubSeq(s, m + 1, n) \in Seq(S)
<1>1. \A i \in m + 1 .. n : s[i] \in S
  BY ElementOfSeq
<1>2. m + 1 \in Int /\ n \in Int
  OBVIOUS
<1> QED BY <1>1, <1>2, SubSeqProperties, SMTT(30)

\* A new channel.
LEMMA InitStream == Init => StreamInv
<1> SUFFICES ASSUME Init PROVE StreamInv
  OBVIOUS
<1>1. ChannelInv
  BY InitChannel
<1>2. buf \in Seq(Stamps) /\ q \in Seq(Stamps)
  BY EmptySeq DEF Init
<1> QED
  BY <1>1, <1>2 DEF Init, Idle, StreamInv, PlainOK, WritingOK, StoppingOK, StampsOK

\* The application's calls.
LEMMA UserStream ==
  ASSUME PlainUse, StreamInv, UserCall \/ UserStep
  PROVE  PlainOK' /\ WritingOK' /\ StoppingOK' /\ StampsOK'
<1> USE WriteChannelAssumption DEF PlainUse, StreamInv, MayCall, vars, userVars,
      writerVars, usbVars, captureVars, lockVars, bufVars
<1>0. MutexOK /\ Notified \in {wpc, "lock"}
  BY DEF ChannelInv, WriterLocks, PlainOK, Notified
<1>1. CASE \E n \in Sizes, cyc \in Cyclics : CallWrite(n, cyc)
  <2> PICK n \in Sizes, cyc \in Cyclics : CallWrite(n, cyc) BY <1>1
  <2>1. cyc = FALSE /\ cyclic = FALSE /\ n \in Stamps
    BY DEF PlainOK, Stamps
  <2>2. upc' = "writeWait" /\ after' = after
    BY <2>1 DEF CallWrite
  <2>3. arg' = [n |-> n, cyclic |-> cyc]
    BY DEF CallWrite
  <2>4. arg'.n \in Stamps /\ arg'.cyclic = FALSE
    BY <2>1, <2>3
  <2>5. upc = "idle" /\ UNCHANGED <<cyclic, stop, wpc, it, buf, q>>
    BY DEF CallWrite
  <2> QED BY <2>2, <2>4, <2>5 DEF PlainOK, WritingOK, StoppingOK, StampsOK
<1>2. CASE WriteTimeout
  BY <1>2 DEF WriteTimeout, Idle, PlainOK, WritingOK, StoppingOK, StampsOK
<1>3. CASE WritePromise
  BY <1>3 DEF WritePromise, PlainOK, WritingOK, StoppingOK, StampsOK
<1>4. CASE WriteSet
  <2>1. arg.n \in Nat /\ stamp \in Nat
    BY DEF ChannelInv, ThreadTypeOK, ValueTypeOK
  <2>2. buf' \in Seq(Stamps)
    BY <1>4, <2>1 DEF WriteSet, Stamps
  <2>3. wpc' \notin {"push", "test", "testStop", "end"}
    BY <1>0, <1>4 DEF WriteSet, MutexOK, HoldingPCs
  <2> QED
    BY <1>0, <1>4, <2>2, <2>3 DEF WriteSet, Idle, PlainOK, WritingOK, StoppingOK, StampsOK
<1>5. CASE CallFlush
  BY <1>5 DEF CallFlush, PlainOK, WritingOK, StoppingOK, StampsOK
<1>6. CASE FlushLock
  BY <1>0, <1>6 DEF FlushLock, PlainOK, WritingOK, StoppingOK, StampsOK
<1>7. CASE FlushClear
  <2>1. wpc' \notin {"push", "test", "testStop", "end"}
    BY <1>0, <1>7 DEF FlushClear, MutexOK, HoldingPCs
  <2>2. q' \in Seq(Stamps)
    BY <1>7, EmptySeq DEF FlushClear
  <2> QED BY <1>7, <2>1, <2>2 DEF FlushClear, PlainOK, WritingOK, StoppingOK, StampsOK
<1>8. CASE \E n \in Counts : CallRun(n)
  BY <1>0, <1>8 DEF CallRun, PlainOK, WritingOK, StoppingOK, StampsOK
<1>9. CASE CallEnd \/ CallDestroy \/ Join
  BY <1>9 DEF CallEnd, CallDestroy, Join, PlainOK
<1> QED
  BY <1>1, <1>2, <1>3, <1>4, <1>5, <1>6, <1>7, <1>8, <1>9 DEF UserCall, UserStep

\* The write thread.
LEMMA WriterStream ==
  ASSUME StreamInv, WriterStep
  PROVE  PlainOK' /\ WritingOK' /\ StoppingOK' /\ StampsOK'
<1> USE DEF StreamInv, vars, userVars, writerVars, usbVars, captureVars, lockVars, bufVars
<1>0. BufferTypeOK /\ QueueTypeOK /\ Len(buf) \in Nat /\ it \in 0 .. Len(buf)
  BY LenProperties DEF ChannelInv, BufferTypeOK
<1>1. CASE WriterPush
  <2>1. Fitting \in Nat /\ Fitting <= Len(buf) - it
    BY <1>0, PushedTypes
  <2>2. it + Fitting \in Nat /\ it <= it + Fitting /\ it + Fitting <= Len(buf) /\ it \in Nat
    BY <1>0, <2>1
  <2>3. buf \in Seq(Stamps) /\ q \in Seq(Stamps)
    BY DEF StampsOK
  <2>4. SubSeq(buf, it + 1, it + Fitting) \in Seq(Stamps)
    BY <2>2, <2>3, PartOfSeqOf
  <2>5. q' \in Seq(Stamps)
    BY <1>1, <2>3, <2>4, ConcatProperties DEF WriterPush
  <2> QED BY <1>1, <2>5 DEF WriterPush, PlainOK, WritingOK, StoppingOK, StampsOK
<1>2. CASE WriterAgain
  BY <1>2 DEF WriterAgain, PlainOK
<1>3. CASE WriterEnd
  <2>1. buf' = <<>> /\ wpc' = "lock"
    BY <1>3 DEF WriterEnd, PlainOK
  <2>2. buf' \in Seq(Stamps)
    BY <2>1, EmptySeq
  <2> QED BY <1>3, <2>1, <2>2 DEF WriterEnd, PlainOK, WritingOK, StoppingOK, StampsOK
<1>4. CASE WriterClear
  BY <1>4 DEF WriterClear, WriterGoes, PlainOK, WritingOK, StoppingOK, StampsOK
<1>5. CASE WriterTestStop
  BY <1>0, <1>5 DEF WriterTestStop, WriterGoes, Onwards, PlainOK, WritingOK, StoppingOK, StampsOK
<1>6. ASSUME WriterLock \/ WriterCheck \/ WriterBlock \/ WriterExit \/ WriterStay
             \/ WriterTest \/ WriterPauseCheck \/ WriterPauseBlock
      PROVE  PlainOK' /\ WritingOK' /\ StoppingOK' /\ StampsOK'
  BY <1>6 DEF WriterLock, WriterCheck, WriterBlock, WriterExit, WriterStay, WriterTest,
       WriterPauseCheck, WriterPauseBlock, WriterGoes, PlainOK, WritingOK, StoppingOK,
       StampsOK
<1> QED BY <1>1, <1>2, <1>3, <1>4, <1>5, <1>6 DEF WriterStep

\* The USB thread.
LEMMA UsbStream ==
  ASSUME StreamInv, UsbStep
  PROVE  PlainOK' /\ WritingOK' /\ StoppingOK' /\ StampsOK'
<1> USE DEF StreamInv, vars, userVars, writerVars, usbVars, captureVars, lockVars, bufVars
<1>1. UsbUnchanged /\ (q' = q \/ (q # <<>> /\ q' = Tail(q)))
  BY DEF UsbStep, OutBegins, OutSubmitted, EncodeFiller, EncodeNext, EncodePop,
         EncodeFallback, EncodeThrow, SampleDone
<1>2. q' \in Seq(Stamps)
  BY <1>1, HeadTailProperties DEF StampsOK
<1> QED BY <1>1, <1>2 DEF UsbUnchanged, PlainOK, WritingOK, StoppingOK, StampsOK

\* Every step keeps the invariant.
LEMMA NextStream ==
  ASSUME PlainUse
  PROVE  StreamInv /\ [Next]_vars => StreamInv'
<1> SUFFICES ASSUME StreamInv, [Next]_vars
             PROVE  StreamInv'
  OBVIOUS
<1>1. ChannelInv'
  BY NextChannel DEF StreamInv
<1>2. CASE UNCHANGED vars
  BY <1>1, <1>2 DEF vars, userVars, writerVars, usbVars, captureVars, lockVars, bufVars,
       StreamInv, PlainOK, WritingOK, StoppingOK, StampsOK
<1>3. CASE Next
  BY <1>1, <1>3, UserStream, WriterStream, UsbStream DEF Next, StreamInv
<1> QED BY <1>2, <1>3

\* During plain use StreamInv always holds.
THEOREM StreamInvariant ==
  ASSUME PlainUse
  PROVE  Spec => []StreamInv
BY InitStream, NextStream, PTL DEF Spec

-----------------------------------------------------------------------------
(* The refinement *)

\* The peeked sample, as a sequence.
Peeked == IF nextOut # None THEN <<nextOut>> ELSE <<>>

\* What is pending is three sequences of samples, one after the other.
LEMMA PendingParts ==
  ASSUME StreamInv
  PROVE  /\ Peeked \in Seq(Nat) /\ q \in Seq(Nat) /\ Rest \in Seq(Nat)
         /\ q \o Rest \in Seq(Nat) /\ Peeked \o q \in Seq(Nat)
         /\ Pending = (Peeked \o q) \o Rest
         /\ Pending = Peeked \o (q \o Rest)
         /\ Pending \in Seq(Nat)
<1>1. Peeked \in Seq(Nat)
  BY EmptySeq DEF Peeked, StreamInv, ChannelInv, ValueTypeOK
<1>2. q \in Seq(Nat) /\ Rest \in Seq(Nat)
  BY PushedTypes DEF StreamInv, ChannelInv, QueueTypeOK
<1>3. q \o Rest \in Seq(Nat) /\ Peeked \o q \in Seq(Nat)
  BY <1>1, <1>2, ConcatProperties
<1>4. Pending = (Peeked \o q) \o Rest
  BY DEF Pending, Peeked
<1>5. Pending = Peeked \o (q \o Rest)
  BY <1>1, <1>2, <1>4, SampleAssociative
<1>6. Pending \in Seq(Nat)
  BY <1>2, <1>3, <1>4, ConcatProperties
<1> QED BY <1>1, <1>2, <1>3, <1>4, <1>5, <1>6

\* A step that touches neither samples nor flush() is no step of the stream.
LEMMA Stutters ==
  ASSUME UNCHANGED <<nextOut, q, buf, it, stamp, sent>>,
         (upc' = "flushClear") <=> (upc = "flushClear")
  PROVE  UNCHANGED Stream!vars
<1>1. Pending' = Pending
  BY DEF Pending, Rest
<1>2. (upc = "flushClear")' = (upc = "flushClear")
  OBVIOUS
<1> QED BY <1>1, <1>2 DEF Stream!vars

\* write() hands its samples over: Write.
LEMMA WriteRefines ==
  ASSUME StreamInv, StreamInv', WriteSet
  PROVE  Stream!Next
<1> DEFINE New == [i \in 1 .. arg.n |-> stamp + i]
<1>1. buf = <<>> /\ it = 0 /\ arg.n \in Nat \ {0} /\ stamp \in Nat
  <2>1. buf = <<>> /\ arg.n \in Nat \ {0} /\ stamp \in Nat
    BY DEF StreamInv, WritingOK, WriteSet, Stamps, ChannelInv, ValueTypeOK
  <2> QED BY <2>1, EmptySeq DEF StreamInv, ChannelInv, BufferTypeOK
<1>2. New \in Seq(Nat) /\ Len(New) = arg.n
  BY <1>1, NumberedSeq
<1>3. buf' = New /\ it' = it /\ q' = q /\ nextOut' = nextOut
  BY DEF WriteSet, usbVars
<1>4. Rest = <<>>
  BY <1>1 DEF Rest
<1>5. Rest' = New
  <2>1. Rest' = SubSeq(buf', it' + 1, Len(buf'))
    BY DEF Rest
  <2>2. SubSeq(New, 1, Len(New)) = New
    BY <1>2, SubSeqFull
  <2> QED BY <1>1, <1>3, <2>1, <2>2
<1>6. Pending = Peeked \o q /\ Pending \in Seq(Nat)
  BY <1>4, PendingParts, ConcatEmptySeq
<1>7. Pending' = Pending \o New
  <2>1. Pending' = (Peeked' \o q') \o Rest'
    BY DEF Pending, Peeked
  <2>2. Peeked' = Peeked
    BY <1>3 DEF Peeked
  <2> QED BY <1>3, <1>5, <1>6, <2>1, <2>2
<1>8. arg.n \in 1 .. Len(Pending')
  <2> HIDE DEF New
  <2>1. Len(Pending \o New) = Len(Pending) + arg.n /\ Len(Pending) \in Nat
    BY <1>2, <1>6, SampleLengths
  <2> QED BY <1>1, <1>7, <2>1
<1>9. /\ upc = "writeSet" /\ upc' = "idle"
      /\ stamp' = stamp + arg.n /\ sent' = sent
  BY DEF WriteSet, usbVars
<1>10. Stream!Write(arg.n)
  BY <1>7, <1>9 DEF Stream!Write
<1> QED BY <1>8, <1>10 DEF Stream!Next

\* flush() empties the queue: Drop, and the flush is over.
LEMMA ClearRefines ==
  ASSUME StreamInv, StreamInv', FlushClear
  PROVE  Stream!Next
<1> DEFINE i == Len(Peeked)
           n == Len(Peeked \o q)
<1>1. /\ q' = <<>> /\ upc = "flushClear" /\ upc' = "idle"
      /\ UNCHANGED <<nextOut, buf, it, stamp, sent>>
  BY DEF FlushClear, StreamInv, PlainOK, usbVars, bufVars, writerVars
<1>2. Pending' = Peeked \o Rest
  <2>1. Pending' = (Peeked' \o q') \o Rest' /\ Peeked' = Peeked /\ Rest' = Rest
    BY <1>1 DEF Pending, Peeked, Rest
  <2>2. Peeked \o <<>> = Peeked
    BY PendingParts, ConcatEmptySeq
  <2> QED BY <1>1, <2>1, <2>2
<1>3. UpTo(Pending, i) = Peeked
  <2>1. /\ Peeked \in Seq(Nat) /\ q \o Rest \in Seq(Nat)
        /\ Pending = Peeked \o (q \o Rest)
    BY PendingParts
  <2>2. UpTo(Peeked \o (q \o Rest), i) = Peeked
    BY <2>1, TakeApart
  <2> QED BY <2>1, <2>2
<1>4. After(Pending, n) = Rest
  <2>1. /\ Peeked \o q \in Seq(Nat) /\ Rest \in Seq(Nat)
        /\ Pending = (Peeked \o q) \o Rest
    BY PendingParts
  <2>2. After((Peeked \o q) \o Rest, n) = Rest
    BY <2>1, TakeApart
  <2> QED BY <2>1, <2>2
<1>5. i \in 0 .. Len(Pending) /\ n + 1 \in 1 .. Len(Pending) + 1 /\ i < n + 1
  BY PendingParts, SampleLengths
<1>6. (upc = "flushClear")' \in BOOLEAN
  OBVIOUS
<1> HIDE DEF i, n
<1>7. Pending' = SubSeq(Pending, 1, i) \o SubSeq(Pending, n + 1, Len(Pending))
  BY <1>2, <1>3, <1>4 DEF UpTo, After
<1>8. Stream!Drop(i, n + 1)
  BY <1>1, <1>6, <1>7 DEF Stream!Drop
<1> QED BY <1>5, <1>8 DEF Stream!Next

\* The write thread pushes: samples move, none is lost.
LEMMA PushRefines ==
  ASSUME StreamInv, WriterPush
  PROVE  UNCHANGED Stream!vars
<1> DEFINE k == it + Fitting
           Pushed == SubSeq(buf, it + 1, k)
<1>1. /\ buf \in Seq(Nat) /\ it \in Nat /\ it <= Len(buf) /\ Len(buf) \in Nat
      /\ Fitting \in Nat /\ Fitting <= Len(buf) - it /\ Pushed \in Seq(Nat)
  BY PushedTypes, LenProperties DEF StreamInv, ChannelInv, BufferTypeOK
<1>2. Pushed \o SubSeq(buf, k + 1, Len(buf)) = Rest
  <2>1. /\ it + 1 \in 1 .. Len(buf) + 1 /\ k \in (it + 1) - 1 .. Len(buf)
        /\ Len(buf) \in k .. Len(buf)
    BY <1>1
  <2> HIDE DEF k
  <2> QED BY <1>1, <2>1, ConcatAdjacentSubSeq DEF Rest
<1>3. /\ q' = q \o Pushed /\ it' = k
      /\ UNCHANGED <<nextOut, buf, stamp, sent, upc>>
  BY DEF WriterPush, usbVars, userVars, bufVars
<1>4. SubSeq(buf, k + 1, Len(buf)) \in Seq(Nat)
  BY <1>1, PartOfSeq
<1>5. Rest' = SubSeq(buf, k + 1, Len(buf)) /\ Peeked' = Peeked
      /\ Pending' = (Peeked' \o q') \o Rest'
  BY <1>3 DEF Rest, Peeked, Pending
<1> HIDE DEF k, Pushed
<1>6. q' \in Seq(Nat) /\ Rest' \in Seq(Nat) /\ Peeked \in Seq(Nat) /\ q \in Seq(Nat)
  BY <1>1, <1>3, <1>4, <1>5, PendingParts, ConcatProperties
<1>7. Pending' = Peeked \o (q' \o Rest')
  BY <1>5, <1>6, SampleAssociative
<1>8. q' \o Rest' = q \o (Pushed \o Rest')
  <2>1. (q \o Pushed) \o Rest' = q \o (Pushed \o Rest')
    BY <1>1, <1>6, SampleAssociative
  <2> QED BY <1>3, <2>1
<1>9. q' \o Rest' = q \o Rest
  BY <1>2, <1>5, <1>8
<1>10. Pending' = Pending
  BY <1>7, <1>9, PendingParts
<1>11. (upc = "flushClear")' = (upc = "flushClear")
  BY <1>3
<1> QED BY <1>3, <1>10, <1>11 DEF Stream!vars

\* The write thread wipes its buffer: nothing was left in it, or a flush()
\* that waits drops the rest.
LEMMA EndRefines ==
  ASSUME StreamInv, WriterEnd
  PROVE  Stream!Next \/ UNCHANGED Stream!vars
<1>1. /\ buf' = <<>> /\ it' = 0
      /\ UNCHANGED <<nextOut, q, stamp, sent, upc>>
  BY DEF WriterEnd, StreamInv, PlainOK, usbVars, userVars
<1>2. Rest' = <<>>
  BY <1>1 DEF Rest
<1>3. Pending' = Peeked \o q
  <2>1. Pending' = (Peeked' \o q') \o Rest' /\ Peeked' = Peeked
    BY <1>1 DEF Pending, Peeked
  <2>2. (Peeked \o q) \o <<>> = Peeked \o q
    BY PendingParts, ConcatEmptySeq
  <2> QED BY <1>1, <1>2, <2>1, <2>2
<1>4. (upc = "flushClear")' = (upc = "flushClear")
  BY <1>1
<1>5. CASE stop = 0
  <2>1. it = Len(buf) /\ Len(buf) \in Nat
    BY <1>5, LenProperties DEF WriterEnd, StreamInv, StoppingOK, ChannelInv, BufferTypeOK
  <2>2. Rest = <<>>
    BY <2>1, SubSeqEmpty DEF Rest
  <2>3. Pending' = Pending
    BY <1>3, <2>2, PendingParts, ConcatEmptySeq
  <2> QED BY <1>1, <1>4, <2>3 DEF Stream!vars
<1>6. CASE stop # 0
  <2> DEFINE n == Len(Peeked \o q)
             m == Len(Pending)
  <2>1. upc = "flushClear"
    BY <1>6 DEF WriterEnd, StreamInv, StoppingOK
  <2>2. n \in Nat /\ m \in Nat /\ n <= m
    BY PendingParts, SampleLengths
  <2>3. UpTo(Pending, n) = Peeked \o q
    <3>1. /\ Peeked \o q \in Seq(Nat) /\ Rest \in Seq(Nat)
          /\ Pending = (Peeked \o q) \o Rest
      BY PendingParts
    <3>2. UpTo((Peeked \o q) \o Rest, n) = Peeked \o q
      BY <3>1, TakeApart
    <3> QED BY <3>1, <3>2
  <2>4. SubSeq(Pending, m + 1, m) = <<>>
    BY <2>2, SubSeqEmpty
  <2>5. (Peeked \o q) \o <<>> = Peeked \o q
    BY PendingParts, ConcatEmptySeq
  <2>6. Pending' = SubSeq(Pending, 1, n) \o SubSeq(Pending, m + 1, m)
    BY <1>3, <2>3, <2>4, <2>5 DEF UpTo
  <2>7. n \in 0 .. m /\ m + 1 \in 1 .. m + 1 /\ n < m + 1
    BY <2>2
  <2>8. (upc = "flushClear")' \in BOOLEAN
    OBVIOUS
  <2> HIDE DEF n
  <2>9. Stream!Drop(n, m + 1)
    BY <1>1, <2>1, <2>6, <2>8 DEF Stream!Drop
  <2> QED BY <2>7, <2>9 DEF Stream!Next
<1> QED BY <1>5, <1>6

\* encode_out takes the peeked sample or the head of the queue: Send, unless
\* it only peeks.
LEMMA EncodeRefines ==
  ASSUME StreamInv, EncodeNext \/ EncodePop
  PROVE  Stream!Next \/ UNCHANGED Stream!vars
<1>1. UNCHANGED <<buf, it, stamp, upc>>
  BY DEF EncodeNext, EncodePop, SampleDone, UsbUnchanged, userVars, writerVars, bufVars
<1>2. Rest' = Rest /\ Pending' = (Peeked' \o q') \o Rest'
  BY <1>1 DEF Rest, Pending, Peeked
<1>3. (upc = "flushClear")' = (upc = "flushClear")
  BY <1>1
<1>4. CASE EncodeNext
  <2>1. nextOut # None /\ q' = q /\ Peeked = <<nextOut>> /\ nextOut \in Nat
    BY <1>4 DEF EncodeNext, Peeked, StreamInv, ChannelInv, ValueTypeOK
  <2>2. CASE Peek
    <3>1. nextOut' = nextOut /\ sent' = sent
      BY <1>4, <2>2 DEF EncodeNext, Emits
    <3> QED BY <1>1, <2>1, <3>1, Stutters
  <2>3. CASE ~Peek
    <3>1. nextOut' = None /\ sent' = nextOut
      BY <1>4, <2>3 DEF EncodeNext, Emits
    <3>2. Pending' = q \o Rest
      BY <1>2, <2>1, <3>1, PendingParts, ConcatEmptySeq DEF Peeked
    <3>3. Peeked # <<>> /\ Head(Peeked) = nextOut /\ Tail(Peeked) = <<>>
      BY <2>1
    <3>4. /\ Head(Pending) = nextOut /\ Tail(Pending) = <<>> \o (q \o Rest)
          /\ Pending # <<>>
      <4>1. /\ Peeked \in Seq(Nat) /\ q \o Rest \in Seq(Nat)
            /\ Pending = Peeked \o (q \o Rest)
        BY PendingParts
      <4>2. /\ Head(Peeked \o (q \o Rest)) = Head(Peeked)
            /\ Tail(Peeked \o (q \o Rest)) = Tail(Peeked) \o (q \o Rest)
            /\ Peeked \o (q \o Rest) # <<>>
        BY <3>3, <4>1, SampleHeadTail
      <4> QED BY <3>3, <4>1, <4>2
    <3>5. Tail(Pending) = q \o Rest
      BY <3>4, PendingParts, ConcatEmptySeq
    <3> QED BY <1>1, <1>3, <3>1, <3>2, <3>4, <3>5 DEF Stream!Send, Stream!Next
  <2> QED BY <2>2, <2>3
<1>5. CASE EncodePop
  <2>1. /\ nextOut = None /\ q # <<>> /\ q' = Tail(q) /\ Emits(Head(q))
        /\ Peeked = <<>>
    BY <1>5 DEF EncodePop, Peeked
  <2>2. Pending = q \o Rest
    BY <2>1, PendingParts, ConcatEmptySeq
  <2>3. /\ Head(Pending) = Head(q) /\ Tail(Pending) = Tail(q) \o Rest
        /\ Pending # <<>>
    BY <2>1, <2>2, PendingParts, SampleHeadTail
  <2>4. Tail(q) \in Seq(Nat) /\ Head(q) \in Nat /\ Head(q) # None
    <3>1. Head(q) \in Stamps
      BY <2>1, HeadTailProperties DEF StreamInv, StampsOK
    <3> QED BY <2>1, <3>1, PendingParts, HeadTailProperties DEF Stamps, None
  <2>5. CASE Peek
    <3>1. nextOut' = Head(q) /\ sent' = sent
      BY <2>1, <2>5 DEF Emits
    <3>2. Peeked' = <<Head(q)>>
      BY <2>4, <3>1 DEF Peeked
    <3>3. <<Head(q)>> \o Tail(q) = q
      <4>1. q \in Seq(Nat) /\ Len(q) \in Nat /\ Len(q) > 0
        BY <2>1, PendingParts, LenProperties, EmptySeq
      <4>2. /\ Len(Tail(q)) = Len(q) - 1
            /\ \A i \in 1 .. Len(Tail(q)) : Tail(q)[i] = q[i + 1]
        BY <2>1, <4>1, HeadTailProperties
      <4>3. <<Head(q)>> \in Seq(Nat) /\ Len(<<Head(q)>>) = 1
        BY <2>4
      <4>4. /\ <<Head(q)>> \o Tail(q) \in Seq(Nat)
            /\ Len(<<Head(q)>> \o Tail(q)) = 1 + Len(Tail(q))
            /\ \A i \in 1 .. 1 + Len(Tail(q)) :
                 (<<Head(q)>> \o Tail(q))[i]
                   = IF i <= 1 THEN <<Head(q)>>[i] ELSE Tail(q)[i - 1]
        BY <2>4, <4>3, ConcatProperties
      <4>5. ASSUME NEW i \in 1 .. Len(q)
            PROVE  (<<Head(q)>> \o Tail(q))[i] = q[i]
        BY <4>1, <4>2, <4>4
      <4>6. Len(<<Head(q)>> \o Tail(q)) = Len(q)
        BY <4>1, <4>2, <4>4
      <4> QED BY <4>1, <4>4, <4>5, <4>6, SeqEqual
    <3>4. Pending' = Pending
      BY <1>2, <2>1, <2>2, <3>2, <3>3
    <3> QED BY <1>1, <1>3, <3>1, <3>4 DEF Stream!vars
  <2>6. CASE ~Peek
    <3>1. nextOut' = None /\ sent' = Head(q)
      BY <2>1, <2>6 DEF Emits
    <3>2. Pending' = Tail(q) \o Rest
      BY <1>2, <2>1, <2>4, <3>1, ConcatEmptySeq DEF Peeked
    <3> QED BY <1>1, <1>3, <2>3, <3>1, <3>2 DEF Stream!Send, Stream!Next
  <2> QED BY <2>5, <2>6
<1> QED BY <1>4, <1>5

\* Every step of the channel is a step of the stream or none at all.
LEMMA StepRefines ==
  ASSUME PlainUse, StreamInv, StreamInv', [Next]_vars
  PROVE  [Stream!Next]_(Stream!vars)
<1> USE DEF userVars, writerVars, usbVars, captureVars, lockVars, bufVars
<1>1. CASE UNCHANGED vars
  BY <1>1, Stutters DEF vars
<1>2. CASE UserCall
  <2>1. UNCHANGED <<nextOut, q, buf, it, stamp, sent>>
    BY <1>2 DEF UserCall, CallWrite, CallRun, CallFlush, CallEnd, CallDestroy
  <2>2. upc = "idle" /\ upc' # "flushClear"
    BY <1>2 DEF UserCall, CallWrite, CallRun, CallFlush, CallEnd, CallDestroy, MayCall
  <2> QED BY <2>1, <2>2, Stutters
<1>3. CASE WriteTimeout \/ WritePromise \/ Join
  BY <1>3, Stutters DEF WriteTimeout, WritePromise, Join
<1>4. CASE FlushLock
  <2>1. UNCHANGED <<nextOut, q, buf, it, stamp, sent>>
    BY <1>4 DEF FlushLock
  <2>2. upc # "flushClear" /\ upc' = "flushClear"
    BY <1>4 DEF FlushLock
  <2>3. Pending' = Pending
    BY <2>1 DEF Pending, Rest
  <2>4. (upc = "flushClear") = FALSE /\ (upc = "flushClear")' = TRUE
    BY <2>2
  <2> QED BY <2>1, <2>3, <2>4 DEF Stream!FlushBegins, Stream!Next
<1>5. CASE WriterStep
  <2>1. CASE WriterPush BY <2>1, PushRefines
  <2>2. CASE WriterEnd BY <2>2, EndRefines
  <2>3. CASE WriterAgain BY <2>3 DEF WriterAgain, StreamInv, PlainOK
  <2>4. ASSUME \E from, to : WriterGoes(from, to)
        PROVE  UNCHANGED Stream!vars
    BY <2>4, Stutters DEF WriterGoes
  <2> QED
    BY <1>5, <2>1, <2>2, <2>3, <2>4
       DEF WriterStep, WriterLock, WriterCheck, WriterBlock, WriterExit, WriterStay,
           WriterClear, WriterTest, WriterTestStop, WriterPauseCheck, WriterPauseBlock
<1>6. CASE OutBegins \/ OutSubmitted \/ EncodeFiller \/ EncodeFallback \/ EncodeThrow
  BY <1>6, Stutters DEF OutBegins, OutSubmitted, EncodeFiller, EncodeFallback, EncodeThrow,
       SampleDone, UsbUnchanged
<1> QED
  BY <1>1, <1>2, <1>3, <1>4, <1>5, <1>6, WriteRefines, ClearRefines, EncodeRefines
     DEF Next, UserStep, UsbStep

\* A new channel is an empty stream.
LEMMA InitRefines == Init => Stream!Init
<1> SUFFICES ASSUME Init PROVE Stream!Init
  OBVIOUS
<1>1. Pending = <<>>
  <2>1. Rest = <<>>
    BY DEF Init, Rest
  <2> QED BY <2>1, EmptySeq, ConcatEmptySeq DEF Init, Pending, None
<1> QED BY <1>1 DEF Init, Stream!Init

\* write(), flush(), the write thread and encode_out, whatever their
\* interleaving, implement an ordered stream that only flush() shortens.
THEOREM StreamImplemented ==
  ASSUME PlainUse
  PROVE  Spec => ImplementsStream
BY InitRefines, StepRefines, StreamInvariant, PTL DEF Spec, ImplementsStream, Stream!Spec

-----------------------------------------------------------------------------
(* encode_out is promised no sample that will not come, in finite captures *)

\* In continuous mode m_out_samples_avail is counted down regardless.
FiniteUse == PlainUse /\ 0 \notin Counts

FiniteOK == sampling \/ epc = "encode" => count > 0

PromiseInv == StreamInv /\ FiniteOK /\ NoOverpromise

\* Samples on their way to encode_out.
Coming == Len(q) + (Len(buf) - it) + (IF nextOut # None THEN 1 ELSE 0)
            + (IF upc = "writeSet" THEN arg.n ELSE 0)

\* NoOverpromise in numbers alone.
CountsOK ==
  /\ Len(q) \in Nat /\ Len(buf) \in Nat /\ it \in 0 .. Len(buf) /\ arg.n \in Nat
  /\ avail \in 0 .. AvailMod - 1 /\ Coming \in Nat
  /\ NoOverpromise <=> upc = "flushClear" \/ avail <= Coming

\* The invariant of the refinement says as much.
LEMMA ComingCounts == StreamInv => CountsOK
<1> SUFFICES ASSUME StreamInv PROVE CountsOK
  OBVIOUS
<1>1. Len(q) \in Nat /\ Len(buf) \in Nat /\ it \in 0 .. Len(buf) /\ arg.n \in Nat
  BY LenProperties DEF StreamInv, ChannelInv, BufferTypeOK, QueueTypeOK, ThreadTypeOK
<1>2. avail \in 0 .. AvailMod - 1
  BY DEF StreamInv, ChannelInv, ValueTypeOK
<1>3. Len(Rest) = Len(buf) - it
  BY PushedTypes DEF StreamInv, ChannelInv
<1>4. Coming \in Nat
  BY <1>1 DEF Coming
<1>5. NoOverpromise <=> upc = "flushClear" \/ avail <= Coming
  BY <1>3 DEF NoOverpromise, Coming
<1> QED BY <1>1, <1>2, <1>4, <1>5 DEF CountsOK

\* So it does of the next state.
LEMMA ComingCountsNext == StreamInv' => CountsOK'
BY ComingCounts, PTL

\* A step that neither promises nor takes keeps the promises.
LEMMA NothingTaken ==
  ASSUME PromiseInv, StreamInv', upc # "flushClear", avail' <= avail, Coming <= Coming'
  PROVE  NoOverpromise'
<1>1. avail <= Coming /\ avail \in Nat /\ Coming \in Nat
  BY ComingCounts DEF PromiseInv, CountsOK
<1>2. avail' \in Nat /\ Coming' \in Nat
  BY ComingCountsNext DEF CountsOK
<1>3. avail' <= Coming'
  BY <1>1, <1>2
<1> QED BY <1>3, ComingCountsNext DEF CountsOK

\* While flush() waits it may be any number; then there is none.
LEMMA FlushPromises ==
  ASSUME PromiseInv, StreamInv', upc = "flushClear", [Next]_vars
  PROVE  NoOverpromise'
<1>1. CASE upc' = "flushClear"
  BY <1>1 DEF NoOverpromise
<1>2. CASE upc' # "flushClear"
  <2>1. FlushClear
    BY <1>2 DEF Next, UserCall, CallWrite, CallRun, CallFlush, CallEnd, CallDestroy,
       MayCall, UserStep, WriteTimeout, WritePromise, WriteSet, FlushLock, Join,
       WriterStep, WriterLock, WriterCheck, WriterBlock, WriterExit, WriterStay,
       WriterClear, WriterPush, WriterTest, WriterTestStop, WriterPauseCheck,
       WriterPauseBlock, WriterAgain, WriterEnd, WriterGoes, UsbStep, OutBegins,
       OutSubmitted, EncodeFiller, EncodeNext, EncodePop, EncodeFallback, EncodeThrow,
       SampleDone, UsbUnchanged, vars, userVars
  <2>2. avail' = 0
    BY <2>1 DEF FlushClear
  <2> QED BY <2>2, ComingCountsNext DEF CountsOK
<1> QED BY <1>1, <1>2

\* write() promises what it then hands over.
LEMMA UserPromises ==
  ASSUME PromiseInv, StreamInv', upc # "flushClear", UserCall \/ UserStep
  PROVE  NoOverpromise'
<1> USE DEF vars, userVars, writerVars, usbVars, captureVars, lockVars, bufVars, MayCall
<1>0. StreamInv /\ avail \in Nat /\ Coming \in Nat /\ Len(q) \in Nat /\ Len(buf) \in Nat
      /\ it \in Nat /\ arg.n \in Nat /\ avail <= Coming
  BY ComingCounts DEF PromiseInv, CountsOK
<1>1. CASE UserCall
  <2>1. /\ UNCHANGED <<avail, q, buf, it, nextOut>>
        /\ upc # "writeSet" /\ upc' # "writeSet"
    BY <1>1 DEF UserCall, CallWrite, CallRun, CallFlush, CallEnd, CallDestroy
  <2>2. Coming' = Coming
    BY <2>1 DEF Coming
  <2> QED BY <1>0, <2>1, <2>2, NothingTaken
<1>2. CASE WriteTimeout
  <2>1. Coming' = Coming /\ avail' = avail
    BY <1>2 DEF WriteTimeout, Coming
  <2> QED BY <1>0, <2>1, NothingTaken
<1>3. CASE WritePromise
  <2>1. Coming' = Coming + arg.n
    BY <1>0, <1>3 DEF WritePromise, Coming
  <2>2. avail' <= avail + arg.n
    <3>1. avail' = (avail + arg.n) % AvailMod
      BY <1>3 DEF WritePromise, Plus
    <3>2. \A a \in Nat, m \in Nat \ {0} : a % m <= a
      OBVIOUS
    <3> QED BY <1>0, <3>1, <3>2, WriteChannelAssumption
  <2>3. avail' \in Nat
    BY ComingCountsNext DEF CountsOK
  <2>4. avail' <= Coming'
    BY <1>0, <2>1, <2>2, <2>3
  <2> QED BY <2>4, ComingCountsNext DEF CountsOK
<1>4. CASE WriteSet
  <2>1. buf = <<>> /\ arg.n \in Nat /\ stamp \in Nat /\ it \in 0 .. Len(buf)
    BY <1>0, <1>4, ComingCounts
    DEF CountsOK, WriteSet, StreamInv, WritingOK, ChannelInv, ThreadTypeOK, ValueTypeOK
  <2>2. Len(buf) = 0
    BY <2>1, EmptySeq
  <2>3. Len(buf') = arg.n
    BY <1>4, <2>1, NumberedSeq DEF WriteSet
  <2>4. Coming' = Coming /\ avail' = avail
    BY <1>0, <1>4, <2>1, <2>2, <2>3 DEF WriteSet, Coming
  <2> QED BY <1>0, <2>4, NothingTaken
<1>5. CASE FlushLock
  BY <1>5 DEF FlushLock, NoOverpromise
<1>6. CASE FlushClear \/ Join
  BY <1>0, <1>6 DEF FlushClear, Join, StreamInv, PlainOK
<1> QED BY <1>1, <1>2, <1>3, <1>4, <1>5, <1>6 DEF UserStep

\* The write thread moves samples from its buffer to the queue, and gives up
\* none but for a flush().
LEMMA WriterPromises ==
  ASSUME PromiseInv, StreamInv', upc # "flushClear", WriterStep
  PROVE  NoOverpromise'
<1> USE DEF vars, userVars, writerVars, usbVars, captureVars, lockVars, bufVars
<1>0. StreamInv /\ avail \in Nat /\ Coming \in Nat /\ Len(q) \in Nat /\ Len(buf) \in Nat
      /\ it \in Nat /\ arg.n \in Nat
  BY ComingCounts DEF PromiseInv, CountsOK
<1>1. CASE WriterPush
  <2>1. /\ SubSeq(buf, it + 1, it + Fitting) \in Seq(Nat)
        /\ Len(SubSeq(buf, it + 1, it + Fitting)) = Fitting /\ Fitting \in Nat
    BY <1>0, PushedTypes DEF StreamInv, ChannelInv
  <2>2. q \in Seq(Nat)
    BY <1>0 DEF StreamInv, ChannelInv, QueueTypeOK
  <2>3. Len(q') = Len(q) + Fitting
    BY <1>1, <2>1, <2>2, SampleLengths DEF WriterPush
  <2>4. UNCHANGED <<avail, nextOut, upc, arg, buf>> /\ it' = it + Fitting
    BY <1>1 DEF WriterPush
  <2>5. Len(q') + (Len(buf') - it') = Len(q) + (Len(buf) - it)
    BY <1>0, <2>1, <2>3, <2>4
  <2>6. Coming' = Coming
    BY <2>4, <2>5 DEF Coming
  <2> QED BY <1>0, <2>4, <2>6, NothingTaken
<1>2. CASE WriterAgain
  BY <1>0, <1>2 DEF WriterAgain, StreamInv, PlainOK
<1>3. CASE WriterEnd
  <2>1. it = Len(buf)
    BY <1>0, <1>3 DEF WriterEnd, StreamInv, StoppingOK
  <2>2. buf' = <<>> /\ it' = 0
    BY <1>0, <1>3 DEF WriterEnd, StreamInv, PlainOK
  <2>3. Len(buf') = 0
    BY <2>2, EmptySeq
  <2>4. UNCHANGED <<avail, nextOut, upc, arg, q>>
    BY <1>3 DEF WriterEnd
  <2>5. Len(buf') - it' = Len(buf) - it
    BY <1>0, <2>1, <2>2, <2>3
  <2>6. Coming' = Coming
    BY <2>4, <2>5 DEF Coming
  <2> QED BY <1>0, <2>4, <2>6, NothingTaken
<1>4. ASSUME \E from, to : WriterGoes(from, to)
      PROVE  NoOverpromise'
  <2>1. Coming' = Coming /\ avail' = avail
    BY <1>4 DEF WriterGoes, Coming
  <2> QED BY <1>0, <2>1, NothingTaken
<1> QED
  BY <1>1, <1>2, <1>3, <1>4
  DEF WriterStep, WriterLock, WriterCheck, WriterBlock, WriterExit, WriterStay,
      WriterClear, WriterTest, WriterTestStop, WriterPauseCheck, WriterPauseBlock

\* encode_out takes one promise for one sample; a peeked one costs a promise
\* and stays.
LEMMA UsbPromises ==
  ASSUME PromiseInv, StreamInv', upc # "flushClear", UsbStep
  PROVE  NoOverpromise'
<1> USE DEF vars, userVars, writerVars, usbVars, captureVars, lockVars, bufVars,
            UsbUnchanged
<1>0. StreamInv /\ avail \in 0 .. AvailMod - 1 /\ Coming \in Nat /\ Len(q) \in Nat
      /\ Len(buf) \in Nat /\ it \in Nat /\ arg.n \in Nat /\ avail <= Coming
  BY ComingCounts DEF PromiseInv, CountsOK
<1>1. ASSUME Encoding, Promised, NEW v, Emits(v)
      PROVE  avail' = avail - 1 /\ avail > 0
  <2>1. avail > 0
    BY <1>1 DEF Promised, Encoding, PromiseInv, FiniteOK
  <2>2. avail - 1 \in 0 .. AvailMod - 1 /\ AvailMod \in Nat \ {0}
    BY <1>0, <2>1, WriteChannelAssumption
  <2>3. \A a \in Nat, m \in Nat \ {0} : a < m => a % m = a
    OBVIOUS
  <2>4. (avail - 1) % AvailMod = avail - 1
    BY <2>2, <2>3
  <2> QED BY <1>1, <2>1, <2>4 DEF Emits, Minus
<1>2. CASE EncodeNext
  <2>9. avail' \in Nat /\ Coming' \in Nat
    BY ComingCountsNext DEF CountsOK
  <2>1. avail' = avail - 1
    BY <1>1, <1>2 DEF EncodeNext
  <2>2. Coming - 1 <= Coming'
    BY <1>0, <1>2 DEF EncodeNext, SampleDone, Coming
  <2>3. avail' <= Coming'
    BY <1>0, <2>1, <2>2, <2>9
  <2> QED BY <2>3, ComingCountsNext DEF CountsOK
<1>3. CASE EncodePop
  <2>9. avail' \in Nat /\ Coming' \in Nat
    BY ComingCountsNext DEF CountsOK
  <2>1. avail' = avail - 1
    BY <1>1, <1>3 DEF EncodePop
  <2>2. q \in Seq(Nat)
    BY <1>0 DEF StreamInv, ChannelInv, QueueTypeOK
  <2>3. Len(q') = Len(q) - 1
    BY <1>3, <2>2, HeadTailProperties DEF EncodePop
  <2>4. Coming - 1 <= Coming'
    BY <1>0, <1>3, <2>3 DEF EncodePop, SampleDone, Coming
  <2>5. avail' <= Coming'
    BY <1>0, <2>1, <2>4, <2>9
  <2> QED BY <2>5, ComingCountsNext DEF CountsOK
<1>4. CASE OutBegins \/ OutSubmitted \/ EncodeFiller \/ EncodeFallback \/ EncodeThrow
  <2>1. UNCHANGED <<avail, q, buf, it, nextOut, upc, arg>>
    BY <1>4 DEF OutBegins, OutSubmitted, EncodeFiller, EncodeFallback, EncodeThrow,
       SampleDone
  <2>2. Coming' = Coming
    BY <2>1 DEF Coming
  <2> QED BY <1>0, <2>1, <2>2, NothingTaken
<1> QED BY <1>2, <1>3, <1>4 DEF UsbStep

\* A finite capture stays one: only run() sets m_sample_count.
LEMMA StaysFinite ==
  ASSUME FiniteUse, StreamInv, FiniteOK, [Next]_vars
  PROVE  FiniteOK'
<1> USE DEF FiniteOK, vars, userVars, writerVars, usbVars, captureVars, lockVars, bufVars
<1>1. CASE UNCHANGED vars
  BY <1>1
<1>2. CASE \E n \in Counts : CallRun(n)
  BY <1>2, WriteChannelAssumption DEF CallRun, FiniteUse
<1>3. CASE CallEnd
  BY <1>3 DEF CallEnd, FiniteUse, PlainUse
<1>4. ASSUME ~\E n \in Counts : CallRun(n), ~CallEnd, Next
      PROVE  /\ UNCHANGED <<sampling, count>>
             /\ epc' = "encode" => sampling \/ epc = "encode"
  BY <1>4 DEF Next, UserCall, CallWrite, CallFlush, CallDestroy, UserStep, WriteTimeout,
     WritePromise, WriteSet, FlushLock, FlushClear, Join, WriterStep, WriterLock,
     WriterCheck, WriterBlock, WriterExit, WriterStay, WriterClear, WriterPush, WriterTest,
     WriterTestStop, WriterPauseCheck, WriterPauseBlock, WriterAgain, WriterEnd,
     WriterGoes, UsbStep, OutBegins, OutSubmitted, EncodeFiller, EncodeNext, EncodePop,
     EncodeFallback, EncodeThrow, Encoding, SampleDone, UsbUnchanged
<1> QED BY <1>1, <1>2, <1>3, <1>4

\* Every step keeps the promises.
LEMMA NextPromises ==
  ASSUME FiniteUse
  PROVE  PromiseInv /\ [Next]_vars => PromiseInv'
<1> SUFFICES ASSUME PromiseInv, [Next]_vars
             PROVE  PromiseInv'
  OBVIOUS
<1>1. StreamInv'
  BY NextStream DEF FiniteUse, PromiseInv
<1>2. FiniteOK'
  BY StaysFinite DEF PromiseInv
<1>3. NoOverpromise'
  <2>1. CASE upc = "flushClear"
    BY <1>1, <2>1, FlushPromises
  <2>2. CASE upc # "flushClear" /\ UNCHANGED vars
    BY <2>2 DEF PromiseInv, NoOverpromise, Rest, vars, userVars, writerVars, usbVars,
       captureVars, lockVars, bufVars
  <2>3. CASE upc # "flushClear" /\ Next
    BY <1>1, <2>3, UserPromises, WriterPromises, UsbPromises DEF Next
  <2> QED BY <2>1, <2>2, <2>3
<1> QED BY <1>1, <1>2, <1>3 DEF PromiseInv

\* In finite captures m_out_samples_avail never promises encode_out more than
\* is queued, in the buffer or about to be handed over, however write(),
\* flush(), the write thread and the peek of the last sample interleave.
THEOREM NoOverpromiseHolds ==
  ASSUME FiniteUse
  PROVE  Spec => []NoOverpromise
<1>1. Init => PromiseInv
  <2> SUFFICES ASSUME Init PROVE PromiseInv
    OBVIOUS
  <2>1. StreamInv
    BY InitStream
  <2>2. avail = 0 /\ FiniteOK
    BY DEF Init, FiniteOK
  <2>3. NoOverpromise
    BY <2>1, <2>2, ComingCounts DEF CountsOK
  <2> QED BY <2>1, <2>2, <2>3 DEF PromiseInv
<1>2. PromiseInv => NoOverpromise
  BY DEF PromiseInv
<1> QED BY <1>1, <1>2, NextPromises, PTL DEF Spec

=============================================================================
