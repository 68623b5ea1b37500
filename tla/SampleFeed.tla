----------------------------- MODULE SampleFeed -----------------------------
(***************************************************************************)
(* What a device promises the application that reads its samples: they are *)
(* delivered in the order they were taken, none twice and none invented;   *)
(* what the application did not discard is missing only where the device   *)
(* overran the queue, and no read returns normally across such a gap       *)
(* before the gap has been reported.  ReadPath implements it.              *)
(***************************************************************************)
EXTENDS Integers, Sequences

VARIABLES asked,      \* samples still asked for, Unlimited or a number
          arrived,    \* samples the device has sent so far
          pending,    \* those that can still be delivered, oldest first
          delivered,  \* the last one copied out to the application
          returned,   \* the last one a read that returned normally gave
          lost        \* the first lost sample not reported yet, 0 for none

vars == <<asked, arrived, pending, delivered, returned, lost>>

Unlimited == -1

Init ==
  /\ asked = Unlimited /\ arrived = 0 /\ pending = <<>>
  /\ delivered = 0 /\ returned = 0 /\ lost = 0

\* A capture of asked' samples begins.
Ask ==
  /\ asked' \in Int
  /\ UNCHANGED <<arrived, pending, delivered, returned, lost>>

\* The next sample arrives and is kept ...
Arrive ==
  /\ asked # 0
  /\ asked' = IF asked = Unlimited THEN asked ELSE asked - 1
  /\ arrived' = arrived + 1
  /\ pending' = Append(pending, arrived')
  /\ UNCHANGED <<delivered, returned, lost>>

\* ... unless nobody asked for it.
Ignore ==
  /\ asked = 0
  /\ arrived' = arrived + 1
  /\ UNCHANGED <<asked, pending, delivered, returned, lost>>

\* The next samples find no room; they need not all count as asked for.
Lose ==
  /\ arrived' > arrived
  /\ lost' = IF lost = 0 THEN arrived + 1 ELSE lost
  /\ asked' \in Int
  /\ UNCHANGED <<pending, delivered, returned>>

Deliver ==
  /\ pending # <<>>
  /\ delivered' = Head(pending)
  /\ pending' = Tail(pending)
  /\ UNCHANGED <<asked, arrived, returned, lost>>

\* The application gives up the oldest n samples.
Discard(n) ==
  /\ pending' = SubSeq(pending, n + 1, Len(pending))
  /\ UNCHANGED <<asked, arrived, delivered, returned, lost>>

Report ==
  /\ lost' = 0
  /\ UNCHANGED <<asked, arrived, pending, delivered, returned>>

ReturnSamples ==
  /\ lost = 0 \/ delivered < lost
  /\ returned' = delivered
  /\ UNCHANGED <<asked, arrived, pending, delivered, lost>>

Next ==
  \/ Ask \/ Arrive \/ Ignore \/ Lose \/ Deliver \/ Report \/ ReturnSamples
  \/ \E n \in 1 .. Len(pending) : Discard(n)

Spec == Init /\ [][Next]_vars

=============================================================================
