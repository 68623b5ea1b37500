---------------------------- MODULE SampleStream ----------------------------
(***************************************************************************)
(* What a channel promises the application that writes samples to it: they *)
(* come out in the order they were written, none twice and none invented;  *)
(* only flush() drops samples.  WriteChannel implements it: see            *)
(* WriteChannelRefines.                                                    *)
(***************************************************************************)
EXTENDS Integers, Sequences

VARIABLES pending,   \* samples written and not sent, oldest first
          accepted,  \* the last sample write() took
          sent,      \* the last sample that went out
          flushing   \* flush() is under way

vars == <<pending, accepted, sent, flushing>>

Init == pending = <<>> /\ accepted = 0 /\ sent = 0 /\ flushing = FALSE

\* write() hands over n samples.
Write(n) ==
  /\ ~flushing
  /\ pending' = pending \o [i \in 1 .. n |-> accepted + i]
  /\ accepted' = accepted + n
  /\ UNCHANGED <<sent, flushing>>

Send ==
  /\ pending # <<>>
  /\ sent' = Head(pending)
  /\ pending' = Tail(pending)
  /\ UNCHANGED <<accepted, flushing>>

FlushBegins ==
  /\ ~flushing /\ flushing' = TRUE
  /\ UNCHANGED <<pending, accepted, sent>>

\* Some consecutive samples are dropped.
Drop(i, j) ==
  /\ flushing
  /\ pending' = SubSeq(pending, 1, i) \o SubSeq(pending, j, Len(pending))
  /\ UNCHANGED <<accepted, sent>>
  /\ flushing' \in BOOLEAN

Next ==
  \/ \E n \in 1 .. Len(pending') : Write(n)
  \/ Send \/ FlushBegins
  \/ \E i \in 0 .. Len(pending), j \in 1 .. Len(pending) + 1 : i < j /\ Drop(i, j)

Spec == Init /\ [][Next]_vars

=============================================================================
