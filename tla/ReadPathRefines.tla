--------------------------- MODULE ReadPathRefines ---------------------------
(***************************************************************************)
(* ReadPath implements SampleFeed: the queue is what can be delivered, the *)
(* variable `sample' of read() what was delivered last.                    *)
(***************************************************************************)
EXTENDS ReadPath

\* What start()'s argument leaves to be queued (device_m1000.cpp:742-743).
Asked == IF count = 0 THEN -1 ELSE IF inNo < count THEN count - inNo ELSE 0

Feed == INSTANCE SampleFeed WITH
  asked <- Asked, arrived <- made, pending <- q, delivered <- last

\* handle_in_transfer, read() and flush() together keep the promises of
\* SampleFeed: samples in order, once, and no gap before it is reported.
ImplementsFeed == Feed!Spec

=============================================================================
