------------------------ MODULE WriteChannelRefines ------------------------
(***************************************************************************)
(* WriteChannel implements SampleStream as long as buffers are not cyclic  *)
(* and the capture is not paused.                                          *)
(***************************************************************************)
EXTENDS WriteChannel

\* A peeked sample, the queue, and what the write thread has yet to push.
Pending == (IF nextOut # None THEN <<nextOut>> ELSE <<>>) \o q \o Rest

Stream == INSTANCE SampleStream
            WITH pending <- Pending, accepted <- stamp, flushing <- upc = "flushClear"

\* Whatever the threads' interleaving, flush() included, the samples written
\* go out in order, none twice, and only flush() loses any.
ImplementsStream == Stream!Spec

=============================================================================
