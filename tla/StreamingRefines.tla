-------------------------- MODULE StreamingRefines --------------------------
(***************************************************************************)
(* Streaming implements CaptureLifecycle while nothing fails and end()     *)
(* waits long enough.                                                      *)
(***************************************************************************)
EXTENDS Streaming

Phase ==
  CASE pc[User] \in StartPCs          -> "starting"
    [] pc[User] \in EndPCs            -> IF pc[User] = "end" THEN "running" ELSE "ending"
    [] pc[User] = "cancel" /\ ret[User] = "endLock" -> "ending"
    [] pc[User] = "cancel" /\ ret[User] # "endLock" -> "running"
    [] pc[User] = "idle"              -> IF session = "started" THEN "running" ELSE "stopped"

\* A device is busy from its run() until completion() has counted it out.
InCallback(d) == pc[Usb] \notin {"idle", "compRead", "compLock", "compNotify"} /\ cb.dev = d
Busy == {d \in Devices : ~Drained(d) \/ InCallback(d)}

Finished == {d \in Devices : calls[d] > 0}

Lifecycle == INSTANCE CaptureLifecycle
               WITH phase <- Phase, busy <- Busy, finished <- Finished

\* Every behaviour of the threads, locks and transfers is a behaviour of the
\* lifecycle: a session starts only when nothing of the last capture is left,
\* each device finishes once, end() returns after all of them.
ImplementsLifecycle == Lifecycle!Spec

=============================================================================
