-------------------------- MODULE CaptureLifecycle --------------------------
(***************************************************************************)
(* What Session promises its caller about a capture (libsmu.hpp:193-260),  *)
(* without transfers, locks or threads: start() launches devices, each     *)
(* launched device finishes once, and end() returns only when none is      *)
(* busy.  Streaming implements it: see StreamingRefines.                   *)
(***************************************************************************)
CONSTANT Devices

VARIABLES phase,    \* where the caller is
          busy,     \* devices that are streaming
          finished  \* devices that completed since the last start()

vars == <<phase, busy, finished>>

Phases == {"stopped", "starting", "running", "ending"}

TypeOK ==
  /\ phase \in Phases
  /\ busy \subseteq Devices
  /\ finished \subseteq Devices

Init == phase = "stopped" /\ busy = {} /\ finished = {}

\* Only a stopped session starts, and nothing is left over in it.
Start ==
  /\ phase = "stopped" /\ busy = {}
  /\ phase' = "starting"
  /\ finished' = {}
  /\ UNCHANGED busy

Launch(d) ==
  /\ phase = "starting" /\ d \notin busy \cup finished
  /\ busy' = busy \cup {d}
  /\ UNCHANGED <<phase, finished>>

\* A device may finish while start() is still launching others.
Finish(d) ==
  /\ d \in busy
  /\ busy' = busy \ {d}
  /\ finished' = finished \cup {d}
  /\ UNCHANGED phase

\* start() returns once every device was launched.
Started ==
  /\ phase = "starting" /\ busy \cup finished = Devices
  /\ phase' = "running"
  /\ UNCHANGED <<busy, finished>>

End ==
  /\ phase = "running"
  /\ phase' = "ending"
  /\ UNCHANGED <<busy, finished>>

\* end() returns only when every device has finished.
Ended ==
  /\ phase = "ending" /\ finished = Devices
  /\ phase' = "stopped"
  /\ UNCHANGED <<busy, finished>>

Next == Start \/ Started \/ End \/ Ended \/ \E d \in Devices : Launch(d) \/ Finish(d)

Spec == Init /\ [][Next]_vars

=============================================================================
