---------------------------- MODULE NotifySession ----------------------------
(***************************************************************************)
(* What Bluez is promised about the notifications of one characteristic:   *)
(* there is at most one session, begun either by AcquireNotify (a socket)  *)
(* or by StartNotify (signals), and a notification is only ever put out    *)
(* inside a session and through the channel that session was begun with.   *)
(***************************************************************************)
VARIABLES session,   \* "none", "signal" or "socket"
          emit       \* the channel the last step notified through, or "none"

vars == <<session, emit>>
Kinds == {"signal", "socket"}

Init == session = "none" /\ emit = "none"

Begin(k) ==
  /\ session = "none"
  /\ session' = k
  /\ emit' = "none"

\* StopNotify, a hang-up by Bluez, or the end of the worker.
End ==
  /\ session # "none"
  /\ session' = "none"
  /\ emit' = "none"

Notify ==
  /\ session # "none"
  /\ emit' = session
  /\ UNCHANGED session

\* A step that has nothing to do with notifications follows one that had.
Quiet == emit' = "none" /\ UNCHANGED session

Next == (\E k \in Kinds : Begin(k)) \/ End \/ Notify \/ Quiet

Spec == Init /\ [][Next]_vars
==============================================================================
