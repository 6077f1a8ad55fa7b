------------------------------- MODULE OneShot -------------------------------
(***************************************************************************)
(* What the one-time channel of src/gatt/server/one_time.rs promises to    *)
(* the workers and to the callers of AppWorker: one value travels at most  *)
(* once from the sending half to the receiving half, the receiver is told  *)
(* that the channel is closed only when no value was or ever will be       *)
(* stored, and a stored value reaches a receiver that keeps waiting.       *)
(***************************************************************************)
CONSTANTS Value,  \* the values the channel can carry
          Empty   \* the content of the cell when it holds no value, not in Value

VARIABLES cell,   \* the shared Option<T>
          send,   \* fate of the sending half
          recv,   \* fate of the receiving half
          out     \* what recv() returned in Ok, Empty until then

vars == <<cell, send, recv, out>>

Init ==
  /\ cell = Empty
  /\ send = "open"
  /\ recv = "waiting"
  /\ out = Empty

\* OneSender::send stores the value; the receiver may be gone by then.
Put(v) ==
  /\ send = "open"
  /\ cell' = v
  /\ send' = "sent"
  /\ UNCHANGED <<recv, out>>

\* OneSender::send finds no receiver and gives the value back.
Refuse ==
  /\ send = "open"
  /\ recv = "cancelled"
  /\ send' = "refused"
  /\ UNCHANGED <<cell, recv, out>>

\* The sending half is dropped unused.
Abandon ==
  /\ send = "open"
  /\ send' = "dropped"
  /\ UNCHANGED <<cell, recv, out>>

\* OneReceiver::recv returns the value.
Take ==
  /\ recv = "waiting"
  /\ cell # Empty
  /\ recv' = "got"
  /\ out' = cell
  /\ cell' = Empty
  /\ UNCHANGED send

\* OneReceiver::recv returns RecvError: only after the sender gave up.
Close ==
  /\ recv = "waiting"
  /\ send = "dropped"
  /\ recv' = "closed"
  /\ UNCHANGED <<cell, send, out>>

\* The future of recv() is dropped by its owner.
Cancel ==
  /\ recv = "waiting"
  /\ recv' = "cancelled"
  /\ UNCHANGED <<cell, send, out>>

Next ==
  \/ \E v \in Value : Put(v)
  \/ Refuse \/ Abandon
  \/ Take \/ Close \/ Cancel

SafeSpec == Init /\ [][Next]_vars

\* A stored value is delivered unless the receiver is dropped.
Spec == SafeSpec /\ WF_vars(Take)
==============================================================================
