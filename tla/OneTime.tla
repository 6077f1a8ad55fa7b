------------------------------- MODULE OneTime -------------------------------
(***************************************************************************)
(* src/gatt/server/one_time.rs: OneSender and OneReceiver, built from an   *)
(* Arc<(Mutex<Option<T>>, Condvar)> the sender only holds weakly.  Each    *)
(* step that the other half can observe is an action of its own: the       *)
(* upgrade of the weak pointer, the spin on try_lock, the store, the       *)
(* notification, the unlock, the second notification made by Drop, and the *)
(* release of the weak pointer, which happens after Drop::drop returns; on *)
(* the other side the lock, the test of the cell, the read of weak_count,  *)
(* the registration of the waker and the wake-up.                          *)
(* Mutex and Condvar are those of async_std: a waker is registered and the *)
(* guard released by the first poll of wait(), and notify_all marks the    *)
(* wakers registered at that moment.                                       *)
(***************************************************************************)
CONSTANTS Value,  \* the values the channel can carry
          None    \* Option::None in the mutex

ASSUME NoneIsNoValue == None \notin Value

VARIABLES
  slot,     \* content of the mutex: None or a value
  lock,     \* who holds the mutex: "free", "tx" or "rx"
  waker,    \* the receiver's waker in the condvar: "none", "waiting", "notified"
  tx,       \* where the sending half is
  txVal,    \* the argument of send
  txRes,    \* "unsent", "sent" (Ok) or "refused" (SendError)
  rx,       \* where the receiving half is
  rxVal     \* what recv() returned in Ok, None until then

vars == <<slot, lock, waker, tx, txVal, txRes, rx, rxVal>>
txVars == <<tx, txVal, txRes>>
rxVars == <<rx, rxVal>>

\* OneReceiver still owns its Arc: Weak::upgrade succeeds.
RxAlive == rx \notin {"got", "closed", "cancelled"}

\* A bug of the kind the module must exclude: the strong count is read, which
\* the receiver's own Arc keeps up.
StrongCount == 1

\* Arc::weak_count: the OneSender's Weak exists until its fields are dropped.
WeakCount == IF tx = "gone" THEN 0 ELSE 1

\* Condvar::notify_all on a condvar that has at most one waiter.
NotifyAll(w) == IF w = "waiting" THEN "notified" ELSE w

\* one_time_channel()
Init ==
  /\ slot = None /\ lock = "free" /\ waker = "none"
  /\ tx = "hold" /\ txVal = None /\ txRes = "unsent"
  /\ rx = "start" /\ rxVal = None

------------------------------------------------------------------------------
(* OneSender *)

\* send(val): upgrade the weak pointer, or return SendError.
SendUpgrade(v) ==
  /\ tx = "hold"
  /\ txVal' = v
  /\ IF RxAlive
     THEN tx' = "spin" /\ UNCHANGED txRes
     ELSE tx' = "drop" /\ txRes' = "refused"
  /\ UNCHANGED <<slot, lock, waker, rxVars>>

\* try_lock succeeds and the value is stored under the lock.
SendStore ==
  /\ tx = "spin"
  /\ lock = "free"
  /\ lock' = "tx"
  /\ slot' = txVal
  /\ txRes' = "sent"
  /\ tx' = "stored"
  /\ UNCHANGED <<waker, txVal, rxVars>>

\* A bug of the kind the module must exclude: the store is not announced.
SendNotifyNobody ==
  /\ tx = "stored"
  /\ tx' = "notified"
  /\ UNCHANGED <<slot, lock, waker, txVal, txRes, rxVars>>

SendNotify ==
  /\ tx = "stored"
  /\ waker' = NotifyAll(waker)
  /\ tx' = "notified"
  /\ UNCHANGED <<slot, lock, txVal, txRes, rxVars>>

\* return Ok(()): the guard is dropped, then the OneSender.
SendUnlock ==
  /\ tx = "notified"
  /\ lock' = "free"
  /\ tx' = "drop"
  /\ UNCHANGED <<slot, waker, txVal, txRes, rxVars>>

\* The OneSender goes out of scope without send having been called.
DropUnsent ==
  /\ tx = "hold"
  /\ tx' = "drop"
  /\ UNCHANGED <<slot, lock, waker, txVal, txRes, rxVars>>

\* Drop::drop: notify_all if the receiver is still there (no lock is taken).
DropNotify ==
  /\ tx = "drop"
  /\ waker' = IF RxAlive THEN NotifyAll(waker) ELSE waker
  /\ tx' = "dropped"
  /\ UNCHANGED <<slot, lock, txVal, txRes, rxVars>>

\* After Drop::drop the field `inner` is dropped: weak_count becomes 0.
DropWeak ==
  /\ tx = "dropped"
  /\ tx' = "gone"
  /\ UNCHANGED <<slot, lock, waker, txVal, txRes, rxVars>>

------------------------------------------------------------------------------
(* OneReceiver::recv *)

\* First poll: self.inner.0.lock().await
RecvStart ==
  /\ rx = "start"
  /\ rx' = "locking"
  /\ UNCHANGED <<slot, lock, waker, txVars, rxVal>>

\* The mutex is acquired, at the start or inside wait() after a wake-up.
RecvLock ==
  /\ rx = "locking"
  /\ lock = "free"
  /\ lock' = "rx"
  /\ rx' = "locked"
  /\ UNCHANGED <<slot, waker, txVars, rxVal>>

\* A bug of the kind the module must exclude: the guard is released before
\* weak_count is read, so a store can slip in between.
RecvTestUnlocked ==
  /\ rx = "locked"
  /\ IF slot # None
     THEN rx' = "got" /\ rxVal' = slot /\ slot' = None
     ELSE rx' = "empty" /\ UNCHANGED <<slot, rxVal>>
  /\ lock' = "free"
  /\ UNCHANGED <<waker, txVars>>

\* Another one: the value is copied out of the mutex instead of taken.
RecvTestCopy ==
  /\ rx = "locked"
  /\ IF slot # None
     THEN rx' = "got" /\ rxVal' = slot /\ lock' = "free"
     ELSE rx' = "empty" /\ UNCHANGED <<rxVal, lock>>
  /\ UNCHANGED <<slot, waker, txVars>>

\* while val.is_none(): the value is taken, or the loop body starts.
RecvTest ==
  /\ rx = "locked"
  /\ IF slot # None
     THEN /\ rx' = "got" /\ rxVal' = slot
          /\ slot' = None /\ lock' = "free"
     ELSE /\ rx' = "empty"
          /\ UNCHANGED <<slot, lock, rxVal>>
  /\ UNCHANGED <<waker, txVars>>

\* Arc::weak_count(&self.inner) == 0: one poll of the wait, which registers,
\* releases the guard and is dropped, then RecvError.
RecvCount ==
  /\ rx = "empty"
  /\ IF WeakCount = 0
     THEN rx' = "closed" /\ lock' = "free"
     ELSE rx' = "waiting" /\ UNCHANGED lock
  /\ UNCHANGED <<slot, waker, txVars, rxVal>>

\* First poll of val_fut: register the waker, release the guard.
RecvPark ==
  /\ rx = "waiting"
  /\ waker' = "waiting"
  /\ lock' = "free"
  /\ rx' = "parked"
  /\ UNCHANGED <<slot, txVars, rxVal>>

\* The waker was notified: wait() goes on to lock the mutex again.
RecvWake ==
  /\ rx = "parked"
  /\ waker = "notified"
  /\ waker' = "none"
  /\ rx' = "locking"
  /\ UNCHANGED <<slot, lock, txVars, rxVal>>

\* The future is dropped at one of its suspension points.
RecvCancel ==
  /\ rx \in {"start", "locking", "parked"}
  /\ rx' = "cancelled"
  /\ waker' = "none"
  /\ UNCHANGED <<slot, lock, txVars, rxVal>>

------------------------------------------------------------------------------
Send == SendStore \/ SendNotify \/ SendUnlock \/ DropNotify \/ DropWeak
Recv == RecvLock \/ RecvTest \/ RecvCount \/ RecvPark \/ RecvWake

Next ==
  \/ \E v \in Value : SendUpgrade(v)
  \/ DropUnsent
  \/ SendStore \/ SendNotify \/ SendUnlock \/ DropNotify \/ DropWeak
  \/ RecvStart \/ RecvLock \/ RecvTest \/ RecvCount \/ RecvPark \/ RecvWake
  \/ RecvCancel

SafeSpec == Init /\ [][Next]_vars

\* Both halves run on executor threads that keep being scheduled once they
\* are inside send, Drop or a poll; whether a half is ever used, and whether
\* the receiving future is dropped, is up to the caller.
Spec == SafeSpec /\ WF_vars(Send) /\ WF_vars(RecvStart \/ Recv)

------------------------------------------------------------------------------
TypeOK ==
  /\ slot \in Value \cup {None}
  /\ lock \in {"free", "tx", "rx"}
  /\ waker \in {"none", "waiting", "notified"}
  /\ tx \in {"hold", "spin", "stored", "notified", "drop", "dropped", "gone"}
  /\ txVal \in Value \cup {None}
  /\ txRes \in {"unsent", "sent", "refused"}
  /\ rx \in {"start", "locking", "locked", "empty", "waiting", "parked",
             "got", "closed", "cancelled"}
  /\ rxVal \in Value \cup {None}

\* The mutex is held exactly inside the critical sections of the two halves.
LockInv ==
  /\ lock = "tx" <=> tx \in {"stored", "notified"}
  /\ lock = "rx" <=> rx \in {"locked", "empty", "waiting"}

\* Where the value is: in flight, in the cell, or handed out, and only once.
CellInv ==
  /\ tx = "spin" => txVal \in Value
  /\ txRes = "sent" => txVal \in Value /\ (rx # "got" => slot = txVal)
  /\ txRes # "sent" => slot = None
  /\ rx = "got" => txRes = "sent" /\ rxVal = txVal /\ slot = None
  /\ rx # "got" => rxVal = None
  /\ rx \in {"empty", "waiting"} => slot = None

\* The stage of the sending half agrees with what send returned.
StageInv ==
  /\ tx \in {"hold", "spin"} => txRes = "unsent"
  /\ tx \in {"stored", "notified"} => txRes = "sent"
  /\ txRes = "refused" => rx = "cancelled"
  /\ rx = "closed" => tx = "gone" /\ txRes = "unsent"

\* The inductive invariant: each state of the two halves fixes who holds the
\* mutex and where the value is; the properties below follow from it.
IInv == TypeOK /\ LockInv /\ CellInv /\ StageInv

\* recv() never reports a closed channel to a caller whose answer was stored:
\* between the test of the cell and the read of weak_count nothing can be
\* stored (one_time.rs:50-58).
NoFalseClosed == rx = "closed" => txRes # "sent" /\ slot = None

\* A parked receiver has not missed the announcement of a stored value: it is
\* marked, or the sender still has its notify_all to make.
NoMissedStore ==
  (rx = "parked" /\ slot # None) => (waker = "notified" \/ tx = "stored")

\* The spin loop of send (one_time.rs:17-29) ends: no poll of the receiver
\* keeps the mutex.
SpinEnds == (tx = "spin") ~> (tx # "spin")

\* The channel implements its abstract specification, including the delivery
\* of a stored value to a receiver that keeps waiting.
SendFate ==
  IF txRes # "unsent" THEN txRes
  ELSE IF tx \in {"hold", "spin"} THEN "open" ELSE "dropped"
RecvFate == IF RxAlive THEN "waiting" ELSE rx

Abs == INSTANCE OneShot WITH Empty <- None, cell <- slot, send <- SendFate,
                             recv <- RecvFate, out <- rxVal
ImplementsOneShot == Abs!Spec

\* A receiver whose sender is gone is told so (RecvError, one_time.rs:52-56),
\* unless Drop's notification came before it was there to be notified: Drop
\* notifies without the lock and before weak_count goes down (one_time.rs:32-38),
\* so a receiver past its read of weak_count by then may sleep forever.
MissedDrop == rx = "waiting" \/ (rx = "parked" /\ waker = "waiting")
DropIsSeen == (tx = "gone" /\ ~MissedDrop) ~> ~RxAlive

\* Neither half waits for the other for ever, but for that missed Drop: the
\* spin of send ends (one_time.rs:17-29), and so does the wait of recv for a
\* sender that is gone (one_time.rs:52-56).
HalvesEnd == SpinEnds /\ DropIsSeen
==============================================================================
