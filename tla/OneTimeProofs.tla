---------------------------- MODULE OneTimeProofs ----------------------------
(***************************************************************************)
(* Proofs about OneTime for every set of values: the inductive invariant,  *)
(* the two safety properties checked by the runs, and the safety part of   *)
(* the refinement of OneShot (its liveness part is left to TLC).           *)
(***************************************************************************)
EXTENDS OneTime, TLAPS

\* The channel starts in a state of the invariant.
LEMMA InitIInv == Init => IInv
  BY NoneIsNoValue
  DEF Init, IInv, TypeOK, LockInv, CellInv, StageInv

\* Every step of the two halves preserves the invariant.
LEMMA NextIInv == IInv /\ [Next]_vars => IInv'
<1> SUFFICES ASSUME IInv, [Next]_vars PROVE IInv'
  OBVIOUS
<1> USE NoneIsNoValue
<1> USE DEF IInv, TypeOK, LockInv, CellInv, StageInv, txVars, rxVars
<1>1. ASSUME NEW v \in Value, SendUpgrade(v) PROVE IInv'
  BY <1>1 DEF SendUpgrade, RxAlive
<1>2. CASE DropUnsent
  BY <1>2 DEF DropUnsent
<1>3. CASE SendStore
  BY <1>3 DEF SendStore
<1>4. CASE SendNotify
  BY <1>4 DEF SendNotify, NotifyAll
<1>5. CASE SendUnlock
  BY <1>5 DEF SendUnlock
<1>6. CASE DropNotify
  BY <1>6 DEF DropNotify, NotifyAll, RxAlive
<1>7. CASE DropWeak
  BY <1>7 DEF DropWeak
<1>8. CASE RecvStart
  BY <1>8 DEF RecvStart
<1>9. CASE RecvLock
  BY <1>9 DEF RecvLock
<1>10. CASE RecvTest
  BY <1>10 DEF RecvTest
<1>11. CASE RecvCount
  BY <1>11 DEF RecvCount, WeakCount
<1>12. CASE RecvPark
  BY <1>12 DEF RecvPark
<1>13. CASE RecvWake
  BY <1>13 DEF RecvWake
<1>14. CASE RecvCancel
  BY <1>14 DEF RecvCancel
<1>15. CASE UNCHANGED vars
  BY <1>15 DEF vars
<1> QED
  BY <1>1, <1>2, <1>3, <1>4, <1>5, <1>6, <1>7, <1>8, <1>9, <1>10, <1>11,
     <1>12, <1>13, <1>14, <1>15 DEF Next

\* The mutex is held exactly in the critical sections and the value is in one
\* place, in every reachable state of OneSender and OneReceiver.
THEOREM ChannelInv == Spec => []IInv
<1>1. Init => IInv
  BY InitIInv
<1>2. IInv /\ [Next]_vars => IInv'
  BY NextIInv
<1> QED
  BY <1>1, <1>2, PTL DEF Spec, SafeSpec

\* recv() reports a closed channel only when nothing was stored in it.
THEOREM ClosedIsEmpty == Spec => []NoFalseClosed
<1>1. IInv => NoFalseClosed
  BY DEF IInv, StageInv, CellInv, NoFalseClosed
<1> QED
  BY <1>1, ChannelInv, PTL

------------------------------------------------------------------------------
(* A parked receiver and a stored value. *)

\* While the receiver is parked its waker is registered or already marked; it
\* is the strengthening NoMissedStore needs.
ParkInv ==
  /\ NoMissedStore
  /\ rx = "parked" => waker \in {"waiting", "notified"}
  /\ rx # "parked" => waker = "none"

\* A store never goes unannounced to a parked receiver.
THEOREM StoreIsSeen == Spec => []NoMissedStore
<1>1. Init => ParkInv
  BY DEF Init, ParkInv, NoMissedStore
<1>2. ASSUME IInv, ParkInv, [Next]_vars PROVE ParkInv'
  <2> USE <1>2
  <2> USE DEF ParkInv, NoMissedStore, txVars, rxVars
  <2>1. ASSUME NEW v \in Value, SendUpgrade(v) PROVE ParkInv'
    BY <2>1 DEF SendUpgrade
  <2>2. CASE DropUnsent
    BY <2>2 DEF DropUnsent
  <2>3. CASE SendStore
    BY <2>3 DEF SendStore
  <2>4. CASE SendNotify
    BY <2>4 DEF SendNotify, NotifyAll
  <2>5. CASE SendUnlock
    BY <2>5 DEF SendUnlock
  <2>6. CASE DropNotify
    BY <2>6 DEF DropNotify, NotifyAll, RxAlive
  <2>7. CASE DropWeak
    BY <2>7 DEF DropWeak
  <2>8. CASE RecvStart
    BY <2>8 DEF RecvStart
  <2>9. CASE RecvLock
    BY <2>9 DEF RecvLock
  <2>10. CASE RecvTest
    BY <2>10 DEF RecvTest
  <2>11. CASE RecvCount
    BY <2>11 DEF RecvCount
  <2>12. CASE RecvPark
    \* The receiver parks with the mutex in hand, and it saw an empty cell.
    BY <2>12 DEF RecvPark, IInv, CellInv
  <2>13. CASE RecvWake
    BY <2>13 DEF RecvWake
  <2>14. CASE RecvCancel
    BY <2>14 DEF RecvCancel
  <2>15. CASE UNCHANGED vars
    BY <2>15 DEF vars
  <2> QED
    BY <2>1, <2>2, <2>3, <2>4, <2>5, <2>6, <2>7, <2>8, <2>9, <2>10, <2>11,
       <2>12, <2>13, <2>14, <2>15 DEF Next
<1>3. ParkInv => NoMissedStore
  BY DEF ParkInv
<1> QED
  BY <1>1, <1>2, <1>3, ChannelInv, PTL DEF Spec, SafeSpec

------------------------------------------------------------------------------
(* Refinement of OneShot. *)

\* The initial state of the channel is an initial state of the promise.
LEMMA InitRefines == Init => Abs!Init
  BY DEF Init, Abs!Init, SendFate, RecvFate, RxAlive

\* Each step of the two halves is a step of the promise, or invisible to it.
LEMMA NextRefines == IInv /\ [Next]_vars => [Abs!Next]_(Abs!vars)
<1> SUFFICES ASSUME IInv, [Next]_vars PROVE [Abs!Next]_(Abs!vars)
  OBVIOUS
<1> USE NoneIsNoValue
<1> USE DEF IInv, TypeOK, LockInv, CellInv, StageInv, txVars, rxVars,
            Abs!vars, SendFate, RecvFate, RxAlive
<1>1. ASSUME NEW v \in Value, SendUpgrade(v) PROVE Abs!Refuse \/ UNCHANGED Abs!vars
  BY <1>1 DEF SendUpgrade, Abs!Refuse
<1>2. CASE DropUnsent
  BY <1>2 DEF DropUnsent, Abs!Abandon, Abs!Next
<1>3. CASE SendStore
  <2>1. txVal \in Value
    BY <1>3 DEF SendStore
  <2>2. Abs!Put(txVal)
    BY <1>3 DEF SendStore, Abs!Put
  <2> QED
    BY <2>1, <2>2 DEF Abs!Next
<1>4. CASE SendNotify
  BY <1>4 DEF SendNotify
<1>5. CASE SendUnlock
  BY <1>5 DEF SendUnlock
<1>6. CASE DropNotify
  BY <1>6 DEF DropNotify
<1>7. CASE DropWeak
  BY <1>7 DEF DropWeak
<1>8. CASE RecvStart
  BY <1>8 DEF RecvStart
<1>9. CASE RecvLock
  BY <1>9 DEF RecvLock
<1>10. CASE RecvTest
  <2>1. CASE slot # None
    BY <1>10, <2>1 DEF RecvTest, Abs!Take, Abs!Next
  <2>2. CASE slot = None
    BY <1>10, <2>2 DEF RecvTest
  <2> QED
    BY <2>1, <2>2
<1>11. CASE RecvCount
  <2>1. CASE WeakCount = 0
    BY <1>11, <2>1 DEF RecvCount, WeakCount, Abs!Close, Abs!Next
  <2>2. CASE WeakCount # 0
    BY <1>11, <2>2 DEF RecvCount
  <2> QED
    BY <2>1, <2>2
<1>12. CASE RecvPark
  BY <1>12 DEF RecvPark
<1>13. CASE RecvWake
  BY <1>13 DEF RecvWake
<1>14. CASE RecvCancel
  BY <1>14 DEF RecvCancel, Abs!Cancel, Abs!Next
<1>15. CASE UNCHANGED vars
  BY <1>15 DEF vars
<1> QED
  BY <1>1, <1>2, <1>3, <1>4, <1>5, <1>6, <1>7, <1>8, <1>9, <1>10, <1>11,
     <1>12, <1>13, <1>14, <1>15 DEF Next, Abs!Next

\* The mutex, the condition variable and the weak pointer together implement
\* the one-time channel OneShot (safety).
THEOREM RefinesOneShot == Spec => Abs!SafeSpec
<1>1. Init => Abs!Init
  BY InitRefines
<1>2. IInv /\ [Next]_vars => [Abs!Next]_(Abs!vars)
  BY NextRefines
<1> QED
  BY <1>1, <1>2, ChannelInv, PTL DEF Spec, SafeSpec, Abs!SafeSpec
==============================================================================
