-------------------------- MODULE AttrWorkerProofs --------------------------
(***************************************************************************)
(* Proofs about AttrWorker for every set of values, offsets, handles,      *)
(* flags and calls, and every capacity of the queues.                      *)
(* And about AttBuffer, the buffer a value is kept in, for every size.     *)
(***************************************************************************)
EXTENDS AttrWorker, AttBuffer, TLAPS

\* What a queue may hold once its head is taken.
LEMMA TailType ==
  ASSUME NEW S, NEW s \in Seq(S), s # <<>>
  PROVE  Head(s) \in S /\ Tail(s) \in Seq(S)
  OBVIOUS

\* A message that is put behind others does not change which one is next.
LEMMA AppendType ==
  ASSUME NEW S, NEW s \in Seq(S), NEW e \in S
  PROVE  /\ Append(s, e) \in Seq(S) /\ Append(s, e) # <<>>
         /\ s # <<>> => Head(Append(s, e)) = Head(s)
<1>1. Append(s, e) \in Seq(S) /\ Len(Append(s, e)) = Len(s) + 1 /\ Len(s) \in Nat
  OBVIOUS
<1>2. Append(s, e) # <<>>
  BY <1>1
<1>3. ASSUME s # <<>> PROVE Append(s, e)[1] = s[1]
  BY <1>1, <1>3
<1> QED
  BY <1>1, <1>2, <1>3

\* A question that loses its receiver stays where it is.
LEMMA CancelType ==
  ASSUME NEW k, NEW s \in Seq(Msg(k)), NEW i \in DOMAIN s, s[i].m \in Asks(k)
  PROVE  /\ [s EXCEPT ![i].live = FALSE] \in Seq(Msg(k))
         /\ [s EXCEPT ![i].live = FALSE] # <<>>
         /\ Head([s EXCEPT ![i].live = FALSE]).m = Head(s).m
<1> DEFINE t == [s EXCEPT ![i].live = FALSE]
<1>1. s[i] \in Msg(k) /\ Len(s) \in Nat /\ i \in 1 .. Len(s)
  OBVIOUS
<1>2. s[i] \in Questions(k)
  BY <1>1 DEF Msg, Plain, Updates, Questions, Asks
<1>3. [s[i] EXCEPT !.live = FALSE] \in Questions(k) /\ [s[i] EXCEPT !.live = FALSE].m = s[i].m
  BY <1>2 DEF Questions
<1>4. [s[i] EXCEPT !.live = FALSE] \in Msg(k)
  BY <1>3 DEF Msg
<1>5. t = [s EXCEPT ![i] = [s[i] EXCEPT !.live = FALSE]]
  OBVIOUS
<1>6. t \in Seq(Msg(k)) /\ Len(t) = Len(s) /\ \A j \in 1 .. Len(s) :
        t[j] = IF j = i THEN [s[i] EXCEPT !.live = FALSE] ELSE s[j]
  BY <1>4, <1>5
<1>7. t # <<>> /\ Head(t) = t[1] /\ Head(s) = s[1] /\ 1 \in 1 .. Len(s)
  BY <1>1, <1>6
<1>8. t[1].m = s[1].m
  BY <1>3, <1>6, <1>7
<1> QED
  BY <1>6, <1>7, <1>8

\* AttValue::update keeps a value within the buffer.
LEMMA UpdatedType ==
  ASSUME NEW v \in AttVal, NEW s \in Value, NEW o \in Offsets,
         CanUpdate(v, s, o)
  PROVE  Updated(v, s, o) \in AttVal
<1>1. s \in Seq(Byte) /\ v \in Seq(Byte) /\ o \in 0 .. Len(v)
  BY ValueType, OffsetType DEF AttVal, CanUpdate
<1>2. SubSeq(v, 1, o) \in Seq(Byte) /\ Len(SubSeq(v, 1, o)) = o
  BY <1>1
<1>3. Updated(v, s, o) \in Seq(Byte) /\ Len(Updated(v, s, o)) = o + Len(s)
  BY <1>1, <1>2 DEF Updated
<1> QED
  BY <1>3 DEF AttVal, CanUpdate

\* What a reply answers.
CallNames == {"Get", "Set", "GetAll", "ReadValue", "WriteValue", "Other"}

\* The arguments of the calls that change data.
LEMMA CallArgs ==
  ASSUME NEW c \in Calls
  PROVE  /\ c.m = "WriteValue" => c.val \in Value /\ c.off \in Offsets
         /\ c.m = "Set" => c.val \in Handles
         /\ c.m \in CallNames
<1>1. c \in Call
  BY CallsType
<1> QED
  BY <1>1 DEF Call, PropCalls, ValueCalls, CallNames

------------------------------------------------------------------------------
(* The inductive invariant. *)

LEMMA InitIInv == Init => IInv
<1> SUFFICES ASSUME Init PROVE IInv
  OBVIOUS
<1>1. msgs \in Seq(Msg(kind))
  BY DEF Init
<1>2. TypeOK
  <2>1. kind \in {"serv", "desc"} /\ {declared, told, includes} \subseteq BOOLEAN
    BY DEF Init
  <2>2. value \in AttVal /\ own \in Nat /\ handle \in Nat
    BY ValueType, HandleType DEF Init
  <2>3. calls \in Seq(Calls) /\ senders \in BOOLEAN /\ conn \in BOOLEAN
    BY DEF Init
  <2>4. pc \in {"poll", "polled", "reply"} \cup Ended /\ waited \in Nat
    BY DEF Init
  <2>5. res.req = "none"
    BY DEF Init, Nothing
  <2> QED
    BY <1>1, <2>1, <2>2, <2>3, <2>4, <2>5 DEF TypeOK
<1>3. IncludesInv /\ WaitInv
  BY DEF Init, IncludesInv, WaitInv
<1> QED
  BY <1>2, <1>3 DEF IInv

\* Taking a message: all but what its handler does with the data and the task.
LEMMA TakeIInv ==
  ASSUME IInv, NEW m, Take(m), m # "Includes",
         handle' = handle, includes' = includes, value' \in AttVal,
         pc' \in {"poll"} \cup Ended
  PROVE  IInv' /\ (declared => includes = TRUE)
<1>1. msgs' \in Seq(Msg(kind))
  BY TailType DEF IInv, TypeOK, Take
<1>2. TypeOK'
  BY <1>1 DEF IInv, TypeOK, Take, fixed, Ended
<1>3. declared => includes = TRUE
  BY DEF IInv, TypeOK, IncludesInv, Take
<1>4. IncludesInv'
  BY <1>3 DEF IInv, TypeOK, IncludesInv, Take, fixed
<1>5. WaitInv'
  BY DEF WaitInv, Take, Ended
<1> QED
  BY <1>2, <1>3, <1>4, <1>5 DEF IInv

LEMMA MessageIInv == IInv /\ OnMessage => IInv'
<1> SUFFICES ASSUME IInv, OnMessage PROVE IInv'
  OBVIOUS
<1>0. value \in AttVal /\ pc = "poll" /\ msgs \in Seq(Msg(kind))
  BY DEF IInv, TypeOK, OnMessage, MsgUnregister, MsgIncludes, MsgUpdate, MsgGet,
         MsgObjMgr, MsgGetHandle, MsgClosed, Tell, Take
<1>1. CASE MsgUnregister
  BY <1>0, <1>1, TakeIInv DEF MsgUnregister, data, Ended
<1>2. CASE MsgIncludes
  <2>1. msgs' \in Seq(Msg(kind))
    BY <1>0, <1>2, TailType DEF MsgIncludes, Take
  <2>2. TypeOK'
    BY <1>2, <2>1 DEF MsgIncludes, Take, IInv, TypeOK, fixed
  <2>3. IncludesInv' /\ WaitInv'
    BY <1>2 DEF MsgIncludes, Take, IInv, IncludesInv, WaitInv, fixed
  <2> QED
    BY <2>2, <2>3 DEF IInv
<1>3. CASE MsgUpdate
  <2>1. Head(msgs) \in Msg(kind) /\ Head(msgs).m = "Update"
    BY <1>0, <1>3, TailType DEF MsgUpdate, Take
  <2>2. Head(msgs).val \in AttVal
    BY <2>1, ValueType DEF Msg, Plain, Updates, Questions, Asks
  <2> QED
    BY <1>0, <1>3, <2>2, TakeIInv DEF MsgUpdate
<1>4. ASSUME NEW m, NEW v, Tell(m, v), m # "Includes" PROVE IInv'
  BY <1>0, <1>4, TakeIInv DEF Tell, data, Ended
<1>5. CASE MsgGet
  BY <1>4, <1>5 DEF MsgGet
<1>6. CASE MsgObjMgr
  BY <1>4, <1>6 DEF MsgObjMgr
<1>7. CASE MsgGetHandle
  BY <1>0, <1>4, <1>7, TakeIInv DEF MsgGetHandle, data, Ended
<1>8. CASE MsgClosed
  BY <1>8 DEF MsgClosed, IInv, TypeOK, IncludesInv, WaitInv, fixed, data,
              queues, Ended
<1> QED
  BY <1>1, <1>2, <1>3, <1>5, <1>6, <1>7, <1>8 DEF OnMessage

\* Taking a call: what its handler does not touch.
LEMMA TakeCallIInv ==
  ASSUME IInv, pc = "polled", calls # <<>>, calls' = Tail(calls),
         waited' = (IF msgs = <<>> THEN 0 ELSE waited + 1),
         UNCHANGED <<fixed, msgs, senders, conn, told, includes>>,
         value' \in AttVal, handle' \in Nat, pc' \in {"reply"} \cup Ended,
         res' = res \/ res'.req \in CallNames
  PROVE  IInv'
<1>1. calls' \in Seq(Calls)
  BY TailType DEF IInv, TypeOK
<1>2. waited = 0
  BY DEF IInv, WaitInv
<1>3. waited' \in Nat /\ WaitInv'
  BY <1>2 DEF WaitInv, Ended
<1>4. TypeOK'
  BY <1>1, <1>3 DEF IInv, TypeOK, fixed, Ended, CallNames
<1>5. IncludesInv'
  BY DEF IInv, IncludesInv, fixed
<1> QED
  BY <1>3, <1>4, <1>5 DEF IInv

LEMMA CallIInv == IInv /\ OnCall => IInv'
<1> SUFFICES ASSUME IInv, OnCall PROVE IInv'
  OBVIOUS
<1>0. value \in AttVal /\ handle \in Nat
  BY DEF IInv, TypeOK
<1>1. ASSUME calls # <<>> PROVE Head(calls) \in Calls /\ Head(calls).m \in CallNames
  BY <1>1, TailType, CallArgs DEF IInv, TypeOK
<1>2. ASSUME UNCHANGED <<fixed, data, queues, waited>>, res' \in {res, Nothing},
             pc' \in {"poll", "reply"} \cup Ended \/ (pc' = "polled" /\ waited = 0)
      PROVE  IInv'
  <2>1. res'.req \in CallNames \cup {"none"}
    BY <1>2 DEF IInv, TypeOK, Nothing, CallNames
  <2> QED
    BY <1>2, <2>1
    DEF IInv, TypeOK, IncludesInv, WaitInv, fixed, data, queues, Ended, CallNames
<1>3. ASSUME NEW m, TakeCall(m), includes' = includes, value' \in AttVal,
             handle' \in Nat, pc' \in {"reply"} \cup Ended,
             res' = res \/ res'.req \in CallNames
      PROVE  IInv'
  BY <1>3, TakeCallIInv DEF TakeCall
<1>4. CASE LookAtCalls
  BY <1>2, <1>4 DEF LookAtCalls, IInv, WaitInv
<1>5. CASE Sleep \/ CallLost \/ SendReply
  BY <1>2, <1>5 DEF Sleep, CallLost, SendReply, Ended
<1>6. CASE CallRefused
  <2>1. res'.req \in CallNames
    BY <1>1, <1>6 DEF CallRefused, Reply, Refused
  <2> QED
    BY <1>0, <1>6, <2>1, TakeCallIInv DEF CallRefused, Reply, data
<1>7. CASE CallGet \/ CallGetAll \/ CallReadValue
  <2>1. res'.req \in CallNames /\ pc' = "reply"
    BY <1>7 DEF CallGet, CallGetAll, CallReadValue, Reply, Refused, Result, CallNames
  <2>2. UNCHANGED data
    BY <1>7 DEF CallGet, CallGetAll, CallReadValue
  <2> QED
    BY <1>0, <1>3, <1>7, <2>1, <2>2 DEF CallGet, CallGetAll, CallReadValue, data
<1>8. CASE CallSet
  <2>1. Head(calls) \in Calls /\ Head(calls).m = "Set"
    BY <1>1, <1>8 DEF CallSet, TakeCall
  <2>2. Head(calls).val \in Nat
    BY <2>1, CallArgs, HandleType
  <2>3. handle' \in Nat /\ value' = value /\ includes' = includes /\ pc' = "reply"
    BY <1>0, <1>8, <2>2 DEF CallSet, Reply
  <2>4. res'.req \in CallNames
    BY <1>8 DEF CallSet, Reply, Refused, Result, CallNames
  <2> QED
    BY <1>0, <1>3, <1>8, <2>3, <2>4 DEF CallSet
<1>9. CASE CallWriteValue
  <2>1. Head(calls) \in Calls /\ Head(calls).m = "WriteValue"
    BY <1>1, <1>9 DEF CallWriteValue, TakeCall
  <2>2. Head(calls).val \in Value /\ Head(calls).off \in Offsets
    BY <2>1, CallArgs
  <2>3. CanUpdate(value, Head(calls).val, Head(calls).off)
          => Updated(value, Head(calls).val, Head(calls).off) \in AttVal
    BY <1>0, <2>2, UpdatedType
  <2>4. value' \in AttVal
    BY <1>0, <1>9, <2>2, <2>3, ValueType DEF CallWriteValue
  <2>5. pc' \in {"reply"} \cup Ended
    BY <1>9 DEF CallWriteValue, Reply, Ended
  <2>6. res' = res \/ res'.req \in CallNames
    BY <1>9 DEF CallWriteValue, Reply, Refused, Result, CallNames
  <2> QED
    BY <1>0, <1>3, <1>9, <2>4, <2>5, <2>6 DEF CallWriteValue
<1>10. CASE CallOther
  BY <1>0, <1>3, <1>10 DEF CallOther, data, Ended
<1> QED
  BY <1>4, <1>5, <1>6, <1>7, <1>8, <1>9, <1>10 DEF OnCall

LEMMA InputIInv == IInv /\ Input => IInv'
<1> SUFFICES ASSUME IInv, Input PROVE IInv'
  OBVIOUS
<1>0. msgs \in Seq(Msg(kind)) /\ calls \in Seq(Calls) /\ told \in BOOLEAN
  BY DEF IInv, TypeOK
<1>1. CASE SendIncludes
  <2>1. [m |-> "Includes"] \in Msg(kind)
    BY DEF Msg, Plain
  <2>2. msgs' \in Seq(Msg(kind)) /\ msgs' # <<>>
    BY <1>0, <1>1, <2>1, AppendType DEF SendIncludes
  <2>3. msgs = <<>> => Head(msgs').m = "Includes"
    BY <1>1 DEF SendIncludes
  <2> QED
    BY <1>0, <1>1, <2>2, <2>3 DEF SendIncludes, IInv, TypeOK, IncludesInv, WaitInv,
                                  fixed, data
<1>2. ASSUME NEW m \in Msg(kind), SendMsg(m) PROVE IInv'
  <2>1. /\ msgs' \in Seq(Msg(kind)) /\ msgs' # <<>>
        /\ msgs # <<>> => Head(msgs') = Head(msgs)
    BY <1>0, <1>2, AppendType DEF SendMsg
  <2> QED
    BY <1>2, <2>1 DEF SendMsg, MayAsk, IInv, TypeOK, IncludesInv, WaitInv, fixed, data
<1>3. ASSUME NEW c \in Calls, BluezCall(c) PROVE IInv'
  <2>1. calls' \in Seq(Calls)
    BY <1>0, <1>3, AppendType DEF BluezCall
  <2> QED
    BY <1>3, <2>1 DEF BluezCall, IInv, TypeOK, IncludesInv, WaitInv, fixed, data
<1>4. ASSUME NEW i \in 1 .. MsgCap, Cancel(i) PROVE IInv'
  <2>1. msgs' \in Seq(Msg(kind)) /\ msgs' # <<>> /\ Head(msgs').m = Head(msgs).m
    BY <1>0, <1>4, CancelType DEF Cancel
  <2>2. msgs # <<>>
    BY <1>0, <1>4 DEF Cancel
  <2> QED
    BY <1>4, <2>1, <2>2 DEF Cancel, IInv, TypeOK, IncludesInv, WaitInv, fixed, data
<1>5. CASE DropSenders
  BY <1>5 DEF DropSenders, IInv, TypeOK, IncludesInv, WaitInv, fixed, data
<1>6. CASE LoseConn
  BY <1>6 DEF LoseConn, IInv, TypeOK, IncludesInv, WaitInv, fixed, data
<1> QED
  BY <1>1, <1>2, <1>3, <1>4, <1>5, <1>6 DEF Input

LEMMA NextIInv == IInv /\ [Next]_vars => IInv'
<1>1. ASSUME IInv, UNCHANGED vars PROVE IInv'
  BY <1>1 DEF vars, fixed, data, queues, IInv, TypeOK, IncludesInv, WaitInv
<1> QED
  BY <1>1, MessageIInv, CallIInv, InputIInv DEF Next, Worker

\* The invariant of a service's or a descriptor's worker (service.rs:137-171,
\* descriptor.rs:47-84).
THEOREM WorkerInv == Spec => []IInv
<1> QED
  BY InitIInv, NextIInv, PTL DEF Spec

------------------------------------------------------------------------------
(* What follows. *)

\* A message waits for at most one call, however many Bluez makes
\* (service.rs:139, descriptor.rs:49).
THEOREM MessagesServed == Spec => []MessageNotStarved
<1>1. IInv => MessageNotStarved
  BY DEF IInv, WaitInv, MessageNotStarved
<1> QED
  BY <1>1, WorkerInv, PTL

\* GetManagedObjects tells Bluez of every included service (mod.rs:299-314,
\* service.rs:149).
THEOREM IncludesAreKnown == Spec => []IncludesKnown
<1>1. Init => IncludesKnown
  BY DEF Init, IncludesKnown, Nothing
<1>2. IInv /\ IncludesKnown /\ [Next]_vars => IncludesKnown'
  <2> SUFFICES ASSUME IInv, IncludesKnown, [Next]_vars PROVE IncludesKnown'
    OBVIOUS
  <2>1. ASSUME out'.req # "ObjMgr" PROVE IncludesKnown'
    BY <2>1 DEF IncludesKnown
  <2>2. ASSUME out' = Nothing PROVE IncludesKnown'
    BY <2>2 DEF IncludesKnown, Nothing
  <2>3. CASE MsgObjMgr
    <3>1. declared => kind = "serv" /\ includes = TRUE
      BY <2>3 DEF MsgObjMgr, Tell, Take, IInv, TypeOK, IncludesInv
    <3>2. declared => AllProps["Includes"] = TRUE
      BY <3>1 DEF AllProps, Props, PropVal, Listed
    <3>3. out' = Nothing \/ out'.val = AllProps
      BY <2>3 DEF MsgObjMgr, Tell, Result
    <3>4. declared' = declared
      BY <2>3 DEF MsgObjMgr, Tell, Take, fixed
    <3> QED
      BY <2>2, <3>2, <3>3, <3>4 DEF IncludesKnown
  <2>4. CASE OnMessage
    <3>1. ASSUME NEW m, NEW v, Tell(m, v), m # "ObjMgr" PROVE IncludesKnown'
      BY <2>1, <2>2, <3>1 DEF Tell, Result
    <3>2. CASE MsgGet
      BY <3>1, <3>2 DEF MsgGet
    <3>3. CASE MsgGetHandle
      BY <2>2, <3>1, <3>3 DEF MsgGetHandle
    <3> QED
      BY <2>2, <2>3, <2>4, <3>2, <3>3
      DEF OnMessage, MsgUnregister, MsgIncludes, MsgUpdate, MsgClosed
  <2>5. CASE SendReply
    BY <2>1, <2>2, <2>5 DEF SendReply, IInv, TypeOK
  <2>6. CASE OnCall
    BY <2>2, <2>5, <2>6
    DEF OnCall, LookAtCalls, Sleep, CallRefused, CallGet, CallGetAll, CallSet,
        CallReadValue, CallWriteValue, CallOther, CallLost, TakeCall
  <2>7. CASE Input
    BY <2>2, <2>7 DEF Input, SendIncludes, SendMsg, Cancel, DropSenders, BluezCall, LoseConn
  <2>8. CASE UNCHANGED vars
    BY <2>8 DEF vars, fixed, IncludesKnown
  <2> QED
    BY <2>4, <2>6, <2>7, <2>8 DEF Next, Worker
<1> QED
  BY <1>1, <1>2, WorkerInv, PTL DEF Spec

\* Only the application and admitted callers change what is served
\* (service.rs:158, descriptor.rs:72).
THEOREM ChangesAreAdmitted == Spec => OnlyAdmitted
<1> DEFINE A == value' # value \/ handle' # handle =>
                  \/ msgs # <<>> /\ msgs' = Tail(msgs) /\ Head(msgs).m = "Update"
                  \/ calls # <<>> /\ calls' = Tail(calls)
                       /\ (Filter => Head(calls).from = "bluez")
<1>1. [Next]_vars => [A]_vars
  <2> SUFFICES ASSUME Next, value' # value \/ handle' # handle PROVE A
    OBVIOUS
  <2>1. CASE OnMessage
    BY <2>1 DEF OnMessage, MsgUnregister, MsgIncludes, MsgUpdate, MsgGet, MsgObjMgr,
                MsgGetHandle, MsgClosed, Tell, Take, data
  <2>2. CASE OnCall
    BY <2>2
    DEF OnCall, LookAtCalls, CallRefused, CallGet, CallGetAll, CallSet, CallReadValue,
        CallWriteValue, CallOther, CallLost, SendReply, Sleep, TakeCall, FromBluez, data
  <2>3. CASE Input
    BY <2>3 DEF Input, SendIncludes, SendMsg, Cancel, DropSenders, BluezCall, LoseConn, data
  <2> QED
    BY <2>1, <2>2, <2>3 DEF Next, Worker
<1> QED
  BY <1>1, PTL DEF Spec, OnlyAdmitted

------------------------------------------------------------------------------
(* The buffer a value is kept in: the claim of the SAFETY comments of        *)
(* AttValue, for every size of it and every set of bytes.  as_slice exposes  *)
(* no cell that was not written, and what it exposes is the sequence that    *)
(* the operations describe.                                                  *)
BufferTypeOK ==
  /\ buf \in [Index -> Byte \cup {Uninit}]
  /\ len \in 0 .. MaxLen
  /\ val \in Seq(Byte)

\* The value and the cells agree position by position; with the types it is
\* inductive, and both properties follow from it.
CellsMatch ==
  /\ Len(val) = len
  /\ \A i \in 1 .. len : buf[i - 1] = val[i]

BufferIInv == BufferTypeOK /\ CellsMatch

\* A slice is a sequence of bytes.
LEMMA SliceType == \A s \in Slices : s \in Seq(Byte)
  BY DEF Slices

LEMMA InitBufferIInv == BufferInit => BufferIInv
  BY MaxLenIsNat DEF BufferInit, BufferIInv, BufferTypeOK, CellsMatch, Index

LEMMA NextBufferIInv == BufferIInv /\ [BufferNext]_cells => BufferIInv'
<1> SUFFICES ASSUME BufferIInv, [BufferNext]_cells PROVE BufferIInv'
  OBVIOUS
<1> USE MaxLenIsNat
<1> USE DEF BufferIInv, BufferTypeOK, CellsMatch, Index
<1>1. ASSUME NEW n \in 0 .. MaxLen + 1, NEW b \in Byte, Resize(n, b)
      PROVE  BufferIInv'
  <2>1. CASE n > MaxLen
    BY <1>1, <2>1 DEF Resize, Panic
  <2>2. CASE n \in 0 .. MaxLen
    <3>1. /\ buf' = [i \in Index |-> Fill(i, len, n, b, buf[i])]
          /\ len' = n
          /\ val' = Resized(val, n, b)
      BY <1>1, <2>2 DEF Resize
    <3>2. val' = [i \in 1 .. n |-> IF i <= len THEN val[i] ELSE b]
      BY <3>1 DEF Resized
    <3>3. val' \in Seq(Byte) /\ Len(val') = n
      BY <3>2, <2>2
    <3>4. buf' \in [Index -> Byte \cup {Uninit}]
      BY <3>1 DEF Fill
    <3>5. ASSUME NEW i \in 1 .. n PROVE buf'[i - 1] = val'[i]
      <4>1. i - 1 \in Index
        BY <2>2
      <4>2. CASE i <= len
        <5>1. buf'[i - 1] = buf[i - 1]
          BY <3>1, <4>1, <4>2 DEF Fill
        <5>2. val'[i] = val[i]
          BY <3>2, <4>2
        <5> QED
          BY <5>1, <5>2, <4>2
      <4>3. CASE i > len
        <5>1. buf'[i - 1] = b
          BY <3>1, <4>1, <4>3 DEF Fill
        <5>2. val'[i] = b
          BY <3>2, <4>3
        <5> QED
          BY <5>1, <5>2
      <4> QED
        BY <4>2, <4>3
    <3> QED
      BY <3>1, <3>3, <3>4, <3>5, <2>2
  <2> QED
    BY <2>1, <2>2
<1>2. ASSUME NEW s \in Slices, NEW o \in 0 .. MaxLen + 1, Update(s, o)
      PROVE  BufferIInv'
  <2>0. s \in Seq(Byte)
    BY SliceType
  <2>1. CASE ~(o <= len /\ o + Len(s) <= MaxLen)
    BY <1>2, <2>1 DEF Update, Panic
  <2>2. CASE o <= len /\ o + Len(s) <= MaxLen
    <3>1. /\ buf' = [i \in Index |->
                      IF o <= i /\ i < o + Len(s) THEN s[i - o + 1] ELSE buf[i]]
          /\ len' = o + Len(s)
          /\ val' = SubSeq(val, 1, o) \o s
      BY <1>2, <2>2 DEF Update, Updated
    <3>2. SubSeq(val, 1, o) \in Seq(Byte) /\ Len(SubSeq(val, 1, o)) = o
      BY <2>2
    <3>3. val' \in Seq(Byte) /\ Len(val') = o + Len(s)
      BY <2>0, <3>1, <3>2
    <3>4. buf' \in [Index -> Byte \cup {Uninit}]
      BY <2>0, <3>1
    <3>5. ASSUME NEW i \in 1 .. o + Len(s) PROVE buf'[i - 1] = val'[i]
      <4>1. i - 1 \in Index
        BY <2>0, <2>2
      <4>2. CASE i <= o
        <5>1. buf'[i - 1] = buf[i - 1]
          BY <3>1, <4>1, <4>2
        <5>2. val'[i] = val[i]
          BY <2>0, <3>1, <3>2, <4>2, <2>2
        <5> QED
          BY <5>1, <5>2, <4>2, <2>2
      <4>3. CASE i > o
        <5>1. buf'[i - 1] = s[i - o]
          BY <2>0, <3>1, <4>1, <4>3
        <5>2. val'[i] = s[i - o]
          BY <2>0, <3>1, <3>2, <4>3
        <5> QED
          BY <5>1, <5>2
      <4> QED
        BY <4>2, <4>3
    <3>6. o + Len(s) \in 0 .. MaxLen
      BY <2>0, <2>2
    <3> QED
      BY <3>1, <3>3, <3>4, <3>5, <3>6
  <2> QED
    BY <2>1, <2>2
<1>3. ASSUME NEW b \in Byte, Push(b) PROVE BufferIInv'
  <2>1. CASE len >= MaxLen
    BY <1>3, <2>1 DEF Push, Panic
  <2>2. CASE len < MaxLen
    <3>1. /\ buf' = [buf EXCEPT ![len] = b]
          /\ len' = len + 1
          /\ val' = Append(val, b)
      BY <1>3, <2>2 DEF Push
    <3>2. val' \in Seq(Byte) /\ Len(val') = len + 1
      BY <3>1
    <3>3. ASSUME NEW i \in 1 .. len + 1 PROVE buf'[i - 1] = val'[i]
      BY <3>1, <2>2
    <3> QED
      BY <3>1, <3>2, <3>3, <2>2
  <2> QED
    BY <2>1, <2>2
<1>4. ASSUME NEW s \in Slices, Extend(s) PROVE BufferIInv'
  <2>0. s \in Seq(Byte)
    BY SliceType
  <2>1. CASE len + Len(s) > MaxLen
    BY <1>4, <2>1 DEF Extend, Panic
  <2>2. CASE len + Len(s) <= MaxLen
    <3>1. /\ buf' = [i \in Index |->
                      IF len <= i /\ i < len + Len(s)
                      THEN s[i - len + 1] ELSE buf[i]]
          /\ len' = len + Len(s)
          /\ val' = val \o s
      BY <1>4, <2>0, <2>2 DEF Extend
    <3>2. val' \in Seq(Byte) /\ Len(val') = len + Len(s)
      <4>1. val \in Seq(Byte) /\ Len(val) = len
        OBVIOUS
      <4>2. \A t \in Seq(Byte) :
              t \o s \in Seq(Byte) /\ Len(t \o s) = Len(t) + Len(s)
        BY <2>0
      <4> QED
        BY <3>1, <4>1, <4>2
    <3>3. buf' \in [Index -> Byte \cup {Uninit}]
      BY <2>0, <3>1
    <3>4. ASSUME NEW i \in 1 .. len + Len(s) PROVE buf'[i - 1] = val'[i]
      <4>1. i - 1 \in Index
        BY <2>0, <2>2
      <4>2. CASE i <= len
        BY <2>0, <3>1, <4>1, <4>2
      <4>3. CASE i > len
        <5>1. buf'[i - 1] = s[i - len]
          BY <2>0, <3>1, <4>1, <4>3
        <5>2. val'[i] = s[i - len]
          BY <2>0, <3>1, <4>3
        <5> QED
          BY <5>1, <5>2
      <4> QED
        BY <4>2, <4>3
    <3>5. len + Len(s) \in 0 .. MaxLen
      BY <2>0, <2>2
    <3> QED
      BY <3>1, <3>2, <3>3, <3>4, <3>5
  <2> QED
    BY <2>0, <2>1, <2>2
<1>5. ASSUME NEW i \in Index, NEW b \in Byte, Overwrite(i, b) PROVE BufferIInv'
  <2>1. /\ i < len
        /\ buf' = [buf EXCEPT ![i] = b]
        /\ val' = [val EXCEPT ![i + 1] = b]
        /\ len' = len
    BY <1>5 DEF Overwrite
  <2>2. val' \in Seq(Byte) /\ Len(val') = len
    BY <2>1
  <2>3. ASSUME NEW j \in 1 .. len PROVE buf'[j - 1] = val'[j]
    <3>1. j - 1 \in Index /\ j \in DOMAIN val
      OBVIOUS
    <3>2. CASE j = i + 1
      BY <2>1, <3>1, <3>2
    <3>3. CASE j # i + 1
      <4>1. buf'[j - 1] = buf[j - 1]
        BY <2>1, <3>1, <3>3
      <4>2. val'[j] = val[j]
        BY <2>1, <3>1, <3>3
      <4> QED
        BY <4>1, <4>2
    <3> QED
      BY <3>2, <3>3
  <2> QED
    BY <2>1, <2>2, <2>3
<1>6. CASE CloneInto
  BY <1>6 DEF CloneInto
<1>7. CASE UNCHANGED cells
  BY <1>7 DEF cells
<1> QED
  BY <1>1, <1>2, <1>3, <1>4, <1>5, <1>6, <1>7 DEF BufferNext

LEMMA BufferIInvAlways == BufferSpec => []BufferIInv
  BY InitBufferIInv, NextBufferIInv, PTL DEF BufferSpec

\* as_slice and as_mut_slice only reach initialised memory.
THEOREM NoUninitializedRead == BufferSpec => []InitializedToLen
<1>1. BufferIInv => InitializedToLen
  <2> SUFFICES ASSUME BufferIInv, NEW i \in 0 .. len - 1 PROVE buf[i] \in Byte
    BY DEF BufferIInv, BufferTypeOK, InitializedToLen
  <2> USE DEF BufferIInv, BufferTypeOK, CellsMatch
  <2>1. i + 1 \in 1 .. len
    OBVIOUS
  <2>2. buf[(i + 1) - 1] = val[i + 1]
    BY <2>1
  <2>3. val[i + 1] \in Byte
    BY <2>1
  <2> QED
    BY <2>2, <2>3
<1> QED
  BY <1>1, BufferIInvAlways, PTL

\* The buffer and its length implement the value as a byte sequence.
THEOREM SliceIsTheValue == BufferSpec => []SliceIsValue
<1>1. BufferIInv => SliceIsValue
  <2> SUFFICES ASSUME BufferIInv PROVE AsSlice = val
    BY DEF SliceIsValue
  <2>1. AsSlice = [i \in 1 .. len |-> val[i]]
    BY DEF AsSlice, BufferIInv, CellsMatch
  <2> QED
    BY <2>1 DEF BufferIInv, BufferTypeOK, CellsMatch
<1> QED
  BY <1>1, BufferIInvAlways, PTL
==============================================================================
