-------------------------- MODULE ChrcWorkerProofs --------------------------
(***************************************************************************)
(* Proofs about ChrcWorker for every set of values, offsets, flags, kinds  *)
(* of messages and calls, and every capacity of the queues: the inductive  *)
(* invariant, what a granted reply means, the descriptor Bluez holds, the  *)
(* write socket, and the refinement of NotifySession.                      *)
(***************************************************************************)
EXTENDS ChrcWorker, TLAPS

\* AttValue::update keeps a value within the buffer.
LEMMA UpdatedType ==
  ASSUME NEW v \in AttVal, NEW s \in Value, NEW o \in Offsets,
         CanUpdate(v, s, o)
  PROVE  Updated(v, s, o) \in AttVal
<1>1. s \in Seq(Byte) /\ v \in Seq(Byte) /\ o \in 0 .. Len(v)
  BY ValueType, OffsetType DEF AttVal, CanUpdate
<1>2. SubSeq(v, 1, o) \in Seq(Byte) /\ Len(SubSeq(v, 1, o)) = o
  BY <1>1
<1>3. Updated(v, s, o) \in Seq(Byte)
  BY <1>1, <1>2 DEF Updated
<1>4. Len(Updated(v, s, o)) = o + Len(s)
  BY <1>1, <1>2 DEF Updated
<1> QED
  BY <1>3, <1>4 DEF AttVal, CanUpdate

\* A message that carries a value carries one of the instance.
LEMMA MsgType ==
  ASSUME NEW m \in Msg
  PROVE  /\ m.kind = "Update" => m.val \in Value
         /\ m.kind = "Notify" => m.val \in Value \cup {NoCall}
  BY DEF Msg, Plain

\* The arguments of the calls that change data.
LEMMA CallType ==
  ASSUME NEW c \in Call
  PROVE  /\ c.m = "WriteValue" => c.val \in Value /\ c.off \in Offsets
         /\ c.m = "Set" => c.val \in {0, 1}
  BY DEF Call

------------------------------------------------------------------------------
(* The inductive invariant. *)

\* What is told of the sessions depends on the sockets alone.
LEMMA PropsKept ==
  ASSUME UNCHANGED <<notify, nPeer, wPeer>>
  PROVE  /\ BluezSession' = BluezSession
         /\ \A p : PropsTold(p) => PropsTold(p)'
         /\ PropsTold(cur.val) /\ cur' = cur => PropsTold(cur.val)'
         /\ PropsTold(out.val) /\ out' = out => PropsTold(out.val)'
         /\ SessionTold(out.val) /\ out' = out => SessionTold(out.val)'
  BY DEF PropsTold, SessionTold, BluezSession

\* get_inner tells of the sessions there are.
LEMMA PropsAreTold == IInv => PropsTold(SessionProps)
  BY DEF IInv, TypeOK, PairInv, PropsTold, SessionProps, SessionTold, BluezSession

LEMMA InitIInv == Init => IInv
  BY ValueType, CapType
  DEF Init, IInv, TypeOK, SuspendInv, PairInv, ReadInv, GrantInv, Ended

\* The end of the task leaves no socket and no suspended handler behind.
LEMMA FinishIInv ==
  ASSUME IInv, NEW how \in Ended, Finish(how),
         value' \in AttVal, handle' \in {0, 1},
         msgs' \in Seq(Msg), Len(msgs') <= MsgCap,
         calls' \in Seq(Call), Len(calls') <= CallCap,
         senders' \in BOOLEAN, conn' \in BOOLEAN
  PROVE  IInv'
<1>1. <<>> \in Seq(AttVal) /\ <<>> \in Seq(Value) /\ Len(<<>>) = 0
  OBVIOUS
<1> QED
  BY <1>1, CapType
  DEF Finish, IInv, TypeOK, SuspendInv, PairInv, ReadInv, GrantInv, Ended

LEMMA MessageIInv == IInv /\ OnMessage => IInv'
<1> SUFFICES ASSUME IInv, OnMessage PROVE IInv'
  OBVIOUS
<1> DEFINE Rest == /\ msgs' \in Seq(Msg) /\ Len(msgs') <= MsgCap
                   /\ calls' \in Seq(Call) /\ Len(calls') <= CallCap
                   /\ senders' \in BOOLEAN /\ conn' \in BOOLEAN
<1>0. ASSUME msgs # <<>>, msgs' = Tail(msgs), UNCHANGED <<senders, calls, conn>>
      PROVE  Rest /\ Head(msgs) \in Msg
  <2>1. msgs \in Seq(Msg) /\ Len(msgs) <= MsgCap
    BY DEF IInv, TypeOK
  <2>2. Tail(msgs) \in Seq(Msg) /\ Len(Tail(msgs)) <= MsgCap /\ Head(msgs) \in Msg
    BY <1>0, <2>1, CapType
  <2> QED
    BY <1>0, <2>2 DEF IInv, TypeOK
<1>1. CASE MsgUnregister
  <2>1. Rest
    BY <1>1, <1>0 DEF MsgUnregister
  <2> QED
    BY <1>1, <2>1, FinishIInv DEF MsgUnregister, Ended, data, IInv, TypeOK
<1>2. CASE MsgClosed
  <2>1. Rest
    BY <1>2 DEF MsgClosed, queues, IInv, TypeOK
  <2> QED
    BY <1>2, <2>1, FinishIInv DEF MsgClosed, Ended, data, IInv, TypeOK
<1>3. CASE MsgUpdate
  <2>1. Rest /\ Head(msgs) \in Msg
    BY <1>3, <1>0 DEF MsgUpdate
  <2>2. value' \in AttVal
    BY <1>3, <2>1, MsgType, ValueType DEF MsgUpdate
  <2> QED
    BY <1>3, <2>1, <2>2
    DEF MsgUpdate, StartNotifying, core, nSock, wSock, Ended,
        IInv, TypeOK, SuspendInv, PairInv, ReadInv, GrantInv
<1>4. CASE MsgNotify
  <2>1. Rest /\ Head(msgs) \in Msg
    BY <1>4, <1>0 DEF MsgNotify
  <2>2. outVal' \in AttVal
    BY <1>4, <2>1, MsgType, ValueType DEF MsgNotify, StartNotifying, IInv, TypeOK
  <2> QED
    BY <1>4, <2>1, <2>2
    DEF MsgNotify, StartNotifying, data, nSock, wSock, Ended,
        IInv, TypeOK, SuspendInv, PairInv, ReadInv, GrantInv
<1>5. CASE MsgAsk
  <2>1. Rest
    BY <1>5, <1>0 DEF MsgAsk
  <2> QED
    BY <1>5, <2>1
    DEF MsgAsk, core, data, nSock, wSock,
        IInv, TypeOK, SuspendInv, PairInv, ReadInv, GrantInv
<1>6. CASE MsgGetHandle
  <2>1. Rest
    BY <1>6, <1>0 DEF MsgGetHandle
  <2>2. CASE handle = 0
    BY <1>6, <2>1, <2>2, FinishIInv DEF MsgGetHandle, Ended, data, IInv, TypeOK
  <2>3. CASE handle # 0
    BY <1>6, <2>1, <2>3
    DEF MsgGetHandle, core, data, nSock, wSock,
        IInv, TypeOK, SuspendInv, PairInv, ReadInv, GrantInv
  <2> QED
    BY <2>2, <2>3
<1> QED
  BY <1>1, <1>2, <1>3, <1>4, <1>5, <1>6 DEF OnMessage

LEMMA SocketIInv == IInv /\ OnSocket => IInv'
<1> SUFFICES ASSUME IInv, OnSocket PROVE IInv'
  OBVIOUS
<1>1. CASE SocketWrite
  <2>1. wBuf # <<>> /\ wBuf \in Seq(Value) /\ Len(wBuf) <= SockCap
    BY <1>1 DEF SocketWrite, IInv, TypeOK
  <2>2. Head(wBuf) \in Value /\ Tail(wBuf) \in Seq(Value)
        /\ Len(Tail(wBuf)) <= SockCap
    BY <2>1, CapType
  <2>3. HandleWrite(Head(wBuf), NoCall) /\ wBuf' = Tail(wBuf)
        /\ unread' = wBuf'
        /\ UNCHANGED <<nSock, writeFd, wPeer, queues>>
        /\ pc = "select" /\ wPeer # "none"
    BY <1>1 DEF SocketWrite, IInv, PairInv, ReadInv
  <2>4. value' \in AttVal /\ handle' = handle
        /\ \/ pc' = "notify" /\ outVal' = value' /\ cur' = NoCall
           \/ pc' = "select" /\ cur' = NoCall
    BY <2>2, <2>3, ValueType DEF HandleWrite, StartNotifying, IInv, TypeOK
  <2> QED
    BY <2>2, <2>3, <2>4
    DEF nSock, queues, Ended, IInv, TypeOK, SuspendInv, PairInv, ReadInv, GrantInv
<1>2. CASE SocketReadsNothing
  <2>1. /\ wBuf \in Seq(Value) /\ Len(wBuf) <= SockCap /\ unread = wBuf
        /\ pc = "select" /\ wPeer # "none" /\ cur = NoCall
    BY <1>2 DEF SocketReadsNothing, IInv, TypeOK, SuspendInv, PairInv, ReadInv
  <2>2. /\ wBuf' \in Seq(Value) /\ Len(wBuf') <= SockCap
        /\ \/ wPeer = "closed" /\ unread = <<>> /\ wBuf' = <<>>
           \/ unread # <<>> /\ Head(unread) = <<>> /\ wBuf' = Tail(unread)
    <3>1. CASE wBuf = <<>>
      BY <1>2, <2>1, <3>1 DEF SocketReadsNothing, ReadsNothing
    <3>2. CASE wBuf # <<>>
      <4>1. Tail(wBuf) \in Seq(Value) /\ Len(Tail(wBuf)) <= SockCap
        BY <2>1, <3>2, CapType
      <4> QED
        BY <1>2, <2>1, <3>2, <4>1 DEF SocketReadsNothing, ReadsNothing
    <3> QED
      BY <3>1, <3>2
  <2>3. /\ pc' = "read" /\ UNCHANGED <<cur, outVal, data, nSock, writeFd,
                                      wPeer, unread, queues>>
        /\ writeFd = "open"
    BY <1>2 DEF SocketReadsNothing
  <2> QED
    BY <2>1, <2>2, <2>3
    DEF data, nSock, queues, Ended,
        IInv, TypeOK, SuspendInv, PairInv, ReadInv, GrantInv
<1>3. CASE SocketHangUp
  <2>1. <<>> \in Seq(Value) /\ Len(<<>>) = 0
    OBVIOUS
  <2> QED
    BY <1>3, <2>1, CapType
    DEF SocketHangUp, core, data, nSock, queues, Ended,
        IInv, TypeOK, SuspendInv, PairInv, ReadInv, GrantInv
<1>4. CASE SocketEmptyWrite
  <2>1. /\ unread \in Seq(Value) /\ unread # <<>> /\ wBuf = Tail(unread)
        /\ Head(unread) = <<>>
    BY <1>4 DEF SocketEmptyWrite, IInv, TypeOK, ReadInv
  <2>2. Head(unread) \in Value /\ Tail(unread) \in Seq(Value)
    BY <2>1
  <2>3. <<>> \in AttVal
    BY <2>1, <2>2, ValueType
  <2>4. /\ HandleWrite(<<>>, NoCall) /\ unread' = Tail(unread)
        /\ UNCHANGED <<nSock, writeFd, wPeer, wBuf, queues>>
        /\ pc = "read"
    BY <1>4 DEF SocketEmptyWrite
  <2>5. value' \in AttVal /\ handle' = handle
        /\ \/ pc' = "notify" /\ outVal' = value' /\ cur' = NoCall
           \/ pc' = "select" /\ cur' = NoCall
    BY <2>3, <2>4 DEF HandleWrite, StartNotifying, IInv, TypeOK
  <2> QED
    BY <2>1, <2>2, <2>4, <2>5
    DEF nSock, queues, Ended, IInv, TypeOK, SuspendInv, PairInv, ReadInv, GrantInv
<1> QED
  BY <1>1, <1>2, <1>3, <1>4 DEF OnSocket

\* A call that is taken leaves queues of the right type and is one of Call.
LEMMA TakenType ==
  ASSUME IInv, calls # <<>>, calls' = Tail(calls), UNCHANGED <<msgs, senders, conn>>
  PROVE  /\ Head(calls) \in Call
         /\ msgs' \in Seq(Msg) /\ Len(msgs') <= MsgCap
         /\ calls' \in Seq(Call) /\ Len(calls') <= CallCap
         /\ senders' \in BOOLEAN /\ conn' \in BOOLEAN
<1>1. calls \in Seq(Call) /\ Len(calls) <= CallCap
  BY DEF IInv, TypeOK
<1>2. Head(calls) \in Call /\ Tail(calls) \in Seq(Call) /\ Len(Tail(calls)) <= CallCap
  BY <1>1, CapType
<1> QED
  BY <1>2 DEF IInv, TypeOK

LEMMA CallIInv == IInv /\ OnCall => IInv'
<1> SUFFICES ASSUME IInv, OnCall PROVE IInv'
  OBVIOUS
<1> DEFINE Rest == /\ msgs' \in Seq(Msg) /\ Len(msgs') <= MsgCap
                   /\ calls' \in Seq(Call) /\ Len(calls') <= CallCap
                   /\ senders' \in BOOLEAN /\ conn' \in BOOLEAN
<1>0. ASSUME NEW m, Takes(m)
      PROVE  /\ Rest /\ Head(calls) \in Call
             /\ pc = "select" /\ Head(calls).m = m /\ unread = wBuf
  BY <1>0, TakenType DEF Takes, IInv, ReadInv
<1>1. CASE CallRefused
  <2>1. Rest
    BY <1>1, TakenType DEF CallRefused
  <2> QED
    BY <1>1, <2>1
    DEF CallRefused, Answer, data, nSock, wSock, Ended,
        IInv, TypeOK, SuspendInv, PairInv, ReadInv, GrantInv
<1>2. CASE CallReadValue
  <2>1. Rest /\ Head(calls).m = "ReadValue" /\ unread = wBuf
    BY <1>2, <1>0 DEF CallReadValue
  <2>2. /\ pc' = "reply" /\ cur'.req = "ReadValue"
        /\ UNCHANGED <<data, nSock, wSock>>
    BY <1>2, <2>1 DEF CallReadValue, Answer
  <2> QED
    BY <2>1, <2>2
    DEF data, nSock, wSock, Ended,
        IInv, TypeOK, SuspendInv, PairInv, ReadInv, GrantInv
<1>3. CASE CallWriteValue
  <2>1. Rest /\ Head(calls).m = "WriteValue" /\ pc = "select" /\ Head(calls) \in Call
    BY <1>3, <1>0 DEF CallWriteValue
  <2> DEFINE c == Head(calls)
             fit == c.off # 0 => CanUpdate(value, c.val, c.off)
             res == Verdict({"write", "write_wo_response"}, c.ok, fit, "panic")
             v == IF c.off = 0 THEN c.val ELSE Updated(value, c.val, c.off)
  <2>2. c.val \in Value /\ c.off \in Offsets
    BY <2>1, CallType
  <2>3. CASE /\ res = "ok"
             /\ HandleWrite(v, [req |-> c.m, res |-> "ok", val |-> NoCall])
             /\ UNCHANGED <<nSock, wSock>>
    <3>1. fit
      BY <2>3 DEF Verdict
    <3>2. v \in AttVal
      BY <2>2, <3>1, UpdatedType, ValueType DEF IInv, TypeOK
    <3>3. /\ value' \in AttVal /\ handle' = handle
          /\ cur'.req = "WriteValue"
          /\ \/ pc' = "notify" /\ outVal' = value'
             \/ pc' \in {"select", "reply"} /\ (pc' = "select" => cur' = NoCall)
      BY <2>1, <2>3, <3>2 DEF HandleWrite, StartNotifying, IInv, TypeOK
    <3> QED
      BY <2>1, <2>3, <3>3
      DEF nSock, wSock, Ended, IInv, TypeOK, SuspendInv, PairInv, ReadInv, GrantInv
  <2>4. CASE Finish("panicked") /\ UNCHANGED data
    BY <2>1, <2>4, FinishIInv DEF data, Ended, IInv, TypeOK
  <2>5. CASE Answer(c, res, NoCall) /\ UNCHANGED <<data, nSock, wSock>>
    BY <2>1, <2>5
    DEF Answer, data, nSock, wSock, Ended,
        IInv, TypeOK, SuspendInv, PairInv, ReadInv, GrantInv
  <2> QED
    BY <1>3, <2>3, <2>4, <2>5 DEF CallWriteValue
<1>4. CASE CallAcquireNotify
  <2>1. Rest /\ Head(calls).m = "AcquireNotify" /\ pc = "select" /\ unread = wBuf
    BY <1>4, <1>0 DEF CallAcquireNotify
  <2>2. PICK res :
          /\ Answer(Head(calls), res, NoCall)
          /\ \/ UNCHANGED nSock /\ res # "ok"
             \/ /\ notify' = IF res = "ok" THEN "socket" ELSE "none"
                /\ nPeer' = IF res = "ok" THEN "open" ELSE "none"
                /\ nBuf' = <<>>
          /\ UNCHANGED <<data, wSock>>
    BY <1>4 DEF CallAcquireNotify, Verdict
  <2>3. pc' = "reply" /\ cur'.req = "AcquireNotify" /\ cur'.res = res
    BY <2>1, <2>2 DEF Answer
  <2>4. nBuf' \in Seq(AttVal) /\ Len(nBuf') <= SockCap
    <3>1. nBuf' = nBuf \/ nBuf' = <<>>
      BY <2>2 DEF nSock
    <3>2. CASE nBuf' = nBuf
      BY <3>2 DEF IInv, TypeOK
    <3>3. CASE nBuf' = <<>>
      BY <3>3, CapType
    <3> QED
      BY <3>1, <3>2, <3>3
  <2>5. /\ notify' \in {"none", "signal", "socket"}
        /\ nPeer' \in {"none", "open", "closed"}
        /\ notify' = "socket" <=> nPeer' # "none"
        /\ nPeer' # "open" => nBuf' = <<>>
        /\ res = "ok" => nPeer' = "open"
    BY <2>2 DEF nSock, IInv, TypeOK, PairInv
  <2>6. UNCHANGED <<value, handle>> /\ UNCHANGED wSock
    BY <2>2 DEF data
  <2>7. TypeOK'
    BY <2>1, <2>3, <2>4, <2>5, <2>6 DEF wSock, Ended, IInv, TypeOK
  <2>8. SuspendInv' /\ GrantInv'
    BY <2>3, <2>5 DEF SuspendInv, GrantInv
  <2>9. PairInv' /\ ReadInv'
    BY <2>1, <2>3, <2>4, <2>5, <2>6 DEF wSock, IInv, PairInv, ReadInv
  <2> QED
    BY <2>7, <2>8, <2>9 DEF IInv
<1>5. CASE CallAcquireWrite
  <2>1. Rest /\ Head(calls).m = "AcquireWrite" /\ pc = "select" /\ unread = wBuf
    BY <1>5, <1>0 DEF CallAcquireWrite
  <2>2. PICK res :
          /\ Answer(Head(calls), res, NoCall)
          /\ IF res = "ok"
             THEN /\ writeFd' = "open" /\ wPeer' = "open"
                  /\ wBuf' = <<>> /\ unread' = <<>>
             ELSE UNCHANGED wSock
          /\ UNCHANGED <<data, nSock>>
    BY <1>5 DEF CallAcquireWrite
  <2>3. pc' = "reply" /\ cur'.req = "AcquireWrite" /\ cur'.res = res
    BY <2>1, <2>2 DEF Answer
  <2>4. /\ wBuf' \in Seq(Value) /\ Len(wBuf') <= SockCap
        /\ unread' \in Seq(Value) /\ unread' = wBuf'
    <3>1. (wBuf' = wBuf \/ wBuf' = <<>>) /\ unread' = wBuf'
      BY <2>1, <2>2 DEF wSock
    <3>2. CASE wBuf' = wBuf
      BY <3>1, <3>2 DEF IInv, TypeOK
    <3>3. CASE wBuf' = <<>>
      BY <3>1, <3>3, CapType
    <3> QED
      BY <3>1, <3>2, <3>3
  <2>5. /\ writeFd' \in {"none", "open"}
        /\ wPeer' \in {"none", "open", "closed"}
        /\ writeFd' = "open" <=> wPeer' # "none"
        /\ wPeer' = "none" => wBuf' = <<>>
        /\ res = "ok" => wPeer' = "open"
    BY <2>2 DEF wSock, IInv, TypeOK, PairInv
  <2>6. UNCHANGED <<value, handle>> /\ UNCHANGED nSock
    BY <2>2 DEF data
  <2>7. TypeOK'
    BY <2>1, <2>3, <2>4, <2>5, <2>6 DEF nSock, Ended, IInv, TypeOK
  <2>8. SuspendInv' /\ GrantInv'
    BY <2>3, <2>5 DEF SuspendInv, GrantInv
  <2>9. PairInv' /\ ReadInv'
    BY <2>3, <2>4, <2>5, <2>6 DEF nSock, IInv, PairInv, ReadInv
  <2> QED
    BY <2>7, <2>8, <2>9 DEF IInv
<1>6. CASE CallStartNotify
  <2>1. Rest /\ Head(calls).m = "StartNotify" /\ pc = "select"
    BY <1>6, <1>0 DEF CallStartNotify
  <2>2. PICK res :
          /\ Answer(Head(calls), res, NoCall)
          /\ notify' = IF res = "ok" THEN "signal" ELSE notify
          /\ res = "ok" => notify = "none"
          /\ UNCHANGED <<data, nPeer, nBuf, wSock>>
    BY <1>6 DEF CallStartNotify, Verdict
  <2> QED
    BY <2>1, <2>2
    DEF Answer, data, wSock, Ended, IInv, TypeOK, SuspendInv, PairInv, ReadInv, GrantInv
<1>7. CASE CallStopNotify
  <2>1. Rest /\ Head(calls).m = "StopNotify" /\ pc = "select"
    BY <1>7, <1>0 DEF CallStopNotify
  <2> QED
    BY <1>7, <2>1
    DEF CallStopNotify, Answer, data, wSock, Ended,
        IInv, TypeOK, SuspendInv, PairInv, ReadInv, GrantInv
<1>8. CASE CallSetHandle
  <2>1. Rest /\ Head(calls).m = "Set" /\ pc = "select" /\ Head(calls) \in Call
    BY <1>8, <1>0 DEF CallSetHandle
  <2>2. handle' \in {0, 1}
    BY <1>8, <2>1, CallType DEF CallSetHandle
  <2> QED
    BY <1>8, <2>1, <2>2
    DEF CallSetHandle, Answer, nSock, wSock, Ended,
        IInv, TypeOK, SuspendInv, PairInv, ReadInv, GrantInv
<1>9. CASE CallGet
  <2>1. Rest /\ Head(calls).m = "Get" /\ pc = "select"
    BY <1>9, <1>0 DEF CallGet
  <2>2. cur'.val = SessionProps /\ UNCHANGED <<notify, nPeer, wPeer>>
    BY <1>9 DEF CallGet, Answer, nSock, wSock
  <2>3. PropsTold(cur.val)'
    BY <2>2, PropsAreTold
    DEF PropsTold, SessionTold, BluezSession
  <2> QED
    BY <1>9, <2>1, <2>3
    DEF CallGet, Answer, data, nSock, wSock, Ended,
        IInv, TypeOK, SuspendInv, PairInv, ReadInv, GrantInv
<1>10. CASE CallOther
  <2>1. Rest
    BY <1>10, <1>0 DEF CallOther
  <2> QED
    BY <1>10, <2>1, FinishIInv DEF CallOther, data, Ended, IInv, TypeOK
<1>11. CASE CallLost
  BY <1>11, FinishIInv DEF CallLost, data, queues, Ended, IInv, TypeOK
<1> QED
  BY <1>1, <1>2, <1>3, <1>4, <1>5, <1>6, <1>7, <1>8, <1>9, <1>10, <1>11
  DEF OnCall

LEMMA FinishingIInv == IInv /\ Finishing => IInv'
<1> SUFFICES ASSUME IInv, Finishing PROVE IInv'
  OBVIOUS
<1>1. CASE NotifyNobody
  BY <1>1 DEF NotifyNobody, AfterNotify, data, nSock, wSock, queues, Ended,
              IInv, TypeOK, SuspendInv, PairInv, ReadInv, GrantInv
<1>2. CASE NotifySocket
  <2>1. nBuf' \in Seq(AttVal) /\ Len(nBuf') <= SockCap
    BY <1>2, CapType DEF NotifySocket, IInv, TypeOK
  <2> QED
    BY <1>2, <2>1
    DEF NotifySocket, AfterNotify, data, wSock, queues, Ended,
        IInv, TypeOK, SuspendInv, PairInv, ReadInv, GrantInv
<1>3. CASE NotifyBroken
  <2>1. <<>> \in Seq(AttVal) /\ Len(<<>>) = 0
    OBVIOUS
  <2> QED
    BY <1>3, <2>1, CapType
    DEF NotifyBroken, AfterNotify, data, wSock, queues, Ended,
        IInv, TypeOK, SuspendInv, PairInv, ReadInv, GrantInv
<1>4. CASE NotifySignal
  <2>1. CASE conn
    BY <1>4, <2>1
    DEF NotifySignal, AfterNotify, data, nSock, wSock, queues, Ended,
        IInv, TypeOK, SuspendInv, PairInv, ReadInv, GrantInv
  <2>2. CASE ~conn
    BY <1>4, <2>2, FinishIInv DEF NotifySignal, data, queues, Ended, IInv, TypeOK
  <2> QED
    BY <2>1, <2>2
<1>5. CASE SendReply
  <2>1. CASE conn
    BY <1>5, <2>1
    DEF SendReply, data, nSock, wSock, queues, Ended,
        IInv, TypeOK, SuspendInv, PairInv, ReadInv, GrantInv
  <2>2. CASE ~conn
    BY <1>5, <2>2, FinishIInv DEF SendReply, data, queues, Ended, IInv, TypeOK
  <2> QED
    BY <2>1, <2>2
<1> QED
  BY <1>1, <1>2, <1>3, <1>4, <1>5 DEF Finishing

LEMMA InputIInv == IInv /\ (Input \/ BluezRead) => IInv'
<1> SUFFICES ASSUME IInv, Input \/ BluezRead PROVE IInv'
  OBVIOUS
<1> USE DEF core, data, nSock, wSock, queues
<1> USE DEF IInv, TypeOK, SuspendInv, PairInv, ReadInv, GrantInv
<1>1. ASSUME NEW m \in Msg, SendMsg(m) PROVE IInv'
  BY <1>1, CapType, PropsKept DEF SendMsg
<1>2. ASSUME NEW c \in Call, BluezCall(c) PROVE IInv'
  BY <1>2, CapType, PropsKept DEF BluezCall
<1>3. ASSUME NEW v \in Value, BluezWrite(v) PROVE IInv'
  <2>1. /\ wBuf \in Seq(Value) /\ unread \in Seq(Value) /\ Len(wBuf) < SockCap
        /\ wBuf' = Append(wBuf, v) /\ unread' = Append(unread, v)
    BY <1>3 DEF BluezWrite
  <2>2. /\ wBuf' \in Seq(Value) /\ unread' \in Seq(Value) /\ Len(wBuf') <= SockCap
        /\ unread # <<>> =>
             /\ Head(unread') = Head(unread) /\ unread' # <<>>
             /\ Tail(unread') = Append(Tail(unread), v)
    BY <2>1, CapType
  <2>3. /\ UNCHANGED <<core, data, nSock, writeFd, wPeer, queues>>
        /\ wPeer = "open"
    BY <1>3 DEF BluezWrite
  <2>4. ReadInv'
    BY <2>1, <2>2, <2>3
  <2>5. TypeOK' /\ SuspendInv' /\ PairInv'
    BY <2>1, <2>2, <2>3
  <2>6. GrantInv'
    BY <2>3, PropsKept
  <2> QED
    BY <2>4, <2>5, <2>6
<1>4. ASSUME NEW v \in Value \cup {value}, NotifyCallback(v) PROVE IInv'
  BY <1>4, ValueType DEF NotifyCallback, StartNotifying
<1>5. CASE DropSenders \/ LoseConn
  <2>1. /\ UNCHANGED <<core, data, nSock, wSock, msgs, calls>>
        /\ senders' \in BOOLEAN /\ conn' \in BOOLEAN
    BY <1>5 DEF DropSenders, LoseConn
  <2>2. TypeOK'
    BY <2>1
  <2>3. SuspendInv' /\ PairInv' /\ ReadInv' /\ GrantInv'
    BY <2>1, PropsKept
  <2> QED
    BY <2>2, <2>3
<1>6. CASE BluezHangUp
  <2>1. <<>> \in Seq(AttVal) /\ Len(<<>>) = 0
    OBVIOUS
  <2> QED
    BY <1>6, <2>1, CapType
    DEF BluezHangUp, Delivered, PropsTold, SessionTold, BluezSession
<1>7. CASE BluezCloseWrite
  BY <1>7
  DEF BluezCloseWrite, Delivered, PropsTold, SessionTold, BluezSession
<1>8. CASE BluezRead
  <2>1. Tail(nBuf) \in Seq(AttVal) /\ Len(Tail(nBuf)) <= SockCap
    BY <1>8, CapType DEF BluezRead
  <2> QED
    BY <1>8, <2>1, PropsKept DEF BluezRead
<1>9. CASE RecvFails
  BY <1>9, FinishIInv DEF RecvFails, Ended
<1>10. CASE AcquireFails
  <2>1. /\ calls # <<>> /\ calls' = Tail(calls) /\ UNCHANGED <<msgs, senders, conn>>
        /\ Finish("failed") /\ UNCHANGED <<value, handle>>
    BY <1>10 DEF AcquireFails, Takes
  <2> QED
    BY <2>1, TakenType, FinishIInv DEF Ended
<1> QED
  BY <1>1, <1>2, <1>3, <1>4, <1>5, <1>6, <1>7, <1>8, <1>9, <1>10 DEF Input

LEMMA NextIInv == IInv /\ [Next]_vars => IInv'
<1>1. IInv /\ UNCHANGED vars => IInv'
  BY PropsKept
  DEF vars, core, data, nSock, wSock, queues,
         IInv, TypeOK, SuspendInv, PairInv, ReadInv, GrantInv
<1> QED
  BY <1>1, MessageIInv, SocketIInv, CallIInv, FinishingIInv, InputIInv
  DEF Next, Worker

\* The types, and the coupling of sockets, suspended handlers and replies, hold
\* in every reachable state of the worker.
THEOREM WorkerInv == Spec => []IInv
  BY InitIInv, NextIInv, PTL DEF Spec

\* As long as Bluez keeps a notify descriptor open the worker notifies through
\* that pair.
THEOREM DescriptorServed == Spec => []FdServed
<1>1. IInv => FdServed
  BY DEF IInv, PairInv, FdServed
<1> QED
  BY <1>1, WorkerInv, PTL

------------------------------------------------------------------------------
(* Replies. *)

\* Taking a call puts nothing out yet.
LEMMA CallsAreQuiet == OnCall => out' = Quiet
<1>0. ASSUME NEW m, Takes(m) PROVE out' = Quiet
  BY <1>0 DEF Takes
<1>1. CallReadValue \/ CallWriteValue => out' = Quiet
  BY <1>0 DEF CallReadValue, CallWriteValue
<1>2. CallAcquireNotify \/ CallAcquireWrite => out' = Quiet
  BY <1>0 DEF CallAcquireNotify, CallAcquireWrite
<1>3. CallStartNotify \/ CallStopNotify => out' = Quiet
  BY <1>0 DEF CallStartNotify, CallStopNotify
<1>4. CallSetHandle \/ CallGet \/ CallOther => out' = Quiet
  BY <1>0 DEF CallSetHandle, CallGet, CallOther
<1>5. CallRefused \/ CallLost => out' = Quiet
  BY DEF CallRefused, CallLost
<1> QED
  BY <1>1, <1>2, <1>3, <1>4, <1>5 DEF OnCall

\* Only the last step of a call puts out a reply, and only notify a
\* notification.
LEMMA QuietSteps ==
  OnMessage \/ OnSocket \/ OnCall \/ Input \/ BluezRead
    => out'.kind \in {"none", "answer"}
<1>1. OnMessage => out'.kind \in {"none", "answer"}
  BY DEF OnMessage, MsgUnregister, MsgClosed, MsgUpdate, MsgNotify, MsgAsk,
         MsgGetHandle, Quiet, Told
<1>2. OnSocket => out'.kind \in {"none", "answer"}
  BY DEF OnSocket, SocketWrite, SocketReadsNothing, SocketHangUp,
         SocketEmptyWrite, Quiet
<1>3. OnCall => out'.kind \in {"none", "answer"}
  BY CallsAreQuiet DEF Quiet
<1>4. Input \/ BluezRead => out'.kind \in {"none", "answer"}
  BY DEF Input, SendMsg, BluezCall, BluezWrite, NotifyCallback, DropSenders,
         LoseConn, BluezHangUp, BluezCloseWrite, BluezRead, RecvFails,
         AcquireFails, Takes, Quiet
<1> QED
  BY <1>1, <1>2, <1>3, <1>4

\* What Bluez is granted is there when it reads the reply.
THEOREM GrantsAreReal == Spec => []GrantsHold
<1>1. Init => GrantsHold
  BY DEF Init, GrantsHold, Quiet
<1>2. ASSUME IInv, GrantsHold, [Next]_vars PROVE GrantsHold'
  <2>1. CASE OnMessage \/ OnSocket \/ OnCall \/ Input \/ BluezRead
    BY <2>1, QuietSteps DEF GrantsHold
  <2>2. CASE SendReply
    BY <1>2, <2>2
    DEF SendReply, Finish, nSock, wSock, Replied, Quiet, GrantsHold,
        IInv, PairInv, GrantInv, PropsTold, SessionTold, BluezSession
  <2>3. CASE NotifyNobody \/ NotifySocket \/ NotifyBroken \/ NotifySignal
    BY <2>3 DEF NotifyNobody, NotifySocket, NotifyBroken, NotifySignal,
                Sent, Quiet, GrantsHold
  <2>4. CASE UNCHANGED vars
    BY <1>2, <2>4, PropsKept DEF vars, nSock, wSock, GrantsHold
  <2> QED
    BY <1>2, <2>1, <2>2, <2>3, <2>4 DEF Next, Worker, Finishing
<1> QED
  BY <1>1, <1>2, WorkerInv, PTL DEF Spec

\* What the application and the app worker are told of the sessions errs on one
\* side only: a hang-up that nobody has looked at.
THEOREM SessionsAreTold == Spec => []ToldOfSession
<1>1. Init => ToldOfSession
  BY DEF Init, ToldOfSession, Quiet
<1>2. ASSUME IInv, ToldOfSession, [Next]_vars PROVE ToldOfSession'
  <2>1. CASE MsgAsk
    <3>1. PICK k \in {"Get", "ObjMgr", "Notifying", "NotifyAcquired", "NotifyingSignal"} :
            out' = Told(k, AnswerTo(k))
      BY <2>1 DEF MsgAsk
    <3>2. /\ UNCHANGED <<notify, nPeer, wPeer>>
          /\ out'.kind = "answer" /\ out'.req = k /\ out'.val = AnswerTo(k)
      BY <2>1, <3>1 DEF MsgAsk, Told, nSock, wSock
    <3>3. CASE k = "NotifyAcquired"
      BY <1>2, <3>2, <3>3
      DEF AnswerTo, ToldOfSession, IInv, PairInv, BluezSession
    <3>4. CASE k = "NotifyingSignal"
      BY <1>2, <3>2, <3>4
      DEF AnswerTo, ToldOfSession, IInv, PairInv, BluezSession
    <3>5. CASE k = "Notifying"
      BY <1>2, <3>2, <3>5
      DEF AnswerTo, ToldOfSession, IInv, TypeOK, PairInv, SessionTold, BluezSession
    <3>6. CASE k = "ObjMgr"
      <4>1. out'.val = SessionProps
        BY <3>2, <3>6 DEF AnswerTo
      <4>2. PropsTold(out.val)'
        BY <1>2, <3>2, <4>1, PropsAreTold
        DEF PropsTold, SessionTold, BluezSession
      <4> QED
        BY <3>2, <3>6, <4>2 DEF ToldOfSession
    <3>7. CASE k = "Get"
      BY <3>2, <3>7 DEF ToldOfSession
    <3> QED
      BY <3>3, <3>4, <3>5, <3>6, <3>7
  <2>2. CASE MsgGetHandle
    BY <2>2 DEF MsgGetHandle, Told, Quiet, ToldOfSession
  <2>3. CASE \/ MsgUnregister \/ MsgClosed \/ MsgUpdate \/ MsgNotify
             \/ OnSocket \/ Input \/ BluezRead
    <3>1. out' = Quiet
      BY <2>3 DEF MsgUnregister, MsgClosed, MsgUpdate, MsgNotify, OnSocket,
           SocketWrite, SocketReadsNothing, SocketHangUp, SocketEmptyWrite,
           Input, SendMsg, BluezCall, BluezWrite, NotifyCallback, DropSenders,
           LoseConn, BluezHangUp, BluezCloseWrite, RecvFails, AcquireFails,
           Takes, BluezRead
    <3> QED
      BY <3>1 DEF Quiet, ToldOfSession
  <2>4. CASE OnCall \/ Finishing
    <3>1. out'.kind # "answer"
      BY <2>4, CallsAreQuiet DEF Finishing, SendReply, NotifyNobody,
           NotifySocket, NotifyBroken, NotifySignal, Replied, Sent, Quiet
    <3> QED
      BY <3>1 DEF ToldOfSession
  <2>5. CASE UNCHANGED vars
    BY <1>2, <2>5, PropsKept DEF vars, nSock, wSock, ToldOfSession
  <2> QED
    BY <1>2, <2>1, <2>2, <2>3, <2>4, <2>5 DEF Next, Worker, OnMessage
<1> QED
  BY <1>1, <1>2, WorkerInv, PTL DEF Spec

\* Bluez and the application are told of sessions that are there.
THEOREM OutputIsTrue == Spec => []OutIsTrue
<1>1. GrantsHold /\ ToldOfSession => OutIsTrue
  BY DEF OutIsTrue
<1> QED
  BY <1>1, GrantsAreReal, SessionsAreTold, PTL

------------------------------------------------------------------------------
(* The write socket. *)

\* A write descriptor is given up only once everything Bluez wrote was handed
\* over, or when an empty datagram comes next.
THEOREM WritesAreRead == Spec => NoWriteLost
<1> DEFINE Kept == (writeFd = "open" /\ writeFd' = "none" /\ Running') =>
                     unread = <<>> \/ Head(unread) = <<>>
<1>0. ASSUME UNCHANGED writeFd PROVE Kept
  BY <1>0
<1>1. ASSUME NEW how \in Ended, Finish(how) PROVE Kept
  BY <1>1 DEF Finish, Running
<1>2. OnMessage => Kept
  <2>1. OnMessage => UNCHANGED writeFd \/ \E how \in Ended : Finish(how)
    BY DEF OnMessage, MsgUnregister, MsgClosed, MsgUpdate, MsgNotify, MsgAsk,
           MsgGetHandle, Ended, wSock
  <2> QED
    BY <2>1, <1>0, <1>1
<1>3. IInv /\ OnSocket => Kept
  <2>1. IInv /\ SocketHangUp => Kept
    BY DEF SocketHangUp, IInv, ReadInv
  <2>2. OnSocket => SocketHangUp \/ UNCHANGED writeFd
    BY DEF OnSocket, SocketWrite, SocketReadsNothing, SocketEmptyWrite
  <2> QED
    BY <2>1, <2>2, <1>0
<1>4. OnCall => Kept
  <2>1. OnCall => \/ UNCHANGED writeFd \/ \E how \in Ended : Finish(how)
                  \/ CallAcquireWrite
    BY DEF OnCall, CallRefused, CallReadValue, CallWriteValue,
           CallAcquireNotify, CallStartNotify, CallStopNotify,
           CallSetHandle, CallGet, CallOther, CallLost, Ended, wSock
  <2>2. CallAcquireWrite => Kept
    BY DEF CallAcquireWrite, wSock
  <2> QED
    BY <2>1, <2>2, <1>0, <1>1
<1>5. Finishing => Kept
  <2>1. Finishing => UNCHANGED writeFd \/ \E how \in Ended : Finish(how)
    BY DEF Finishing, NotifyNobody, NotifySocket, NotifyBroken, NotifySignal,
           SendReply, Ended, wSock
  <2> QED
    BY <2>1, <1>0, <1>1
<1>6. Input \/ BluezRead => Kept
  <2>1. Input \/ BluezRead => UNCHANGED writeFd \/ \E how \in Ended : Finish(how)
    BY DEF Input, SendMsg, BluezCall, BluezWrite, NotifyCallback, DropSenders,
           LoseConn, BluezHangUp, BluezCloseWrite, BluezRead, RecvFails,
           AcquireFails, Ended, wSock
  <2> QED
    BY <2>1, <1>0, <1>1
<1>7. IInv /\ [Next]_vars => [Kept]_vars
  BY <1>2, <1>3, <1>4, <1>5, <1>6 DEF Next, Worker
<1> QED
  BY <1>7, WorkerInv, PTL DEF Spec, NoWriteLost

------------------------------------------------------------------------------
(* Refinement of NotifySession. *)

\* A step that notifies nobody and leaves the session or ends it.
LEMMA EndOrQuiet ==
  ASSUME Emitted' = "none", BluezSession' \in {BluezSession, "none"}
  PROVE  Session!Next
<1>1. CASE BluezSession' = BluezSession
  BY <1>1 DEF Session!Next, Session!Quiet
<1>2. CASE BluezSession' = "none" /\ BluezSession # "none"
  BY <1>2 DEF Session!Next, Session!End
<1> QED
  BY <1>1, <1>2

\* Each step of the worker and of Bluez is a step of the session.
LEMMA NextRefines == IInv /\ [Next]_vars => [Session!Next]_(Session!vars)
<1> SUFFICES ASSUME IInv, [Next]_vars PROVE [Session!Next]_(Session!vars)
  OBVIOUS
<1>0. ASSUME NEW how, Finish(how) PROVE BluezSession' = "none"
  BY <1>0 DEF Finish, BluezSession
<1>1. CASE OnMessage \/ OnSocket
  <2>1. Emitted' = "none"
    BY <1>1, QuietSteps DEF Emitted
  <2>2. UNCHANGED nSock \/ \E how \in Ended : Finish(how)
    BY <1>1
    DEF OnMessage, MsgUnregister, MsgClosed, MsgUpdate, MsgNotify, MsgAsk,
        MsgGetHandle, OnSocket, SocketWrite, SocketReadsNothing,
        SocketHangUp, SocketEmptyWrite, Ended
  <2>3. BluezSession' \in {BluezSession, "none"}
    BY <2>2, <1>0 DEF nSock, BluezSession
  <2> QED
    BY <2>1, <2>3, EndOrQuiet
<1>2. CASE OnCall
  <2>1. Emitted' = "none"
    BY <1>2, QuietSteps DEF Emitted
  <2>2. CASE CallAcquireNotify
    <3>1. CASE NotifyFree
      <4>1. BluezSession = "none"
        BY <3>1 DEF NotifyFree, BluezSession, IInv, PairInv
      <4>2. BluezSession' \in {"none", "socket"}
        BY <2>2, <3>1, <4>1 DEF CallAcquireNotify, nSock, BluezSession
      <4> QED
        BY <2>1, <4>1, <4>2, EndOrQuiet
        DEF Session!Next, Session!Begin, Session!Kinds
    <3>2. CASE ~NotifyFree
      <4>1. BluezSession' = BluezSession
        BY <2>2, <3>2 DEF CallAcquireNotify, nSock, BluezSession
      <4> QED
        BY <2>1, <4>1, EndOrQuiet
    <3> QED
      BY <3>1, <3>2
  <2>3. CASE CallStartNotify
    <3>1. \/ BluezSession' = BluezSession
          \/ BluezSession = "none" /\ BluezSession' = "signal"
      BY <2>3 DEF CallStartNotify, Verdict, BluezSession, IInv, PairInv
    <3> QED
      BY <2>1, <3>1, EndOrQuiet DEF Session!Next, Session!Begin, Session!Kinds
  <2>4. CASE CallStopNotify
    <3>1. BluezSession' \in {BluezSession, "none"}
      BY <2>4 DEF CallStopNotify, BluezSession, IInv, PairInv
    <3> QED
      BY <2>1, <3>1, EndOrQuiet
  <2>5. CASE UNCHANGED nSock \/ \E how \in Ended : Finish(how)
    <3>1. BluezSession' \in {BluezSession, "none"}
      BY <2>5, <1>0 DEF nSock, BluezSession
    <3> QED
      BY <2>1, <3>1, EndOrQuiet
  <2> QED
    BY <1>2, <2>2, <2>3, <2>4, <2>5
    DEF OnCall, CallRefused, CallReadValue, CallWriteValue, CallAcquireWrite,
        CallSetHandle, CallGet, CallOther, CallLost, Ended
<1>3. CASE Finishing
  <2>1. CASE NotifySocket
    <3>1. /\ BluezSession = "socket" /\ BluezSession' = "socket"
          /\ Emitted' = "socket"
      BY <2>1 DEF NotifySocket, Sent, BluezSession, Emitted
    <3> QED
      BY <3>1 DEF Session!Next, Session!Notify
  <2>2. CASE NotifySignal /\ conn
    <3>1. /\ BluezSession = "signal" /\ BluezSession' = "signal"
          /\ Emitted' = "signal"
      BY <2>2 DEF NotifySignal, Sent, nSock, BluezSession, Emitted, IInv, PairInv
    <3> QED
      BY <3>1 DEF Session!Next, Session!Notify
  <2>3. CASE NotifyNobody \/ NotifyBroken \/ (NotifySignal /\ ~conn) \/ SendReply
    <3>1. Emitted' = "none"
      BY <2>3 DEF NotifyNobody, NotifyBroken, NotifySignal, SendReply,
                  Replied, Quiet, Emitted
    <3>2. BluezSession' \in {BluezSession, "none"}
      BY <2>3, <1>0 DEF NotifyNobody, NotifyBroken, NotifySignal, SendReply,
                        nSock, BluezSession
    <3> QED
      BY <3>1, <3>2, EndOrQuiet
  <2> QED
    BY <1>3, <2>1, <2>2, <2>3 DEF Finishing
<1>4. CASE Input \/ BluezRead
  <2>1. Emitted' = "none"
    BY <1>4, QuietSteps DEF Emitted
  <2>2. BluezSession' \in {BluezSession, "none"}
    BY <1>4
    DEF Input, SendMsg, BluezCall, BluezWrite, NotifyCallback, DropSenders,
        LoseConn, BluezHangUp, BluezCloseWrite, BluezRead, RecvFails,
        AcquireFails, Finish, nSock, BluezSession, IInv, PairInv
  <2> QED
    BY <2>1, <2>2, EndOrQuiet
<1>5. CASE UNCHANGED vars
  BY <1>5 DEF vars, nSock, Session!vars, BluezSession, Emitted
<1> QED
  BY <1>1, <1>2, <1>3, <1>4, <1>5 DEF Next, Worker

\* The worker gives Bluez one notification session at a time.
THEOREM RefinesNotifySession == Spec => ImplementsSession
<1>1. Init => Session!Init
  BY DEF Init, Session!Init, BluezSession, Emitted, Quiet
<1> QED
  BY <1>1, NextRefines, WorkerInv, PTL DEF Spec, ImplementsSession, Session!Spec
==============================================================================
