----------------------------- MODULE ChrcWorker -----------------------------
(***************************************************************************)
(* The worker of one GATT characteristic (Characteristic::start_worker and *)
(* ChrcData in src/gatt/server/chrc.rs).  The task waits on four sources:  *)
(* the message channel of AppWorker and of the app worker, the user's      *)
(* notify callback, the socket Bluez writes to after AcquireWrite, and the *)
(* D-Bus calls of its object path.  A handler that notifies may suspend in *)
(* socket.send, and a D-Bus call is answered in a step of its own, after   *)
(* the notification it caused: meanwhile Bluez writes, reads and hangs up, *)
(* users send messages, and the connection may fail.                       *)
(*                                                                         *)
(* External code is modelled by how the worker uses it: the two sockets    *)
(* are the bounded queues of a SEQPACKET pair, the message channel is a    *)
(* bounded queue that reports the loss of its senders once it is empty,    *)
(* and the user's callbacks may answer anything.  Bounds: MsgCap (8 in the *)
(* code), CallCap, SockCap, and the kinds of messages and calls enumerated *)
(* by an instance.                                                         *)
(***************************************************************************)
EXTENDS AttValue

CONSTANTS
  Value,      \* the attribute values of an instance
  Offsets,    \* the offsets of ReadValue and WriteValue
  Flags,      \* the flags of the characteristic
  Filter,     \* whether calls from others than Bluez are refused
  MsgKinds,   \* the kinds of WorkerMsg that are sent
  Methods,    \* the kinds of D-Bus calls that arrive
  MsgCap, CallCap, SockCap,
  NoCall      \* no D-Bus call is being answered

ASSUME ValueType == \A v \in Value : v \in AttVal
ASSUME OffsetType == Offsets \subseteq Nat
ASSUME CapType == MsgCap \in Nat /\ CallCap \in Nat /\ SockCap \in Nat
ASSUME FilterType == Filter \in BOOLEAN

VARIABLES
  pc,       \* "select", suspended in "notify" or "reply", between the recv and
            \* the poll of check_for_write in "read", or how the task ended
  cur,      \* the call being answered and its result, or NoCall
  outVal,   \* att_val of the pending notification
  value,    \* ChrcData.value, as to_value() returns it
  handle,   \* ChrcData.handle: 0, or set
  notify,   \* ChrcData.notify: "none", "signal" or "socket"
  nPeer,    \* Bluez's end of the notify socket: "none", "open", "closed"
  nBuf,     \* datagrams Bluez has not read from it
  writeFd,  \* ChrcData.write_fd: "none" or "open"
  wPeer,    \* Bluez's end of the write socket
  wBuf,     \* datagrams the worker has not read from it
  unread,   \* history: what Bluez wrote and handle_write was not called with
  msgs,     \* the message channel
  senders,  \* whether any Sender of the channel is left
  calls,    \* D-Bus calls queued for the path
  conn,     \* whether the D-Bus connection works
  out       \* what the last step put out

core == <<pc, cur, outVal>>
data == <<value, handle>>
nSock == <<notify, nPeer, nBuf>>
wSock == <<writeFd, wPeer, wBuf, unread>>
queues == <<msgs, senders, calls, conn>>
vars == <<core, data, nSock, wSock, queues, out>>

Ended == {"done", "failed", "panicked"}
Running == pc \notin Ended

\* What a step puts out: a reply to a call, the answer to a message that asks,
\* a notification, or nothing.
Quiet == [kind |-> "none"]
Replied(m, res, v) == [kind |-> "reply", req |-> m, res |-> res, val |-> v]
Told(m, v) == [kind |-> "answer", req |-> m, val |-> v]
Sent(via, v) == [kind |-> "notify", via |-> via, val |-> v]

\* WorkerMsg, without the one-time sender a message that asks carries.
Plain == {"Unregister", "Get", "GetHandle", "ObjMgr",
          "Notifying", "NotifyAcquired", "NotifyingSignal"}
Msg ==
  [kind : MsgKinds \cap Plain]
  \cup [kind : MsgKinds \cap {"Update"}, val : Value, notify : BOOLEAN]
  \cup [kind : MsgKinds \cap {"Notify"}, val : Value \cup {NoCall}]

\* A method call of BLUEZ_CHR_IF ("Set" is Properties.Set of Handle, "Get" any
\* call that reads, "Other" an interface the worker does not have).
Sender == IF Filter THEN {"bluez", "stranger"} ELSE {"bluez"}
Call ==
  [m : Methods \cap {"ReadValue"}, from : Sender, ok : BOOLEAN, off : Offsets]
  \cup [m : Methods \cap {"WriteValue"}, from : Sender, ok : BOOLEAN,
        off : Offsets, val : Value]
  \cup [m : Methods \cap {"AcquireNotify", "AcquireWrite"}, from : Sender,
        ok : BOOLEAN]
  \cup [m : Methods \cap {"StartNotify", "StopNotify", "Get"}, from : Sender]
  \cup [m : Methods \cap {"Set"}, from : Sender, val : {0, 1}]
  \cup [m : Methods \cap {"Other"}, from : Sender]

\* is_msg_bluez
FromBluez(c) == ~Filter \/ c.from = "bluez"

Init ==
  /\ pc = "select" /\ cur = NoCall /\ outVal = NoCall
  /\ value \in Value /\ handle \in {0, 1}
  /\ notify = "none" /\ nPeer = "none" /\ nBuf = <<>>
  /\ writeFd = "none" /\ wPeer = "none" /\ wBuf = <<>> /\ unread = <<>>
  /\ msgs = <<>> /\ senders = TRUE /\ calls = <<>> /\ conn = TRUE
  /\ out = Quiet

------------------------------------------------------------------------------
(* How a handler ends. *)

\* The task ends and its ends of both sockets are closed with it.
Finish(how) ==
  /\ pc' = how /\ cur' = NoCall /\ outVal' = NoCall
  /\ notify' = "none" /\ nPeer' = "none" /\ nBuf' = <<>>
  /\ writeFd' = "none" /\ wPeer' = "none" /\ wBuf' = <<>> /\ unread' = <<>>

\* self.notify(..).await: the value to put out is fixed before the suspension;
\* c is the call to answer afterwards, or NoCall to go back to select.
StartNotifying(v, c) == pc' = "notify" /\ outVal' = v /\ cur' = c

\* The call is answered with res, and v where the answer carries a value.
Answer(c, res, v) ==
  /\ pc' = "reply"
  /\ cur' = [req |-> c.m, res |-> res, val |-> v]
  /\ UNCHANGED outVal

\* handle_write: the user's write_callback keeps the old value or installs the
\* written one, and says whether to notify.  c is answered in the end.
HandleWrite(v, c) ==
  /\ value' \in {value, v}
  /\ UNCHANGED handle
  /\ \/ StartNotifying(value', c)
     \/ /\ pc' = IF c = NoCall THEN "select" ELSE "reply"
        /\ cur' = c
        /\ UNCHANGED outVal

------------------------------------------------------------------------------
(* The message channel. *)

\* A bug of the kind the module must exclude: a session delays the shutdown.
UnregisterIdle ==
  /\ pc = "select" /\ msgs # <<>> /\ Head(msgs).kind = "Unregister"
  /\ notify = "none"
  /\ msgs' = Tail(msgs)
  /\ Finish("done")
  /\ out' = Quiet
  /\ UNCHANGED <<data, senders, calls, conn>>

\* Unregister, and the loss of every sender, end the worker.
MsgUnregister ==
  /\ pc = "select" /\ msgs # <<>> /\ Head(msgs).kind = "Unregister"
  /\ msgs' = Tail(msgs)
  /\ Finish("done")
  /\ out' = Quiet
  /\ UNCHANGED <<data, senders, calls, conn>>

MsgClosed ==
  /\ pc = "select" /\ msgs = <<>> /\ ~senders
  /\ Finish("failed")
  /\ out' = Quiet
  /\ UNCHANGED <<data, queues>>

MsgUpdate ==
  /\ pc = "select" /\ msgs # <<>> /\ Head(msgs).kind = "Update"
  /\ msgs' = Tail(msgs)
  /\ value' = Head(msgs).val
  /\ IF Head(msgs).notify THEN StartNotifying(value', NoCall)
                          ELSE UNCHANGED core
  /\ out' = Quiet
  /\ UNCHANGED <<handle, nSock, wSock, senders, calls, conn>>

\* Notify(opt): the given value, or the current one.
MsgNotify ==
  /\ pc = "select" /\ msgs # <<>> /\ Head(msgs).kind = "Notify"
  /\ msgs' = Tail(msgs)
  /\ StartNotifying(IF Head(msgs).val = NoCall THEN value ELSE Head(msgs).val,
                    NoCall)
  /\ out' = Quiet
  /\ UNCHANGED <<data, nSock, wSock, senders, calls, conn>>

\* get_inner: what the properties NotifyAcquired, Notifying and WriteAcquired
\* say; the others are data, and constants of the characteristic.
SessionProps ==
  [acquired |-> notify # "none", notifying |-> notify = "signal",
   write |-> writeFd = "open"]

\* A bug of the kind the module must exclude: any session is an acquired one.
AnswerToAny(k) ==
  CASE k \in {"Notifying", "NotifyAcquired"} -> notify # "none"
    [] k = "NotifyingSignal" -> notify = "signal"
    [] k = "ObjMgr"          -> SessionProps
    [] OTHER                 -> value

\* What a message that asks is told; the one-time channel may have lost its
\* receiver, which .ok() ignores.
AnswerTo(k) ==
  CASE k = "Notifying"       -> notify # "none"
    [] k = "NotifyAcquired"  -> notify = "socket"
    [] k = "NotifyingSignal" -> notify = "signal"
    [] k = "ObjMgr"          -> SessionProps
    [] OTHER                 -> value

MsgAsk ==
  /\ pc = "select" /\ msgs # <<>>
  /\ LET k == Head(msgs).kind IN
     /\ k \in {"Get", "ObjMgr", "Notifying", "NotifyAcquired", "NotifyingSignal"}
     /\ out' = Told(k, AnswerTo(k))
  /\ msgs' = Tail(msgs)
  /\ UNCHANGED <<core, data, nSock, wSock, senders, calls, conn>>

\* GetHandle: the unwrap of NonZeroU16::new panics on a handle nobody set.
MsgGetHandle ==
  /\ pc = "select" /\ msgs # <<>> /\ Head(msgs).kind = "GetHandle"
  /\ msgs' = Tail(msgs)
  /\ IF handle = 0
     THEN Finish("panicked") /\ out' = Quiet
     ELSE out' = Told("GetHandle", handle) /\ UNCHANGED <<core, nSock, wSock>>
  /\ UNCHANGED <<data, senders, calls, conn>>

------------------------------------------------------------------------------
(* The notify callback. *)

\* The user's future is ready with Yes (the current value) or with
\* WithSpecialValue(v); ShouldNotify::No only re-arms the callback.
NotifyCallback(v) ==
  /\ pc = "select"
  /\ StartNotifying(v, NoCall)
  /\ out' = Quiet
  /\ UNCHANGED <<data, nSock, wSock, queues>>

------------------------------------------------------------------------------
(* The write socket: check_for_write and handle_write. *)

\* A bug of the kind the module must exclude: the hang-up is looked at first.
HungUpAtOnce == wPeer = "closed"

\* recv gives no bytes: an empty datagram, or the end of a pair Bluez closed.
ReadsNothing ==
  IF wBuf = <<>> THEN wPeer = "closed" ELSE Head(wBuf) = <<>>

SocketWrite ==
  /\ pc = "select" /\ writeFd = "open"
  /\ wBuf # <<>> /\ ~ReadsNothing
  /\ HandleWrite(Head(wBuf), NoCall)
  /\ wBuf' = Tail(wBuf) /\ unread' = Tail(unread)
  /\ out' = Quiet
  /\ UNCHANGED <<nSock, writeFd, wPeer, queues>>

\* Only after such a recv is is_hung_up asked, and Bluez may write or close in
\* between.
SocketReadsNothing ==
  /\ pc = "select" /\ writeFd = "open" /\ ReadsNothing
  /\ pc' = "read"
  /\ wBuf' = IF wBuf = <<>> THEN <<>> ELSE Tail(wBuf)
  /\ out' = Quiet
  /\ UNCHANGED <<cur, outVal, data, nSock, writeFd, wPeer, unread, queues>>

SocketHangUp ==
  /\ pc = "read" /\ wPeer = "closed"
  /\ pc' = "select"
  /\ writeFd' = "none" /\ wPeer' = "none" /\ wBuf' = <<>> /\ unread' = <<>>
  /\ out' = Quiet
  /\ UNCHANGED <<cur, outVal, data, nSock, queues>>

SocketEmptyWrite ==
  /\ pc = "read" /\ wPeer = "open"
  /\ HandleWrite(<<>>, NoCall)
  /\ unread' = Tail(unread)
  /\ out' = Quiet
  /\ UNCHANGED <<nSock, writeFd, wPeer, wBuf, queues>>

------------------------------------------------------------------------------
(* D-Bus calls. *)

Takes(m) ==
  /\ pc = "select" /\ calls # <<>>
  /\ Head(calls).m = m /\ FromBluez(Head(calls))
  /\ calls' = Tail(calls)
  /\ out' = Quiet
  /\ UNCHANGED <<msgs, senders, conn>>

CallRefused ==
  /\ pc = "select" /\ calls # <<>> /\ ~FromBluez(Head(calls))
  /\ calls' = Tail(calls)
  /\ Answer(Head(calls), "PermissionDenied", NoCall)
  /\ out' = Quiet
  /\ UNCHANGED <<data, nSock, wSock, msgs, senders, conn>>

\* The result of a call that Flags, the parse of its arguments and a further
\* condition admit, in that order.
Verdict(needed, ok, admitted, otherwise) ==
  CASE Flags \cap needed = {} -> "PermissionDenied"
    [] Flags \cap needed # {} /\ ~ok -> "UnknownType"
    [] Flags \cap needed # {} /\ ok /\ ~admitted -> otherwise
    [] OTHER -> "ok"

CallReadValue ==
  /\ Takes("ReadValue")
  /\ LET c   == Head(calls)
         res == Verdict({"read"}, c.ok, TRUE, "ok")
     IN Answer(c, res, IF res = "ok" THEN ReadFrom(value, c.off) ELSE NoCall)
  /\ UNCHANGED <<data, nSock, wSock>>

\* A write at an offset beyond the value, or past the end of the buffer,
\* panics in AttValue::update.
CallWriteValue ==
  /\ Takes("WriteValue")
  /\ LET c   == Head(calls)
         fit == c.off # 0 => CanUpdate(value, c.val, c.off)
         res == Verdict({"write", "write_wo_response"}, c.ok, fit, "panic")
         v   == IF c.off = 0 THEN c.val ELSE Updated(value, c.val, c.off)
     IN \/ /\ res = "ok"
           /\ HandleWrite(v, [req |-> c.m, res |-> "ok", val |-> NoCall])
           /\ UNCHANGED <<nSock, wSock>>
        \/ /\ res = "panic"
           /\ Finish("panicked")
           /\ UNCHANGED data
        \/ /\ res \notin {"ok", "panic"}
           /\ Answer(c, res, NoCall)
           /\ UNCHANGED <<data, nSock, wSock>>

\* A bug of the kind the module must exclude: a running session is not asked for.
NotifyFreeAlways == TRUE

\* acquire_notify may make a pair: no session, or a socket Bluez hung up.
NotifyFree == notify = "none" \/ (notify = "socket" /\ nPeer = "closed")

\* The stale socket is given up before the arguments are parsed.
CallAcquireNotify ==
  /\ Takes("AcquireNotify")
  /\ LET c    == Head(calls)
         free == "notify" \in Flags /\ NotifyFree
         res  == IF "notify" \in Flags /\ ~NotifyFree THEN "AlreadyAcquired"
                 ELSE Verdict({"notify"}, c.ok, TRUE, "ok")
     IN /\ Answer(c, res, NoCall)
        /\ IF ~free THEN UNCHANGED nSock
           ELSE /\ notify' = IF res = "ok" THEN "socket" ELSE "none"
                /\ nPeer' = IF res = "ok" THEN "open" ELSE "none"
                /\ nBuf' = <<>>
  /\ UNCHANGED <<data, wSock>>

CallAcquireWrite ==
  /\ Takes("AcquireWrite")
  /\ LET c   == Head(calls)
         res == IF "write_wo_response" \in Flags /\ writeFd # "none"
                THEN "AlreadyAcquired"
                ELSE Verdict({"write_wo_response"}, c.ok, TRUE, "ok")
     IN /\ Answer(c, res, NoCall)
        /\ IF res = "ok"
           THEN /\ writeFd' = "open" /\ wPeer' = "open"
                /\ wBuf' = <<>> /\ unread' = <<>>
           ELSE UNCHANGED wSock
  /\ UNCHANGED <<data, nSock>>

\* A bug of the kind the module must exclude: signals beside a socket.
StartNotifyBeside ==
  /\ Takes("StartNotify")
  /\ Answer(Head(calls), "ok", NoCall)
  /\ notify' = "signal"
  /\ UNCHANGED <<data, nPeer, nBuf, wSock>>

CallStartNotify ==
  /\ Takes("StartNotify")
  /\ LET busy == IF notify = "socket" THEN "FdAcquired" ELSE "InProgress"
         res  == Verdict({"notify", "indicate"}, TRUE, notify = "none", busy)
     IN /\ Answer(Head(calls), res, NoCall)
        /\ notify' = IF res = "ok" THEN "signal" ELSE notify
  /\ UNCHANGED <<data, nPeer, nBuf, wSock>>

CallStopNotify ==
  /\ Takes("StopNotify")
  /\ IF notify = "signal"
     THEN Answer(Head(calls), "ok", NoCall) /\ notify' = "none"
     ELSE Answer(Head(calls), "NotNotifying", NoCall) /\ UNCHANGED notify
  /\ UNCHANGED <<data, nPeer, nBuf, wSock>>

\* Properties.Set of Handle.
CallSetHandle ==
  /\ Takes("Set")
  /\ handle' = Head(calls).val
  /\ Answer(Head(calls), "ok", NoCall)
  /\ UNCHANGED <<value, nSock, wSock>>

\* Properties.Get and GetAll answer from get_inner; Introspect and an unknown
\* method are answered without it and leave the data alone as well.
CallGet ==
  /\ Takes("Get")
  /\ Answer(Head(calls), "ok", SessionProps)
  /\ UNCHANGED <<data, nSock, wSock>>

\* The match on the interface ends in unreachable!().
CallOther ==
  /\ Takes("Other")
  /\ Finish("panicked")
  /\ UNCHANGED data

\* The call queue of a broken connection reports an error.
CallLost ==
  /\ pc = "select" /\ ~conn
  /\ Finish("failed")
  /\ out' = Quiet
  /\ UNCHANGED <<data, queues>>

------------------------------------------------------------------------------
(* ChrcData::notify, and the reply to a call. *)

\* A bug of the kind the module must exclude: the call is forgotten.
AfterNotifySelect == pc' = "select" /\ outVal' = NoCall /\ cur' = NoCall

AfterNotify ==
  /\ pc' = IF cur = NoCall THEN "select" ELSE "reply"
  /\ outVal' = NoCall
  /\ UNCHANGED cur

NotifyNobody ==
  /\ pc = "notify" /\ notify = "none"
  /\ AfterNotify
  /\ out' = Quiet
  /\ UNCHANGED <<data, nSock, wSock, queues>>

\* socket.send waits for room in the peer's queue.
NotifySocket ==
  /\ pc = "notify" /\ notify = "socket"
  /\ nPeer = "open" /\ Len(nBuf) < SockCap
  /\ nBuf' = Append(nBuf, outVal)
  /\ AfterNotify
  /\ out' = Sent("socket", outVal)
  /\ UNCHANGED <<data, notify, nPeer, wSock, queues>>

\* A socket Bluez hung up fails the send, and is given up.
NotifyBroken ==
  /\ pc = "notify" /\ notify = "socket" /\ nPeer = "closed"
  /\ notify' = "none" /\ nPeer' = "none" /\ nBuf' = <<>>
  /\ AfterNotify
  /\ out' = Quiet
  /\ UNCHANGED <<data, wSock, queues>>

NotifySignal ==
  /\ pc = "notify" /\ notify = "signal"
  /\ IF conn
     THEN AfterNotify /\ out' = Sent("signal", outVal) /\ UNCHANGED <<nSock, wSock>>
     ELSE Finish("failed") /\ out' = Quiet
  /\ UNCHANGED <<data, queues>>

SendReply ==
  /\ pc = "reply"
  /\ IF conn
     THEN /\ pc' = "select" /\ cur' = NoCall
          /\ out' = Replied(cur.req, cur.res, cur.val)
          /\ UNCHANGED <<outVal, nSock, wSock>>
     ELSE Finish("failed") /\ out' = Quiet
  /\ UNCHANGED <<data, queues>>

------------------------------------------------------------------------------
(* The environment, while the worker runs. *)

\* A message of AppWorker or of the app worker; nothing is sent after the last
\* sender is gone.
SendMsg(m) ==
  /\ Running /\ senders /\ Len(msgs) < MsgCap
  /\ msgs' = Append(msgs, m)
  /\ out' = Quiet
  /\ UNCHANGED <<core, data, nSock, wSock, senders, calls, conn>>

DropSenders ==
  /\ Running /\ senders
  /\ senders' = FALSE
  /\ out' = Quiet
  /\ UNCHANGED <<core, data, nSock, wSock, msgs, calls, conn>>

BluezCall(c) ==
  /\ Running /\ conn /\ Len(calls) < CallCap
  /\ calls' = Append(calls, c)
  /\ out' = Quiet
  /\ UNCHANGED <<core, data, nSock, wSock, msgs, senders, conn>>

LoseConn ==
  /\ Running /\ conn
  /\ conn' = FALSE
  /\ out' = Quiet
  /\ UNCHANGED <<core, data, nSock, wSock, msgs, senders, calls>>

\* Bluez has the descriptor of a new pair once the reply has reached it.
Delivered(m) == ~(pc = "reply" /\ cur.req = m)

BluezRead ==
  /\ Running /\ nPeer = "open" /\ nBuf # <<>>
  /\ nBuf' = Tail(nBuf)
  /\ out' = Quiet
  /\ UNCHANGED <<core, data, notify, nPeer, wSock, queues>>

BluezHangUp ==
  /\ Running /\ nPeer = "open" /\ Delivered("AcquireNotify")
  /\ nPeer' = "closed" /\ nBuf' = <<>>
  /\ out' = Quiet
  /\ UNCHANGED <<core, data, notify, wSock, queues>>

BluezWrite(v) ==
  /\ Running /\ wPeer = "open" /\ Delivered("AcquireWrite")
  /\ Len(wBuf) < SockCap
  /\ wBuf' = Append(wBuf, v) /\ unread' = Append(unread, v)
  /\ out' = Quiet
  /\ UNCHANGED <<core, data, nSock, writeFd, wPeer, queues>>

BluezCloseWrite ==
  /\ Running /\ wPeer = "open" /\ Delivered("AcquireWrite")
  /\ wPeer' = "closed"
  /\ out' = Quiet
  /\ UNCHANGED <<core, data, nSock, writeFd, wBuf, unread, queues>>

\* The operating system refuses a recv of the write socket, the look at a
\* hang-up of the notify socket, or the pair AcquireNotify or AcquireWrite asks
\* for: the worker ends with the error.
RecvFails ==
  /\ pc = "select" /\ writeFd = "open"
  /\ Finish("failed")
  /\ out' = Quiet
  /\ UNCHANGED <<data, queues>>

AcquireFails ==
  /\ \/ /\ Takes("AcquireNotify") /\ "notify" \in Flags
        /\ notify = "socket" \/ (notify = "none" /\ Head(calls).ok)
     \/ /\ Takes("AcquireWrite") /\ "write_wo_response" \in Flags
        /\ writeFd = "none" /\ Head(calls).ok
  /\ Finish("failed")
  /\ UNCHANGED data

------------------------------------------------------------------------------
OnMessage ==
  \/ MsgUnregister \/ MsgClosed \/ MsgUpdate \/ MsgNotify \/ MsgAsk
  \/ MsgGetHandle
OnCall ==
  \/ CallRefused \/ CallReadValue \/ CallWriteValue \/ CallAcquireNotify
  \/ CallAcquireWrite \/ CallStartNotify \/ CallStopNotify \/ CallSetHandle
  \/ CallGet \/ CallOther \/ CallLost
OnSocket ==
  SocketWrite \/ SocketReadsNothing \/ SocketHangUp \/ SocketEmptyWrite
Finishing ==
  NotifyNobody \/ NotifySocket \/ NotifyBroken \/ NotifySignal \/ SendReply
Worker == OnMessage \/ OnSocket \/ OnCall \/ Finishing

Input ==
  \/ \E m \in Msg : SendMsg(m)
  \/ \E c \in Call : BluezCall(c)
  \/ \E v \in Value : BluezWrite(v)
  \/ \E v \in Value \cup {value} : NotifyCallback(v)
  \/ DropSenders \/ LoseConn \/ BluezHangUp \/ BluezCloseWrite
  \/ RecvFails \/ AcquireFails

Next == Worker \/ Input \/ BluezRead

\* The executor keeps polling the task, and each poll asks the message channel
\* first: a message that was there before the poll is the one that is taken.
Spec == Init /\ [][Next]_vars /\ WF_vars(Worker) /\ SF_vars(OnMessage)

------------------------------------------------------------------------------
TypeOK ==
  /\ pc \in {"select", "notify", "reply", "read"} \cup Ended
  /\ pc = "notify" => outVal \in AttVal
  /\ value \in AttVal /\ handle \in {0, 1}
  /\ notify \in {"none", "signal", "socket"}
  /\ nPeer \in {"none", "open", "closed"}
  /\ writeFd \in {"none", "open"}
  /\ wPeer \in {"none", "open", "closed"}
  /\ nBuf \in Seq(AttVal) /\ Len(nBuf) <= SockCap
  /\ wBuf \in Seq(Value) /\ Len(wBuf) <= SockCap /\ unread \in Seq(Value)
  /\ msgs \in Seq(Msg) /\ Len(msgs) <= MsgCap
  /\ calls \in Seq(Call) /\ Len(calls) <= CallCap
  /\ senders \in BOOLEAN /\ conn \in BOOLEAN

\* The only call that notifies before it is answered is WriteValue.
SuspendInv ==
  /\ (pc = "notify" /\ cur # NoCall) => cur.req = "WriteValue"
  /\ pc \notin {"reply", "notify"} => cur = NoCall

\* A socket pair lives exactly as long as the worker's end of it.
PairInv ==
  /\ notify = "socket" <=> nPeer # "none"
  /\ nPeer # "open" => nBuf = <<>>
  /\ writeFd = "open" <=> wPeer # "none"
  /\ wPeer = "none" => wBuf = <<>>

\* Between a recv that gave nothing and the look at the hang-up, the write
\* handed over next is the empty datagram that was taken, unless the pair was
\* read to its end.
ReadInv ==
  /\ pc # "read" => unread = wBuf
  /\ pc = "read" =>
       /\ writeFd = "open"
       /\ \/ wPeer = "closed" /\ unread = <<>> /\ wBuf = <<>>
          \/ unread # <<>> /\ Head(unread) = <<>> /\ wBuf = Tail(unread)

\* The notification session Bluez has.  A socket that Bluez hung up and the
\* worker has not looked at since is no session.
BluezSession ==
  IF nPeer = "open" THEN "socket"
  ELSE IF notify = "signal" THEN "signal" ELSE "none"

\* A session Bluez has is not denied, and one it does not have is claimed only
\* while the worker has not looked at the hang-up that ended it.
SessionTold(b) ==
  /\ BluezSession # "none" => b
  /\ b => BluezSession # "none" \/ nPeer = "closed"

\* The same of the properties of the object.  NotifyAcquired is told of either
\* kind of session (chrc.rs:513), Notifying of signals alone.
PropsTold(p) ==
  /\ SessionTold(p.acquired)
  /\ p.notifying <=> BluezSession = "signal"
  /\ (wPeer = "open" => p.write) /\ (p.write => wPeer # "none")

\* A reply that hands out a session or a socket, or tells of one, is sent while
\* it exists.
GrantInv ==
  (pc = "reply" /\ cur.res = "ok") =>
    /\ cur.req = "AcquireNotify" => nPeer = "open"
    /\ cur.req = "StartNotify" => notify = "signal"
    /\ cur.req = "StopNotify" => notify = "none"
    /\ cur.req = "AcquireWrite" => wPeer = "open"
    /\ cur.req = "Get" => PropsTold(cur.val)

\* The inductive invariant of the worker: types, what a suspended handler
\* keeps, and the coupling of the descriptors with the replies in flight.
IInv == TypeOK /\ SuspendInv /\ PairInv /\ ReadInv /\ GrantInv

\* What Bluez is told it gets is what it has when it reads the reply: the
\* socket of AcquireNotify is live and is the one notified through, no signal
\* session runs beside it, StopNotify left none, and the properties Get tells
\* are those of the sessions it has (chrc.rs:351-380, 429-487, 499-519).
GrantsHold ==
  (out.kind = "reply" /\ out.res = "ok") =>
    /\ out.req = "AcquireNotify" => notify = "socket" /\ nPeer = "open"
    /\ out.req = "StartNotify" => notify = "signal"
    /\ out.req = "StopNotify" => notify = "none"
    /\ out.req = "AcquireWrite" => writeFd = "open" /\ wPeer = "open"
    /\ out.req = "Get" => PropsTold(out.val)

\* As long as Bluez keeps a notify descriptor open, the worker notifies through
\* that pair: no StartNotify, StopNotify, second AcquireNotify or failed send
\* takes the session away behind Bluez's back (chrc.rs:257-263, 359-380).
FdServed == nPeer = "open" => notify = "socket"

\* What char_notifying, char_notify_acquired and char_notify_signaling are told,
\* and what the app worker collects for GetManagedObjects, errs on one side
\* only: a session Bluez has is never denied, one it never had is never claimed,
\* and the two kinds are not mixed up.  A hang-up the worker has not looked at
\* since is not told (chrc.rs:141-166).
ToldOfSession ==
  out.kind = "answer" =>
    /\ out.req = "Notifying" => SessionTold(out.val)
    /\ out.req = "NotifyAcquired" =>
         (BluezSession = "socket" => out.val) /\ (out.val => nPeer # "none")
    /\ out.req = "NotifyingSignal" => (out.val <=> BluezSession = "signal")
    /\ out.req = "ObjMgr" => PropsTold(out.val)

\* Whoever the worker answers, Bluez or the application, is told of the sessions
\* there are, in the terms of the question: a hang-up nobody looked at may be
\* missed, and the property NotifyAcquired does not tell signals from a socket
\* (chrc.rs:141-166, 351-380, 429-487, 499-519).
OutIsTrue == GrantsHold /\ ToldOfSession

\* What Bluez wrote before it closed the write socket is not dropped with it:
\* when the descriptor is given up, every write was handed to the callback, or
\* the next one is an empty datagram, which the recv cannot tell from the end
\* and behind which Bluez may have written and closed (chrc.rs:391-397).
NoWriteLost ==
  [][(writeFd = "open" /\ writeFd' = "none" /\ Running') =>
       unread = <<>> \/ Head(unread) = <<>>]_vars

\* The notifications Bluez sees follow NotifySession: one session at a time,
\* each notification in the session it belongs to (chrc.rs:257-283).
Emitted == IF out.kind = "notify" THEN out.via ELSE "none"
Session == INSTANCE NotifySession WITH session <- BluezSession, emit <- Emitted
ImplementsSession == Session!Spec

\* What holds a notification, and with it the worker: a live socket Bluez does
\* not read (chrc.rs:257).
NotifySocketFull ==
  notify = "socket" /\ nPeer = "open" /\ Len(nBuf) = SockCap

\* With a Bluez that does not leave its socket full for good, an Unregister
\* ends the worker however busy callers, callbacks and sockets keep it
\* (chrc.rs:131-134).
BluezReads == []<>~NotifySocketFull
UnregisterEnds ==
  BluezReads => ((\E i \in DOMAIN msgs : msgs[i].kind = "Unregister") ~> ~Running)

\* With such a Bluez, and when no new work keeps the sources before it busy, a
\* call that arrived is answered, after the notification it caused
\* (chrc.rs:192-199): the D-Bus queue is polled last.
Owed == calls # <<>> \/ cur # NoCall
CallsAnswered ==
  BluezReads /\ <>[][~Input]_vars => (Owed ~> (out.kind = "reply" \/ ~Running))
==============================================================================
