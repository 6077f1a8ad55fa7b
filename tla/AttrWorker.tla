----------------------------- MODULE AttrWorker -----------------------------
(***************************************************************************)
(* The worker of a service or of a descriptor (Service::start_worker and   *)
(* Descriptor::start_worker), with the D-Bus properties of its attribute   *)
(* (trait Properties).  Both run the same loop: select looks at the        *)
(* message channel, and only when that is empty at the D-Bus calls.  The   *)
(* two looks are steps of their own, because a message that comes between  *)
(* them is passed over for one call.                                       *)
(*                                                                         *)
(* All error replies are one; the properties that never change (UUID,      *)
(* Primary, Characteristic, Flags) are one, "UUID"; an interface is the    *)
(* attribute's "own", that of characteristics, "chrc", or another one.     *)
(* Introspect and unknown members read nothing and are left out.  Bounds:  *)
(* MsgCap (8 in the code), CallCap.                                        *)
(***************************************************************************)
EXTENDS AttValue

CONSTANTS
  Value, Offsets,   \* values and offsets of an instance
  Flags,            \* subset of {"read", "write"}, for a descriptor
  Filter,           \* whether calls from others than Bluez are refused
  Handles,          \* the ATT handles the user or Bluez may set, 0 included
  Calls,            \* the calls that may come in
  MsgCap, CallCap

ASSUME ValueType == \A v \in Value : v \in AttVal
ASSUME OffsetType == Offsets \subseteq Nat
ASSUME HandleType == Handles \subseteq Nat

VARIABLES
  kind,      \* "serv" or "desc"
  value,     \* Descriptor.value
  own,       \* the handle of Service or Descriptor when the worker starts
  handle,    \* the property Handle: ServData.handle or Descriptor.handle
  declared,  \* whether the service includes others
  told,      \* whether register is done telling the workers those paths
  includes,  \* whether ServData.includes holds them
  pc,        \* "poll": about to look at messages; "polled": there were none;
             \* "reply": sending one; or how the task ended
  res,       \* the reply being sent
  msgs, senders, calls, conn,   \* as in ChrcWorker
  out,       \* what the last step put out
  waited     \* D-Bus calls taken while a message was in the channel

fixed == <<kind, own, declared>>
data == <<value, handle, includes>>
queues == <<msgs, senders, calls, conn, told>>
vars == <<fixed, data, pc, res, queues, out, waited>>

Ended == {"done", "failed", "panicked"}
Running == pc \notin Ended

\* A reply or an answer: what was asked, and a map from names to values.
Nothing == [req |-> "none", ok |-> FALSE, val |-> <<>>]
Result(req, val) == [req |-> req, ok |-> TRUE, val |-> val]
Refused(req) == [req |-> req, ok |-> FALSE, val |-> <<>>]

\* WorkerMsg: a message that asks carries whether its receiver is still there.
Asks(k) == IF k = "serv" THEN {"GetHandle", "ObjMgr"} ELSE {"Get", "GetHandle", "ObjMgr"}
Plain == [m : {"Unregister", "Includes"}]
Updates == [m : {"Update"}, val : Value]
Questions(k) == [m : Asks(k), live : BOOLEAN]
Msg(k) == Plain \cup Questions(k) \cup (IF k = "desc" THEN Updates ELSE {})

Iface == {"own", "chrc", "other"}
Prop == {"UUID", "Handle", "Value", "Includes"}
Sender == IF Filter THEN {"bluez", "stranger"} ELSE {"bluez"}
PropCalls ==
  [m : {"Get"}, from : Sender, iface : Iface, prop : Prop]
  \cup [m : {"Set"}, from : Sender, iface : Iface, prop : Prop, val : Handles]
  \cup [m : {"GetAll"}, from : Sender, iface : Iface]
ValueCalls ==
  [m : {"ReadValue"}, from : Sender, ok : BOOLEAN, off : Offsets]
  \cup [m : {"WriteValue"}, from : Sender, ok : BOOLEAN, off : Offsets, val : Value]
Call == PropCalls \cup ValueCalls \cup [m : {"Other"}, from : Sender]
ASSUME CallsType == Calls \subseteq Call

\* A bug of the kind the module must exclude: the filter is not consulted.
FromAnyone(c) == TRUE

\* is_msg_bluez
FromBluez(c) == ~Filter \/ c.from = "bluez"

\* INTERFACES and get_inner.
Listed == IF kind = "serv" THEN {"UUID", "Handle", "Includes"} ELSE {"UUID", "Handle", "Value"}
PropVal(p) ==
  [Handle |-> handle, Includes |-> includes, Value |-> value, UUID |-> "fixed"][p]
Props(ps) == [p \in ps |-> PropVal(p)]
AllProps == Props(Listed)

\* The interface set_inner compares with: a descriptor's is that of
\* characteristics.
SetIface == IF kind = "serv" THEN "own" ELSE "chrc"

Init ==
  /\ kind \in {"serv", "desc"} /\ declared \in (IF kind = "serv" THEN BOOLEAN ELSE {FALSE})
  /\ value \in Value /\ own \in Handles /\ handle = own /\ includes = FALSE
  /\ pc = "poll" /\ res = Nothing
  /\ told = ~declared /\ msgs = <<>> /\ senders = TRUE /\ calls = <<>> /\ conn = TRUE
  /\ out = Nothing /\ waited = 0

------------------------------------------------------------------------------
(* Messages. *)

Take(m) ==
  /\ pc = "poll" /\ msgs # <<>> /\ Head(msgs).m = m
  /\ msgs' = Tail(msgs) /\ waited' = 0
  /\ UNCHANGED <<fixed, res, senders, calls, conn, told>>

MsgUnregister ==
  /\ Take("Unregister")
  /\ pc' = "done" /\ out' = Nothing
  /\ UNCHANGED data

MsgIncludes ==
  /\ Take("Includes")
  /\ includes' = TRUE /\ out' = Nothing
  /\ UNCHANGED <<value, handle, pc>>

MsgUpdate ==
  /\ Take("Update")
  /\ value' = Head(msgs).val /\ out' = Nothing
  /\ UNCHANGED <<handle, includes, pc>>

\* The receiver is told, or the ? on a receiver that is gone ends the task.
Tell(m, val) ==
  /\ Take(m)
  /\ IF Head(msgs).live
     THEN out' = Result(m, val) /\ UNCHANGED pc
     ELSE out' = Nothing /\ pc' = "failed"
  /\ UNCHANGED data

MsgGet == Tell("Get", Props({"Value"}))
MsgObjMgr == Tell("ObjMgr", AllProps)

\* A service answers with the handle it was built with, a descriptor with the
\* current one; NonZeroU16::new(0).unwrap() panics.
AnsweredHandle == IF kind = "serv" THEN own ELSE handle
MsgGetHandle ==
  \/ AnsweredHandle # 0 /\ Tell("GetHandle", [Handle |-> AnsweredHandle])
  \/ /\ AnsweredHandle = 0 /\ Take("GetHandle")
     /\ pc' = "panicked" /\ out' = Nothing
     /\ UNCHANGED data

\* A bug of the kind the module must exclude: the error of a closed channel is
\* skipped, and select returns it again, before any call.
MsgClosedSkipped ==
  /\ pc = "poll" /\ msgs = <<>> /\ ~senders
  /\ out' = Nothing
  /\ UNCHANGED <<fixed, data, pc, res, queues, waited>>

\* The channel is empty and every Sender is gone.
MsgClosed ==
  /\ pc = "poll" /\ msgs = <<>> /\ ~senders
  /\ pc' = "failed" /\ out' = Nothing
  /\ UNCHANGED <<fixed, data, res, queues, waited>>

------------------------------------------------------------------------------
(* D-Bus calls. *)

\* A bug of the kind the module must exclude: select(call_fut, msg_fut).
LookAtCallsFirst ==
  /\ pc = "poll" /\ (calls # <<>> \/ ~conn \/ (msgs = <<>> /\ senders))
  /\ pc' = "polled" /\ out' = Nothing
  /\ UNCHANGED <<fixed, data, res, queues, waited>>

\* select found the message channel pending and goes on to the calls; what
\* comes into the channel now is seen in the next round.
LookAtCalls ==
  /\ pc = "poll" /\ msgs = <<>> /\ senders
  /\ pc' = "polled" /\ out' = Nothing
  /\ UNCHANGED <<fixed, data, res, queues, waited>>

\* There is no call either: the task sleeps until one of the two wakes it.
Sleep ==
  /\ pc = "polled" /\ calls = <<>> /\ conn
  /\ pc' = "poll" /\ out' = Nothing
  /\ UNCHANGED <<fixed, data, res, queues, waited>>

TakeCall(m) ==
  /\ pc = "polled" /\ calls # <<>> /\ Head(calls).m = m /\ FromBluez(Head(calls))
  /\ calls' = Tail(calls) /\ out' = Nothing
  /\ waited' = IF msgs = <<>> THEN 0 ELSE waited + 1
  /\ UNCHANGED <<fixed, msgs, senders, conn, told>>
Reply(r) == pc' = "reply" /\ res' = r

CallRefused ==
  /\ pc = "polled" /\ calls # <<>> /\ ~FromBluez(Head(calls))
  /\ Reply(Refused(Head(calls).m))
  /\ calls' = Tail(calls) /\ out' = Nothing
  /\ waited' = IF msgs = <<>> THEN 0 ELSE waited + 1
  /\ UNCHANGED <<fixed, data, msgs, senders, conn, told>>

CallGet ==
  /\ TakeCall("Get")
  /\ LET c == Head(calls) IN
     Reply(IF c.iface = "own" /\ c.prop \in Listed
           THEN Result("Get", Props({c.prop})) ELSE Refused("Get"))
  /\ UNCHANGED data

CallGetAll ==
  /\ TakeCall("GetAll")
  /\ Reply(IF Head(calls).iface = "own" THEN Result("Get", AllProps) ELSE Refused("Get"))
  /\ UNCHANGED data

\* Only the handle can be set.
CallSet ==
  /\ TakeCall("Set")
  /\ LET c == Head(calls) IN
     IF c.iface = SetIface /\ c.prop = "Handle"
     THEN handle' = c.val /\ Reply(Result("Set", <<>>))
     ELSE UNCHANGED handle /\ Reply(Refused("Set"))
  /\ UNCHANGED <<value, includes>>

CallReadValue ==
  /\ kind = "desc" /\ TakeCall("ReadValue")
  /\ LET c == Head(calls) IN
     Reply(IF "read" \in Flags /\ c.ok THEN Result("ReadValue", [Value |-> ReadFrom(value, c.off)])
                                       ELSE Refused("ReadValue"))
  /\ UNCHANGED data

\* An offset beyond the value, or past the end of the buffer, panics.
CallWriteValue ==
  /\ kind = "desc" /\ TakeCall("WriteValue")
  /\ LET c == Head(calls)
         admitted == "write" \in Flags /\ c.ok
         fits == c.off # 0 => CanUpdate(value, c.val, c.off)
     IN \/ /\ admitted /\ fits
           /\ value' = IF c.off = 0 THEN c.val ELSE Updated(value, c.val, c.off)
           /\ Reply(Result("WriteValue", <<>>))
        \/ admitted /\ ~fits /\ pc' = "panicked" /\ UNCHANGED <<value, res>>
        \/ ~admitted /\ Reply(Refused("WriteValue")) /\ UNCHANGED value
  /\ UNCHANGED <<handle, includes>>

\* unimplemented!() and unreachable!(): an interface the worker does not have.
CallOther ==
  /\ \/ TakeCall("Other")
     \/ kind = "serv" /\ \E m \in {"ReadValue", "WriteValue"} : TakeCall(m)
  /\ pc' = "panicked"
  /\ UNCHANGED <<data, res>>

CallLost ==
  /\ pc = "polled" /\ calls = <<>> /\ ~conn
  /\ pc' = "failed" /\ out' = Nothing
  /\ UNCHANGED <<fixed, data, res, queues, waited>>

\* A bug of the kind the module must exclude: back to the calls after a reply.
SendReplyAgain ==
  /\ pc = "reply"
  /\ pc' = "polled" /\ out' = res /\ res' = Nothing
  /\ UNCHANGED <<fixed, data, queues, waited>>

SendReply ==
  /\ pc = "reply"
  /\ IF conn THEN pc' = "poll" /\ out' = res ELSE pc' = "failed" /\ out' = Nothing
  /\ res' = Nothing
  /\ UNCHANGED <<fixed, data, queues, waited>>

------------------------------------------------------------------------------
(* The environment. *)

\* A bug of the kind the module must exclude: RegisterApplication is called
\* before the paths are sent.
MayAskEarly == TRUE

\* register sends the paths before it calls RegisterApplication, and only then
\* are there an application worker and an AppWorker that send anything else.
MayAsk == told

SendIncludes ==
  /\ Running /\ senders /\ ~told /\ Len(msgs) < MsgCap
  /\ msgs' = Append(msgs, [m |-> "Includes"]) /\ told' = TRUE /\ out' = Nothing
  /\ UNCHANGED <<fixed, data, pc, res, senders, calls, conn, waited>>

\* A message of the AppWorker or of the application worker.
SendMsg(m) ==
  /\ Running /\ senders /\ MayAsk /\ Len(msgs) < MsgCap
  /\ m \in Msg(kind) /\ m.m # "Includes" /\ (m.m \in Asks(kind) => m.live)
  /\ msgs' = Append(msgs, m) /\ out' = Nothing
  /\ UNCHANGED <<fixed, data, pc, res, senders, calls, conn, told, waited>>

\* The future that waits for an answer is dropped.
Cancel(i) ==
  /\ Running /\ i \in DOMAIN msgs /\ msgs[i].m \in Asks(kind) /\ msgs[i].live
  /\ msgs' = [msgs EXCEPT ![i].live = FALSE] /\ out' = Nothing
  /\ UNCHANGED <<fixed, data, pc, res, senders, calls, conn, told, waited>>

DropSenders ==
  /\ Running /\ senders
  /\ senders' = FALSE /\ out' = Nothing
  /\ UNCHANGED <<fixed, data, pc, res, msgs, calls, conn, told, waited>>

BluezCall(c) ==
  /\ Running /\ conn /\ Len(calls) < CallCap
  /\ calls' = Append(calls, c) /\ out' = Nothing
  /\ UNCHANGED <<fixed, data, pc, res, msgs, senders, conn, told, waited>>

LoseConn ==
  /\ Running /\ conn
  /\ conn' = FALSE /\ out' = Nothing
  /\ UNCHANGED <<fixed, data, pc, res, msgs, senders, calls, told, waited>>

------------------------------------------------------------------------------
OnMessage ==
  \/ MsgUnregister \/ MsgIncludes \/ MsgUpdate \/ MsgGet \/ MsgObjMgr
  \/ MsgGetHandle \/ MsgClosed
OnCall ==
  \/ LookAtCalls \/ Sleep \/ CallRefused \/ CallGet \/ CallGetAll \/ CallSet
  \/ CallReadValue \/ CallWriteValue \/ CallOther \/ CallLost \/ SendReply
Worker == OnMessage \/ OnCall
Input ==
  \/ SendIncludes \/ \E m \in Msg(kind) : SendMsg(m)
  \/ \E c \in Calls : BluezCall(c)
  \/ \E i \in 1 .. MsgCap : Cancel(i)
  \/ DropSenders \/ LoseConn

Next == Worker \/ Input

\* The executor keeps polling the task.
Spec == Init /\ [][Next]_vars /\ WF_vars(Worker)

------------------------------------------------------------------------------
TypeOK ==
  /\ kind \in {"serv", "desc"} /\ {declared, told, includes} \subseteq BOOLEAN
  /\ value \in AttVal /\ own \in Nat /\ handle \in Nat
  /\ pc \in {"poll", "polled", "reply"} \cup Ended
  /\ msgs \in Seq(Msg(kind)) /\ calls \in Seq(Calls)
  /\ senders \in BOOLEAN /\ conn \in BOOLEAN /\ waited \in Nat
  /\ res.req \in {"none", "Get", "Set", "GetAll", "ReadValue", "WriteValue", "Other"}

\* Until the paths are taken they are not sent and nothing else is, or they are
\* the first message in the channel.
IncludesInv ==
  /\ declared => kind = "serv"
  /\ declared /\ ~includes =>
       IF told THEN msgs # <<>> /\ Head(msgs).m = "Includes" ELSE msgs = <<>>

\* A call is taken with a message waiting only if that message came between
\* the two looks of one round.
WaitInv ==
  /\ waited = 0 \/ (waited = 1 /\ msgs # <<>>)
  /\ pc = "polled" => waited = 0

\* The inductive invariant of the loop.
IInv == TypeOK /\ IncludesInv /\ WaitInv

\* A message waits for at most one D-Bus call besides the one being answered
\* when it came, whatever Bluez keeps calling: Unregister is not starved
\* (service.rs:139, descriptor.rs:49).
MessageNotStarved == Running => waited <= 1

\* GetManagedObjects never tells Bluez of a service without the services it
\* includes: their paths, sent while the worker is already running, come before
\* every question (mod.rs:299-314, service.rs:149).
IncludesKnown ==
  declared /\ out.ok /\ out.req = "ObjMgr" => out.val["Includes"] = TRUE

\* With the filter set, the value and the handle change only by a message of
\* the application or by a call of Bluez at the head of its queue.
OnlyAdmitted ==
  [][value' # value \/ handle' # handle =>
       \/ msgs # <<>> /\ msgs' = Tail(msgs) /\ Head(msgs).m = "Update"
       \/ calls # <<>> /\ calls' = Tail(calls)
            /\ (Filter => Head(calls).from = "bluez")]_vars

\* Once nothing new comes in, the worker works off both queues, or ends.
Settles ==
  <>[][~Input]_vars => <>[](~Running \/ (msgs = <<>> /\ calls = <<>> /\ pc # "reply"))
==============================================================================
