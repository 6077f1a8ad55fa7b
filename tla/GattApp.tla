------------------------------- MODULE GattApp -------------------------------
(***************************************************************************)
(* A registered GATT application (AppWorker of src/gatt/server/mod.rs):    *)
(* one task per attribute with a message channel of its own, the app       *)
(* worker that serves GetManagedObjects by asking every attribute, the     *)
(* user futures created by the methods of AppWorker, and the two ways it   *)
(* ends: unregister, or dropping the AppWorker.                            *)
(*                                                                         *)
(* What an attribute worker does with D-Bus calls is in ChrcWorker, what a *)
(* one-time channel does in OneTime; here a request carries the name of    *)
(* the future that holds its receiver, "gone" once that future was         *)
(* dropped, and a request whose sending half was dropped unanswered is     *)
(* "lost": its future may be told ThreadClosed or may hang (OneTime shows  *)
(* both).  Messages left in a channel whose receiver is gone stay there as *)
(* long as a Sender lives.  The D-Bus connection is taken to work, and the *)
(* calls are those the filter admits.                                      *)
(* Bounds: AttrCap (8 in the code), MaxCalls calls of the app worker.      *)
(***************************************************************************)
EXTENDS Naturals, Sequences

CONSTANTS
  Attr,        \* the attributes of the application
  Kind,        \* what each is: "serv", "chrc" or "desc"
  User,        \* futures of AppWorker's methods
  ZeroHandle,  \* attributes whose ATT handle is not set
  MayFail,     \* attributes whose worker may meet an I/O error
  AttrCap, MaxCalls

App == "app"   \* the app worker, where a worker or a requester is named

ASSUME NameType == App \notin Attr /\ {App, "gone", "none"} \cap User = {}
ASSUME KindType == Kind \in [Attr -> {"serv", "chrc", "desc"}]
ASSUME SubsetType == ZeroHandle \subseteq Attr /\ MayFail \subseteq Attr
ASSUME BoundType == AttrCap \in Nat \ {0} /\ MaxCalls \in Nat

VARIABLES
  q,       \* message channel of each attribute worker
  st,      \* each attribute worker: "run", or how it ended
  app,     \* the app worker: "idle", "objmgr", or how it ended
  appQ,    \* its message channel holds an Unregister
  obj,     \* the sub-futures of handle_obj_mgr, one per attribute
  calls,   \* D-Bus calls of the application that wait, and how many may arrive
  user,    \* the user futures
  held,    \* the AppWorker: "held", "dropped" or "consumed" by unregister
  unreg,   \* unregister: "no", "run", "joined", "err" or "panic"
  leave    \* its sub-futures, one per worker

vars == <<q, st, app, appQ, obj, calls, user, held, unreg, leave>>
appVars == <<app, appQ, obj, calls>>
unregVars == <<held, unreg, leave>>

Worker == Attr \cup {App}
Idle == [st |-> "idle", to |-> App, kind |-> "none"]
NoObj == [a \in Attr |-> "none"]

\* Who still holds a Sender of an attribute's channel: the AppWorker, or
\* unregister in its place, and the app worker.
HandleLive == held = "held" \/ unreg = "run"
AppLive == app \in {"idle", "objmgr"}

Send(a, m) == q' = [q EXCEPT ![a] = Append(@, m)]
Room(a) == st[a] = "run" /\ Len(q[a]) < AttrCap

\* A future is dropped: the requests it had in the channels lose their receiver.
Orphaned(queue, r) ==
  [i \in DOMAIN queue |->
     IF queue[i].from = r THEN [queue[i] EXCEPT !.from = "gone"] ELSE queue[i]]
DropReceiver(r) == q' = [a \in Attr |-> Orphaned(q[a], r)]

Init ==
  /\ q = [a \in Attr |-> <<>>]
  /\ st = [a \in Attr |-> "run"]
  /\ app = "idle" /\ appQ = FALSE /\ obj = NoObj
  /\ calls = [waiting |-> <<>>, left |-> MaxCalls]
  /\ user = [u \in User |-> Idle]
  /\ held = "held" /\ unreg = "no"
  /\ leave = [w \in Worker |-> "none"]

------------------------------------------------------------------------------
(* User futures: update_characteristic, update_descriptor and notify_char    *)
(* ("tell"), get_char, get_desc and the char_notif* methods ("ask"), the     *)
(* get_*_handle methods ("handle").                                          *)

Methods(a) == IF Kind[a] = "serv" THEN {"handle"} ELSE {"tell", "ask", "handle"}

UserCall(u, a, k) ==
  /\ held = "held" /\ user[u] = Idle
  /\ k \in Methods(a)
  /\ user' = [user EXCEPT ![u] = [st |-> "send", to |-> a, kind |-> k]]
  /\ UNCHANGED <<q, st, appVars, unregVars>>

\* sender.send(..).await: a message that asks carries the one-time sender.
UserSend(u) ==
  /\ user[u].st = "send" /\ Room(user[u].to)
  /\ LET k == user[u].kind IN
     /\ Send(user[u].to, [kind |-> k, from |-> IF k = "tell" THEN "none" ELSE u])
     /\ user' = [user EXCEPT ![u] =
                   IF k = "tell" THEN Idle ELSE [@ EXCEPT !.st = "wait"]]
  /\ UNCHANGED <<st, appVars, unregVars>>

\* The channel is closed (ThreadClosed), or a lost request is noticed.
UserError(u) ==
  /\ user[u].st = "send" /\ st[user[u].to] # "run"
  /\ user' = [user EXCEPT ![u] = Idle]
  /\ UNCHANGED <<q, st, appVars, unregVars>>

UserClosed(u) ==
  /\ user[u].st = "lost"
  /\ user' = [user EXCEPT ![u] = Idle]
  /\ UNCHANGED <<q, st, appVars, unregVars>>

\* The future is dropped before it is ready.
UserCancel(u) ==
  /\ user[u].st \in {"send", "wait", "lost"}
  /\ DropReceiver(u)
  /\ user' = [user EXCEPT ![u] = Idle]
  /\ UNCHANGED <<st, appVars, unregVars>>

------------------------------------------------------------------------------
(* Attribute workers: one message, or the loss of every Sender.              *)

\* A request is answered through its one-time channel: r is a user future, the
\* app worker, or "gone".
AnswerTo(r, a) ==
  /\ user' = IF r \in User THEN [user EXCEPT ![r] = Idle] ELSE user
  /\ obj' = IF r = App THEN [obj EXCEPT ![a] = "got"] ELSE obj

\* A request is dropped with the worker's stack.
Lose(r) ==
  /\ user' = IF r \in User THEN [user EXCEPT ![r].st = "lost"] ELSE user
  /\ UNCHANGED obj

\* A bug of the kind the module must exclude: .ok() replaced by ? everywhere.
ToleratesNothing(a, r) == r # "gone"

\* A service or descriptor ends in error when the receiver is gone (the ? of
\* sender.send), a characteristic ignores it (.ok()).
Tolerates(a, r) == r # "gone" \/ Kind[a] = "chrc"

TakeUnregister(a) ==
  /\ st[a] = "run" /\ q[a] # <<>> /\ Head(q[a]).kind = "unreg"
  /\ q' = [q EXCEPT ![a] = Tail(@)]
  /\ st' = [st EXCEPT ![a] = "ended"]
  /\ UNCHANGED <<appVars, user, unregVars>>

TakeTell(a) ==
  /\ st[a] = "run" /\ q[a] # <<>> /\ Head(q[a]).kind = "tell"
  /\ q' = [q EXCEPT ![a] = Tail(@)]
  /\ UNCHANGED <<st, appVars, user, unregVars>>

TakeRequest(a) ==
  /\ st[a] = "run" /\ q[a] # <<>> /\ Head(q[a]).kind \in {"ask", "obj", "handle"}
  /\ q' = [q EXCEPT ![a] = Tail(@)]
  /\ LET m == Head(q[a]) IN
     \/ /\ m.kind = "handle" /\ a \in ZeroHandle
        /\ Lose(m.from)
        /\ st' = [st EXCEPT ![a] = "panic"]
     \/ /\ m.kind = "handle" => a \notin ZeroHandle
        /\ AnswerTo(m.from, a)
        /\ st' = [st EXCEPT ![a] = IF Tolerates(a, m.from) THEN @ ELSE "err"]
  /\ UNCHANGED <<app, appQ, calls, unregVars>>

\* Every Sender is gone and the channel is empty: recv fails.
TakeClosed(a) ==
  /\ st[a] = "run" /\ q[a] = <<>> /\ ~HandleLive /\ ~AppLive
  /\ st' = [st EXCEPT ![a] = "err"]
  /\ UNCHANGED <<q, appVars, user, unregVars>>

\* An I/O error of a reply or of a socket.
WorkerFails(a) ==
  /\ a \in MayFail /\ st[a] = "run"
  /\ st' = [st EXCEPT ![a] = "err"]
  /\ UNCHANGED <<q, appVars, user, unregVars>>

------------------------------------------------------------------------------
(* The app worker.                                                           *)

\* A call of the application's path: GetManagedObjects, or one of an interface
\* handle_app has no arm for.  Introspect is answered in place.
AppCall == {"objmgr", "other"}

BluezCall(c) ==
  /\ calls.left > 0
  /\ calls' = [waiting |-> Append(calls.waiting, c), left |-> calls.left - 1]
  /\ UNCHANGED <<q, st, app, appQ, obj, user, unregVars>>

NextCall(c) == app = "idle" /\ calls.waiting # <<>> /\ Head(calls.waiting) = c

\* handle_obj_mgr: one sub-future per attribute, joined by try_join_all.
ObjMgrStart ==
  /\ NextCall("objmgr")
  /\ calls' = [calls EXCEPT !.waiting = Tail(@)]
  /\ app' = "objmgr"
  /\ obj' = [a \in Attr |-> "send"]
  /\ UNCHANGED <<q, st, appQ, user, unregVars>>

\* A call without an interface, or of any other, hits the unwrap or the
\* unimplemented!() of handle_app, and stays the one that is being handled.
UnservedCall ==
  /\ NextCall("other")
  /\ app' = "panic"
  /\ UNCHANGED <<q, st, appQ, obj, calls, user, unregVars>>

ObjMgrSend(a) ==
  /\ app = "objmgr" /\ obj[a] = "send" /\ Room(a)
  /\ Send(a, [kind |-> "obj", from |-> App])
  /\ obj' = [obj EXCEPT ![a] = "wait"]
  /\ UNCHANGED <<st, app, appQ, calls, user, unregVars>>

\* A bug of the kind the module must exclude: a full channel taken for a closed one.
ObjMgrFailFull(a) ==
  /\ app = "objmgr" /\ obj[a] = "send" /\ ~Room(a)
  /\ DropReceiver(App)
  /\ app' = "err" /\ obj' = NoObj
  /\ UNCHANGED <<st, appQ, calls, user, unregVars>>

\* A closed channel fails the join, and with it the app worker.
ObjMgrFail(a) ==
  /\ app = "objmgr" /\ obj[a] = "send" /\ st[a] # "run"
  /\ DropReceiver(App)
  /\ app' = "err" /\ obj' = NoObj
  /\ UNCHANGED <<st, appQ, calls, user, unregVars>>

ObjMgrDone ==
  /\ app = "objmgr" /\ \A a \in Attr : obj[a] = "got"
  /\ app' = "idle" /\ obj' = NoObj
  /\ UNCHANGED <<q, st, appQ, calls, user, unregVars>>

AppUnregister ==
  /\ app = "idle" /\ appQ
  /\ appQ' = FALSE
  /\ app' = "ended"
  /\ UNCHANGED <<q, st, obj, calls, user, unregVars>>

\* msg.unwrap() on the error of a channel whose Sender went with the AppWorker.
AppOrphaned ==
  /\ app = "idle" /\ ~appQ /\ ~HandleLive
  /\ app' = "panic"
  /\ UNCHANGED <<q, st, appQ, obj, calls, user, unregVars>>

------------------------------------------------------------------------------
(* unregister, and the drop of the AppWorker.  Both take it by value, so no  *)
(* user future that borrows it is left.                                      *)

\* A bug of the kind the module must exclude: pending futures are not waited for.
NoWaiting == TRUE

NoUsers == \A u \in User : user[u] = Idle

Unregister ==
  /\ held = "held" /\ NoUsers
  /\ held' = "consumed" /\ unreg' = "run"
  /\ leave' = [w \in Worker |-> "send"]
  /\ UNCHANGED <<q, st, appVars, user>>

\* A bug of the kind the module must exclude: Unregister overtakes the queue.
LeaveSendFront(a) ==
  /\ unreg = "run" /\ leave[a] = "send" /\ Room(a)
  /\ q' = [q EXCEPT ![a] = <<[kind |-> "unreg", from |-> "none"]>> \o @]
  /\ leave' = [leave EXCEPT ![a] = "join"]
  /\ UNCHANGED <<st, appVars, user, held, unreg>>

LeaveSend(a) ==
  /\ unreg = "run" /\ leave[a] = "send" /\ Room(a)
  /\ Send(a, [kind |-> "unreg", from |-> "none"])
  /\ leave' = [leave EXCEPT ![a] = "join"]
  /\ UNCHANGED <<st, appVars, user, held, unreg>>

LeaveSendApp ==
  /\ unreg = "run" /\ leave[App] = "send" /\ AppLive
  /\ appQ' = TRUE
  /\ leave' = [leave EXCEPT ![App] = "join"]
  /\ UNCHANGED <<q, st, app, obj, calls, user, held, unreg>>

\* How a worker ended, as its JoinHandle reports it.
Fate(w) == IF w = App THEN app ELSE st[w]

\* A bug of the kind the module must exclude: the joined result is not looked at.
LeaveJoinAny(w) ==
  /\ unreg = "run" /\ leave[w] = "join" /\ Fate(w) \in {"ended", "err", "panic"}
  /\ leave' = [leave EXCEPT ![w] = "done"]
  /\ UNCHANGED <<q, st, appVars, user, held, unreg>>

LeaveJoin(w) ==
  /\ unreg = "run" /\ leave[w] = "join" /\ Fate(w) = "ended"
  /\ leave' = [leave EXCEPT ![w] = "done"]
  /\ UNCHANGED <<q, st, appVars, user, held, unreg>>

\* A bug of the kind the module must exclude: only a failed send is an error.
LeaveFailSend(w) ==
  /\ unreg = "run" /\ leave[w] = "send" /\ Fate(w) \in {"ended", "err", "panic"}
  /\ unreg' = "err"
  /\ UNCHANGED <<q, st, appVars, user, held, leave>>

\* The send or the join fails: try_join_all gives up and drops the rest; the
\* join of a task that panicked panics in turn.
LeaveFail(w) ==
  /\ unreg = "run" /\ leave[w] \in {"send", "join"}
  /\ \/ leave[w] = "send" /\ Fate(w) \in {"ended", "err", "panic"} /\ unreg' = "err"
     \/ leave[w] = "join" /\ Fate(w) \in {"err", "panic"} /\ unreg' = Fate(w)
  /\ UNCHANGED <<q, st, appVars, user, held, leave>>

LeaveDone ==
  /\ unreg = "run" /\ \A w \in Worker : leave[w] = "done"
  /\ unreg' = "joined"
  /\ UNCHANGED <<q, st, appVars, user, held, leave>>

DropHandle ==
  /\ held = "held" /\ NoUsers
  /\ held' = "dropped"
  /\ UNCHANGED <<q, st, appVars, user, unreg, leave>>

------------------------------------------------------------------------------
AttrStep(a) ==
  TakeUnregister(a) \/ TakeTell(a) \/ TakeRequest(a) \/ TakeClosed(a)
AppStep ==
  \/ ObjMgrStart \/ UnservedCall \/ ObjMgrDone \/ AppUnregister \/ AppOrphaned
  \/ \E a \in Attr : ObjMgrSend(a) \/ ObjMgrFail(a)
UserStep(u) == UserSend(u) \/ UserError(u)
LeaveStep ==
  \/ LeaveSendApp \/ LeaveDone
  \/ \E a \in Attr : LeaveSend(a)
  \/ \E w \in Worker : LeaveJoin(w) \/ LeaveFail(w)

NewWork ==
  \/ \E u \in User, a \in Attr, k \in {"tell", "ask", "handle"} : UserCall(u, a, k)
  \/ \E c \in AppCall : BluezCall(c)

Next ==
  \/ NewWork
  \/ \E u \in User : UserStep(u) \/ UserClosed(u) \/ UserCancel(u)
  \/ \E a \in Attr : AttrStep(a) \/ WorkerFails(a)
  \/ AppStep
  \/ Unregister \/ LeaveStep \/ DropHandle

\* Every task that can go on is polled again, the future of unregister
\* included; users may abandon theirs, and a lost request may never be noticed.
Fairness ==
  /\ \A a \in Attr : WF_vars(AttrStep(a))
  /\ WF_vars(AppStep) /\ WF_vars(LeaveStep)
  /\ \A u \in User : WF_vars(UserStep(u))

Spec == Init /\ [][Next]_vars /\ Fairness

\* The environment falls silent: no new calls of users or of Bluez.
QuietSpec == Spec /\ <>[][~NewWork]_vars

------------------------------------------------------------------------------
Message ==
  [kind : {"tell", "unreg"}, from : {"none"}]
    \cup [kind : {"ask", "handle"}, from : User \cup {"gone"}]
    \cup [kind : {"obj"}, from : {App, "gone"}]

TypeOK ==
  /\ q \in [Attr -> Seq(Message)]
  /\ st \in [Attr -> {"run", "ended", "err", "panic"}]
  /\ app \in {"idle", "objmgr", "ended", "err", "panic"} /\ appQ \in BOOLEAN
  /\ obj \in [Attr -> {"none", "send", "wait", "got"}]
  /\ calls \in [waiting : Seq(AppCall), left : Nat]
  /\ user \in [User -> [st : {"idle", "send", "wait", "lost"}, to : Worker,
                        kind : {"none", "tell", "ask", "handle"}]]
  /\ held \in {"held", "dropped", "consumed"}
  /\ unreg \in {"no", "run", "joined", "err", "panic"}
  /\ leave \in [Worker -> {"none", "send", "join", "done"}]

\* The two halves of the AppWorker's end, and what each stage presumes.
Stages ==
  /\ held = "consumed" <=> unreg # "no"
  /\ held # "held" => NoUsers
  /\ \A w \in Worker : leave[w] # "none" <=> held = "consumed"
  /\ \A u \in User :
       user[u] # Idle => user[u].to \in Attr /\ user[u].kind \in Methods(user[u].to)
  /\ unreg = "joined" => \A w \in Worker : leave[w] = "done"
  /\ \A w \in Worker : leave[w] = "done" => Fate(w) = "ended"

\* A request in a channel belongs to one future, and that future waits for it.
AskedOnce ==
  \A a \in Attr : \A i \in DOMAIN q[a] :
    q[a][i].from \in User =>
      /\ user[q[a][i].from].st = "wait" /\ user[q[a][i].from].to = a
      /\ \A j \in DOMAIN q[a] : q[a][j].from = q[a][i].from => j = i

\* Behind an Unregister there is nothing but the requests of GetManagedObjects.
OnlyObj(queue) == \A i \in DOMAIN queue : queue[i].kind = "obj"
UnregIsLast ==
  \A a \in Attr :
    /\ \A i, j \in DOMAIN q[a] : i < j /\ q[a][i].kind = "unreg" => q[a][j].kind = "obj"
    /\ (\E i \in DOMAIN q[a] : q[a][i].kind = "unreg") => leave[a] \in {"join", "done"}

\* An update, a notification or a question accepted by a worker's channel is
\* handled before that worker obeys Unregister: at the end of a worker told to
\* stop only requests of GetManagedObjects are left in its channel (the
\* Application that unregister gives back holds every value it was sent).
TellsApplied == \A a \in Attr : st[a] = "ended" => leave[a] # "none" /\ OnlyObj(q[a])

IInv == TypeOK /\ Stages /\ AskedOnce /\ UnregIsLast /\ TellsApplied

\* unregister gives the Application back only when every worker, the app
\* worker included, has returned its part of it (the joins of mod.rs:413-420).
JoinedIsComplete == unreg = "joined" => \A w \in Worker : Fate(w) = "ended"

\* Whatever users do with their futures, a characteristic whose handle is set
\* and whose I/O works stops for two reasons only: it was told to, or nobody can
\* reach it any more.
ChrcSurvives ==
  \A a \in Attr :
    Kind[a] = "chrc" /\ a \notin MayFail \cup ZeroHandle /\ st[a] \notin {"run", "ended"}
      => ~HandleLive /\ ~AppLive

\* The app worker ends in error only for a worker that is no longer there, and
\* it panics only once the AppWorker is gone, or on a call it has no arm for
\* (mod.rs:57-61, 88-95, 349): no user future, no full channel and no order of
\* Unregister and calls brings it down.
AppNeedsCause ==
  /\ app = "err" => \E a \in Attr : st[a] # "run"
  /\ app = "panic" =>
       \/ ~HandleLive
       \/ calls.waiting # <<>> /\ Head(calls.waiting) = "other"

\* A future waiting on such a characteristic is answered, or abandoned by its
\* user, as long as the AppWorker is held.
ChrcAnswers ==
  \A u \in User, a \in Attr :
    Kind[a] = "chrc" /\ a \notin MayFail \cup ZeroHandle =>
      (user[u].st = "wait" /\ user[u].to = a) ~> (user[u].st = "idle")

\* The one way to strand the app worker in GetManagedObjects, and unregister
\* with it: a worker that stopped with that request still in its channel.
Overtaken == \E a \in Attr : st[a] # "run" /\ obj[a] = "wait"
ObjMgrEnds == (app = "objmgr") ~> (app # "objmgr" \/ Overtaken)
UnregisterEnds == (unreg = "run") ~> (unreg # "run" \/ Overtaken)

\* Requests that involve all workers end, whichever of them fails or stops in
\* between, but for that one way (mod.rs:87-100, 405-437).
RequestsEnd == ObjMgrEnds /\ UnregisterEnds

\* What the documentation of unregister says (mod.rs:390): it shuts the workers
\* down.
UnregisterShutsDown ==
  (unreg = "run") ~> \A w \in Worker : Fate(w) \in {"ended", "err", "panic"}
==============================================================================
