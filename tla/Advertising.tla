---------------------------- MODULE Advertising ----------------------------
(***************************************************************************)
(* The advertisements of one program at one D-Bus path (advertising.rs):   *)
(* register, the task that serves an advertisement afterwards, and the     *)
(* AdWorker its user holds.  BlueZ may refuse an advertisement, ask for    *)
(* its properties, and release it at any time; the user may release it,    *)
(* ask whether it is alive, or drop what he holds.  The path is used again *)
(* for another advertisement once its user knows that the last has ended.  *)
(***************************************************************************)
EXTENDS Naturals, Sequences

CONSTANTS
  Ads,       \* the advertisements that are registered, one after the other
  NoAd,      \* BlueZ advertises nothing from this path
  CallCap    \* bound: the calls that wait at the path

ASSUME NoAdIsNone == NoAd \notin Ads
ASSUME CallCapType == CallCap \in Nat

VARIABLES
  st,        \* where the code of an advertisement is: in register ("reg"), in the
             \* task's select ("run"), waiting for the reply to UnregisterAdvertisement
             \* ("unreg"), behind the loop ("leave"), or how it ended
  user,      \* what its user does with it
  probe,     \* his last is_alive, or the one under way
  chan,      \* the channel of WorkerMsg, of capacity 1
  reply,     \* the reply of BlueZ to the request under way
  path,      \* the action of the connection for calls to the path
  calls,     \* calls that wait at the path; `of` says whom a Release of BlueZ is about
  inbox,     \* requests BlueZ has not looked at
  bluez,     \* the advertisement BlueZ advertises
  released,  \* history: the advertisements BlueZ released of its own accord
  strayed,   \* history: the advertisements ended by a Release not meant for them
  conn       \* whether the D-Bus connection works

vars == <<st, user, probe, chan, reply, path, calls, inbox, bluez, released, strayed, conn>>
bluezVars == <<inbox, bluez, released>>

Served == {"reg", "run", "unreg"}
Ended == {"ok", "err", "panic"}
ChanCap == 1
Calls == [kind : {"props", "Release", "bare"}, of : Ads \cup {NoAd}]
Requests == [req : {"Register", "Unregister"}, ad : Ads]

(* Type invariant: of each advertisement, its channel, the path, and BlueZ. *)
AdTypes ==
  /\ st \in [Ads -> {"idle", "leave"} \cup Served \cup Ended]
  /\ user \in [Ads -> {"none", "wait", "held", "sending", "joining", "back", "failed", "gone"}]
  /\ probe \in [Ads -> {"none", "asking", "yes", "no"}]
  /\ reply \in [Ads -> {"none", "ok", "err"}]
ChanTypes ==
  /\ chan \in [Ads -> Seq({"Release", "Alive"})]
  /\ \A a \in Ads : Len(chan[a]) <= ChanCap
PathTypes ==
  /\ path \in {"Nothing", "Exact"}
  /\ calls \in Seq(Calls) /\ Len(calls) <= CallCap
BluezTypes ==
  /\ inbox \in Seq(Requests)
  /\ bluez \in Ads \cup {NoAd}
  /\ released \subseteq Ads /\ strayed \subseteq Ads
  /\ conn \in BOOLEAN
TypeOK == AdTypes /\ ChanTypes /\ PathTypes /\ BluezTypes

Init ==
  /\ st = [a \in Ads |-> "idle"]
  /\ user = [a \in Ads |-> "none"]
  /\ probe = [a \in Ads |-> "none"]
  /\ chan = [a \in Ads |-> <<>>]
  /\ reply = [a \in Ads |-> "none"]
  /\ path = "Nothing" /\ calls = <<>>
  /\ inbox = <<>> /\ bluez = NoAd
  /\ released = {} /\ strayed = {}
  /\ conn = TRUE

-----------------------------------------------------------------------------
\* A bug of the kind the module must exclude: the receiver is dropped where the loop is left.
ClosedAtBreak(a) == st[a] \in Ended \cup {"leave"}

(* The receiver of the channel is dropped when the task's future ends.      *)
Closed(a) == st[a] \in Ended

(* The code of a ends: register returns an error, or the task returns.      *)
End(a, how) ==
  /\ st' = [st EXCEPT ![a] = how]
  /\ chan' = [chan EXCEPT ![a] = <<>>]

(* Room in the channel for one more message.                                *)
HasRoom(a) == Len(chan[a]) < ChanCap

(* What the user can know of the end of a: what release or register gave    *)
(* him, or an is_alive that was false.  A dropped AdWorker tells nothing.   *)
KnownEnded(a) == user[a] \in {"none", "back", "failed"} \/ probe[a] = "no"

(* Send a request to BlueZ and wait for the reply, or fail at once.         *)
Request(a, req, next) ==
  IF conn
  THEN /\ st' = [st EXCEPT ![a] = next]
       /\ inbox' = Append(inbox, [req |-> req, ad |-> a])
       /\ UNCHANGED chan
  ELSE End(a, "err") /\ UNCHANGED inbox

(* register up to its loop: the path is claimed before BlueZ is asked.      *)
(* What is left in the queue of a path that was still claimed is the        *)
(* connection's business.                                                   *)
Register(a) ==
  /\ user[a] = "none"
  /\ \A b \in Ads \ {a} : KnownEnded(b)
  /\ path' = "Exact"
  /\ calls' \in {calls, <<>>}
  /\ Request(a, "Register", "reg")
  /\ user' = [user EXCEPT ![a] = IF conn THEN "wait" ELSE "failed"]
  /\ UNCHANGED <<probe, reply, bluez, released, strayed, conn>>

(* handle_call on the first call of the queue: everything but a Release is  *)
(* answered; a call without an interface panics; the sender is not looked   *)
(* at.  The advertisement ends as `how` says when it is released.           *)
Answered(a) ==
  /\ Head(calls).kind = "props"
  /\ IF conn THEN UNCHANGED <<st, chan>> ELSE End(a, "err")
  /\ UNCHANGED strayed

Panics(a) ==
  /\ Head(calls).kind = "bare"
  /\ End(a, "panic")
  /\ UNCHANGED strayed

IsReleased(a, how) ==
  /\ Head(calls).kind = "Release"
  /\ IF how = "leave" THEN st' = [st EXCEPT ![a] = how] /\ UNCHANGED chan ELSE End(a, how)
  /\ strayed' = strayed \cup {b \in {a} : Head(calls).of # a}

HandleCall(a, how) ==
  /\ calls # <<>>
  /\ calls' = Tail(calls)
  /\ Answered(a) \/ Panics(a) \/ IsReleased(a, how)
  /\ UNCHANGED <<probe, reply, path, inbox, bluez, released, conn>>

(* The loop of register: a call, or the reply to RegisterAdvertisement.     *)
RegCall(a) ==
  /\ st[a] = "reg"
  /\ HandleCall(a, "err")
  /\ user' = [user EXCEPT ![a] = IF Closed(a)' THEN "failed" ELSE @]

\* A bug of the kind the module must exclude: the reply is not looked at.
AcceptedAnyway(a) == reply[a] # "none"

(* is_msg_err_empty on the reply.                                           *)
Accepted(a) == reply[a] = "ok"

RegReply(a) ==
  /\ st[a] = "reg" /\ reply[a] # "none"
  /\ reply' = [reply EXCEPT ![a] = "none"]
  /\ IF Accepted(a)
     THEN st' = [st EXCEPT ![a] = "run"] /\ UNCHANGED chan
     ELSE End(a, "err")
  /\ user' = [user EXCEPT ![a] = IF Accepted(a) THEN "held" ELSE "failed"]
  /\ UNCHANGED <<probe, path, calls, bluezVars, strayed, conn>>

RegLost(a) ==
  /\ st[a] = "reg" /\ ~conn
  /\ End(a, "err")
  /\ user' = [user EXCEPT ![a] = "failed"]
  /\ UNCHANGED <<probe, reply, path, calls, bluezVars, strayed, conn>>

-----------------------------------------------------------------------------
(* The task.  select looks at the calls before the messages.                *)
RunCall(a) ==
  /\ st[a] = "run"
  /\ HandleCall(a, "leave")
  /\ UNCHANGED user

MsgAlive(a) ==
  /\ st[a] = "run" /\ chan[a] # <<>> /\ Head(chan[a]) = "Alive"
  /\ chan' = [chan EXCEPT ![a] = Tail(@)]
  /\ UNCHANGED <<st, user, probe, reply, path, calls, bluezVars, strayed, conn>>

\* A bug of the kind the module must exclude: the loop is left without waiting for the reply.
WithdrawUnwaited(a) == Request(a, "Unregister", "leave")

Withdraw(a) == Request(a, "Unregister", "unreg")

MsgRelease(a) ==
  /\ st[a] = "run" /\ chan[a] # <<>> /\ Head(chan[a]) = "Release"
  /\ Withdraw(a)
  /\ UNCHANGED <<user, probe, reply, path, calls, bluez, released, strayed, conn>>

(* The AdWorker, the only sender, was dropped: recv fails, and so the task. *)
MsgClosed(a) ==
  /\ st[a] = "run" /\ chan[a] = <<>> /\ user[a] = "gone"
  /\ End(a, "err")
  /\ UNCHANGED <<user, probe, reply, path, calls, bluezVars, strayed, conn>>

\* A bug of the kind the module must exclude: an error reply is skipped, another one is waited for.
UnregRefusedSkipped(a) == reply[a] = "err" /\ UNCHANGED <<st, chan>>

(* An error, as when BlueZ has released the advertisement meanwhile, ends   *)
(* the task and loses the advertisement.                                    *)
UnregRefused(a) == reply[a] = "err" /\ End(a, "err")

UnregReply(a) ==
  /\ st[a] = "unreg" /\ reply[a] # "none"
  /\ reply' = [reply EXCEPT ![a] = "none"]
  /\ \/ Accepted(a) /\ st' = [st EXCEPT ![a] = "leave"] /\ UNCHANGED chan
     \/ UnregRefused(a)
  /\ UNCHANGED <<user, probe, path, calls, bluezVars, strayed, conn>>

RunLost(a) ==
  /\ st[a] \in {"run", "unreg"} /\ ~conn
  /\ End(a, "err")
  /\ UNCHANGED <<user, probe, reply, path, calls, bluezVars, strayed, conn>>

(* Only here is the path given back.                                        *)
Leave(a) ==
  /\ st[a] = "leave"
  /\ path' = "Nothing" /\ calls' = <<>>
  /\ End(a, "ok")
  /\ UNCHANGED <<user, probe, reply, bluezVars, strayed, conn>>

-----------------------------------------------------------------------------
(* The user.  release takes the AdWorker, so no is_alive is under way.      *)
AskAlive(a) ==
  /\ user[a] = "held" /\ probe[a] # "asking"
  /\ probe' = [probe EXCEPT ![a] = "asking"]
  /\ UNCHANGED <<st, user, chan, reply, path, calls, bluezVars, strayed, conn>>

(* send(Alive) ends once there is room or the receiver is gone; dropped,    *)
(* it has no effect.                                                        *)
AliveSent(a) ==
  /\ probe[a] = "asking"
  /\ \/ Closed(a) /\ probe' = [probe EXCEPT ![a] = "no"] /\ UNCHANGED chan
     \/ /\ ~Closed(a) /\ HasRoom(a)
        /\ probe' = [probe EXCEPT ![a] = "yes"]
        /\ chan' = [chan EXCEPT ![a] = Append(@, "Alive")]
     \/ probe' = [probe EXCEPT ![a] = "none"] /\ UNCHANGED chan
  /\ UNCHANGED <<st, user, reply, path, calls, bluezVars, strayed, conn>>

Release(a) ==
  /\ user[a] = "held" /\ probe[a] # "asking"
  /\ user' = [user EXCEPT ![a] = "sending"]
  /\ UNCHANGED <<st, probe, chan, reply, path, calls, bluezVars, strayed, conn>>

ReleaseSent(a) ==
  /\ user[a] = "sending"
  /\ \/ Closed(a) /\ UNCHANGED chan
     \/ ~Closed(a) /\ HasRoom(a) /\ chan' = [chan EXCEPT ![a] = Append(@, "Release")]
  /\ user' = [user EXCEPT ![a] = "joining"]
  /\ UNCHANGED <<st, probe, reply, path, calls, bluezVars, strayed, conn>>

Joined(a) ==
  /\ user[a] = "joining" /\ st[a] \in Ended
  /\ user' = [user EXCEPT ![a] = IF st[a] = "ok" THEN "back" ELSE "failed"]
  /\ UNCHANGED <<st, probe, chan, reply, path, calls, bluezVars, strayed, conn>>

(* The AdWorker or the future of release is dropped: the task goes on on    *)
(* its own.  The future of register is dropped with all it holds.           *)
DropWorker(a) ==
  /\ user[a] \in {"held", "sending", "joining"} /\ probe[a] # "asking"
  /\ user' = [user EXCEPT ![a] = "gone"]
  /\ UNCHANGED <<st, probe, chan, reply, path, calls, bluezVars, strayed, conn>>

DropRegister(a) ==
  /\ user[a] = "wait"
  /\ user' = [user EXCEPT ![a] = "gone"]
  /\ End(a, "err")
  /\ UNCHANGED <<probe, reply, path, calls, bluezVars, strayed, conn>>

-----------------------------------------------------------------------------
(* BlueZ keeps one advertisement for a path.  A reply nobody waits for is   *)
(* dropped by the connection.                                               *)
ReplyTo(a, r) == reply' = [reply EXCEPT ![a] = IF st[a] \in {"reg", "unreg"} THEN r ELSE @]

BluezRegister ==
  /\ inbox # <<>> /\ Head(inbox).req = "Register"
  /\ inbox' = Tail(inbox)
  /\ LET a == Head(inbox).ad IN
       \/ bluez = NoAd /\ bluez' = a /\ ReplyTo(a, "ok")
       \/ bluez' = bluez /\ ReplyTo(a, "err")
  /\ UNCHANGED <<st, user, probe, chan, path, calls, released, strayed, conn>>

BluezUnregister ==
  /\ inbox # <<>> /\ Head(inbox).req = "Unregister"
  /\ inbox' = Tail(inbox)
  /\ bluez' = NoAd
  /\ ReplyTo(Head(inbox).ad, IF bluez = NoAd THEN "err" ELSE "ok")
  /\ UNCHANGED <<st, user, probe, chan, path, calls, released, strayed, conn>>

(* A call to a path that is not claimed is refused by the connection.       *)
Arrives(kind, of) ==
  IF path = "Exact"
  THEN Len(calls) < CallCap /\ calls' = Append(calls, [kind |-> kind, of |-> of])
  ELSE UNCHANGED calls

BluezRelease ==
  /\ bluez # NoAd /\ conn
  /\ Arrives("Release", bluez)
  /\ released' = released \cup {bluez}
  /\ bluez' = NoAd
  /\ UNCHANGED <<st, user, probe, chan, reply, path, inbox, strayed, conn>>

(* BlueZ reads properties; so may others, who may also call Release.        *)
SomebodyCalls ==
  /\ path = "Exact" /\ conn
  /\ \E kind \in {"props", "Release", "bare"} : Arrives(kind, NoAd)
  /\ UNCHANGED <<st, user, probe, chan, reply, path, bluezVars, strayed, conn>>

(* BlueZ forgets the advertisements of a client that is gone.               *)
LoseConn ==
  /\ conn
  /\ conn' = FALSE
  /\ inbox' = <<>> /\ bluez' = NoAd
  /\ UNCHANGED <<st, user, probe, chan, reply, path, calls, released, strayed>>

-----------------------------------------------------------------------------
Registering(a) == RegCall(a) \/ RegReply(a) \/ RegLost(a)
Task(a) ==
  \/ RunCall(a) \/ MsgAlive(a) \/ MsgRelease(a) \/ MsgClosed(a)
  \/ UnregReply(a) \/ RunLost(a) \/ Leave(a)
User(a) ==
  \/ Register(a) \/ AskAlive(a) \/ AliveSent(a) \/ Release(a)
  \/ ReleaseSent(a) \/ Joined(a) \/ DropWorker(a) \/ DropRegister(a)
Bluez == BluezRegister \/ BluezUnregister \/ BluezRelease \/ SomebodyCalls

Next == (\E a \in Ads : Registering(a) \/ Task(a) \/ User(a)) \/ Bluez \/ LoseConn

(* The task and whoever awaits register or release are polled; each poll of *)
(* the task looks at the calls, and BlueZ answers its requests.             *)
Fairness ==
  /\ \A a \in Ads :
       /\ WF_vars(Registering(a)) /\ WF_vars(RegCall(a))
       /\ WF_vars(Task(a)) /\ WF_vars(RunCall(a))
       /\ WF_vars(ReleaseSent(a)) /\ WF_vars(Joined(a))
  /\ WF_vars(BluezRegister \/ BluezUnregister)

Spec == Init /\ [][Next]_vars /\ Fairness

-----------------------------------------------------------------------------
(* An advertisement that is being registered or served owns its path: the   *)
(* end of the one before it, which gives the path back (advertising.rs:170),*)
(* does not take it away.  That rests on is_alive, whose `false` may not    *)
(* come before the path has been given back.                                *)
PathHeld == \A a \in Ads : st[a] \in Served => path = "Exact"

(* Who is where: what the user knows fits the place of the code, and one    *)
(* advertisement at most is at work.                                        *)
AtWork(a) == st[a] \in Served \cup {"leave"}
Stages ==
  /\ \A a \in Ads :
       /\ user[a] = "none" <=> st[a] = "idle"
       /\ user[a] = "wait" <=> st[a] = "reg"
       /\ user[a] \in {"back", "failed"} \/ probe[a] = "no" => st[a] \in Ended
       /\ st[a] \in {"idle", "run"} => reply[a] = "none"
  /\ \A a, b \in Ads : AtWork(a) /\ AtWork(b) => a = b

(* What BlueZ still has to do with a.                                       *)
Asked(req, a) == \E i \in DOMAIN inbox : inbox[i] = [req |-> req, ad |-> a]
Advertised(a) == bluez = a \/ Asked("Register", a)
ReleaseComes(a) == \E i \in DOMAIN calls : calls[i].of = a

(* Requests are made once, and answered while they are waited for; a        *)
(* Release of BlueZ, or a reply that says so, is the end of the             *)
(* advertisement there.                                                     *)
Requested ==
  /\ ~conn => inbox = <<>> /\ bluez = NoAd
  /\ \A i, j \in DOMAIN inbox : inbox[i] = inbox[j] => i = j
  /\ \A a \in Ads :
       /\ bluez = a => ~Asked("Register", a)
       /\ Asked("Register", a) => (st[a] = "reg" /\ reply[a] = "none") \/ st[a] \in Ended
       /\ Asked("Unregister", a) => st[a] = "unreg" /\ reply[a] = "none"
       /\ ReleaseComes(a) => ~Advertised(a) /\ st[a] # "idle"
       /\ st[a] = "idle" => ~Advertised(a)
       /\ st[a] = "reg" /\ reply[a] = "err" => ~Advertised(a)
       /\ st[a] = "unreg" /\ reply[a] # "none" => ~Advertised(a)

(* What BlueZ was told to advertise it does, but for its own Release.       *)
Lost(a) == ~conn \/ a \in released
Kept ==
  \A a \in Ads :
    /\ \/ st[a] = "reg" /\ reply[a] = "ok"
       \/ st[a] = "run"
       \/ st[a] = "unreg" /\ reply[a] = "none"
       => bluez = a \/ Lost(a)
    /\ st[a] = "unreg" /\ reply[a] = "err" => Lost(a)
    /\ st[a] = "err" => user[a] \in {"failed", "gone"} \/ Lost(a)

(* What BlueZ advertises, or is about to, is served by a task; unless its   *)
(* user dropped it, a call without an interface made its task panic, or it  *)
(* was ended by a Release of somebody else, or by one meant for an          *)
(* advertisement before it and left in the queue: handle_call looks at      *)
(* neither.  In particular an advertisement that release returns is not     *)
(* advertised any longer.                                                   *)
NoOrphan ==
  \A a \in Ads :
    Advertised(a) => st[a] \in Served \/ user[a] = "gone" \/ st[a] = "panic" \/ a \in strayed

(* The inductive invariant of the advertisements of one path.               *)
IInv == TypeOK /\ Stages /\ PathHeld /\ Requested /\ Kept

(* release loses the advertisement only if the connection was lost, a call  *)
(* made the task panic, or BlueZ released it too: its Release and our       *)
(* UnregisterAdvertisement cross, and the error reply ends the task.        *)
LossNeedsCause ==
  [][\A a \in Ads : user[a] = "joining" /\ user'[a] = "failed" =>
       ~conn \/ st[a] = "panic" \/ a \in released]_vars

(* A Release by BlueZ ends the advertisement, whatever the user does.       *)
ReleaseNoticed == \A a \in Ads : a \in released /\ st[a] \in Served ~> Closed(a)

(* Calls stop coming. *)
Quiet == <>[][~SomebodyCalls]_vars

(* release ends, once calls stop: select looks at calls before messages.    *)
ReleaseEnds ==
  Quiet => \A a \in Ads : user[a] \in {"sending", "joining"} ~> user[a] \in {"back", "failed", "gone"}

(* Either side can end an advertisement (advertising.rs:142-199, 232-247).  *)
ReleasesEnd == ReleaseNoticed /\ ReleaseEnds
=============================================================================
