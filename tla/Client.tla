------------------------------- MODULE Client -------------------------------
(***************************************************************************)
(* The client side: how a program finds an adapter, a remote device, its   *)
(* services, their characteristics and descriptors (src/lib.rs, Service    *)
(* and Characteristic of src/gatt/client.rs, get_children of               *)
(* src/introspect.rs), while BlueZ adds and removes objects as devices     *)
(* come and go; and how it then receives notifications from a socket       *)
(* (NotifySocket).  From the device down all levels do the same: introspect*)
(* the parent, look up the UUID of every child whose name has the right    *)
(* prefix, all at the same time, and take the answers as they come.        *)
(*                                                                         *)
(* One user, who awaits one operation at a time and may drop it.  An       *)
(* object is known by its path; its kind, which its name tells, and its    *)
(* UUID do not change.  Reading and writing values is a call of BlueZ's    *)
(* and is left out.  Bound: SockCap datagrams in the socket.               *)
(***************************************************************************)
EXTENDS Naturals, Sequences, SequencesExt, FiniteSets

CONSTANTS
  Object,   \* the objects BlueZ may have
  Root,     \* the one the user starts from, a BluetoothService
  None,
  Parent, Kind, Included,   \* of every object
  Id,       \* its UUID; an index for an adapter, an address for a device
  Wanted,   \* those the user looks for
  NoId,     \* what BlueZ tells instead of one: another type, or nonsense
  Tells,    \* what it may tell as the Address of an adapter or a device
  Garbled,  \* the services of whose Includes it may tell another type
  SockCap

ASSUME RootType == Root \in Object /\ None \notin Object /\ IsFiniteSet(Object)
Kinds == {"root", "adapter", "device", "service", "char", "desc", "other"}
ASSUME KindType == Kind \in [Object -> Kinds]
ASSUME ParentType == Parent \in [Object -> Object \cup {None}]
ASSUME IncludedType == Included \in [Object -> SUBSET Object]
ASSUME IdType == NoId \notin Wanted
ASSUME TellsType == Tells \in [Object -> SUBSET (Wanted \cup {NoId})]
ASSUME GarbledType == Garbled \subseteq Object
ASSUME SockCapType == SockCap \in Nat

VARIABLES
  present,   \* the objects BlueZ has
  held,      \* the objects the user has been given
  op,        \* his operation under way
  steady,    \* history: its targets that were there all through it
  seen,      \* history: its targets that were there at some time of it
  result,    \* how the last operation ended
  sock,      \* the notify socket he holds: "none", "open" or "closed" by BlueZ
  queue,     \* datagrams in it
  reading,   \* recv_notification has read nothing and looks for a hang-up
  unread,    \* history: what BlueZ sent and recv_notification did not return
  conn       \* whether the D-Bus connection works

tree == <<present, held>>
history == <<steady, seen>>
socket == <<sock, queue, reading, unread>>
vars == <<tree, op, history, result, socket, conn>>

Below(k) ==
  CASE k = "root" -> "adapter" [] k = "adapter" -> "device" [] k = "device" -> "service"
    [] k = "service" -> "char" [] k = "char" -> "desc" [] OTHER -> "none"
Children(o) == {c \in Object : Parent[c] = o}

Idle == [do |-> "none", at |-> None, want |-> NoId, stage |-> "ask", left |-> {}, found |-> {}]
Nothing == [how |-> "none", set |-> {}]
Datagram == {"value", "empty"}

(* What an operation is to find: children of the right kind, or what a      *)
(* service includes.                                                        *)
Targets(o) ==
  IF o.do = "none" THEN {}
  ELSE IF o.do = "includes" THEN Included[o.at]
  ELSE {c \in Children(o.at) : Kind[c] = Below(Kind[o.at])}

Doing == {"none", "all", "one", "includes", "names", "direct"}
Endings == {"none", "ok", "unknown", "err", "panic", "hungup"}

TypeOK ==
  /\ present \subseteq Object /\ held \subseteq Object
  /\ \A o \in present : Parent[o] # None => Parent[o] \in present
  /\ op \in [do : Doing, at : held \cup {None}, want : Wanted \cup {NoId}, stage : {"ask", "get"},
             left : SUBSET Targets(op), found : SUBSET Targets(op)]
  /\ steady \subseteq Object /\ seen \subseteq Object
  /\ result \in [how : Endings, set : SUBSET Object]
  /\ sock \in {"none", "open", "closed"} /\ reading \in BOOLEAN
  /\ queue \in Seq(Datagram) /\ Len(queue) <= SockCap /\ unread \in Seq(Datagram)
  /\ conn \in BOOLEAN

Init ==
  /\ present = Object /\ held = {Root}
  /\ op = Idle /\ steady = {} /\ seen = {} /\ result = Nothing
  /\ sock = "none" /\ queue = <<>> /\ reading = FALSE /\ unread = <<>>
  /\ conn = TRUE

-----------------------------------------------------------------------------
(* get_children: BlueZ's XML as the events of the reader, a root node with  *)
(* its interfaces, which may stand anywhere among the elements of the       *)
(* children.                                                                *)
Start(n, of) == [ev |-> "start", el |-> n, of |-> of]
Stop(n) == [ev |-> "end", el |-> n, of |-> None]
Interface ==
  << Start("interface", None), Start("property", None), Stop("property"), Stop("interface") >>
Nodes(cs) ==
  [i \in 1 .. 2 * Len(cs) |->
     IF i % 2 = 1 THEN Start("node", cs[(i + 1) \div 2]) ELSE Stop("node")]
Document(cs, p) ==
  <<Start("node", None)>> \o Nodes(SubSeq(cs, 1, p)) \o Interface
    \o Nodes(SubSeq(cs, p + 1, Len(cs))) \o <<Stop("node")>>
Documents(o) ==
  LET there == {c \in Children(o) : c \in present}
  IN {Document(cs, p) : cs \in SetToSeqs(there), p \in 0 .. Cardinality(there)}

Count(doc, ev, i, j) == Cardinality({k \in i .. j : doc[k].ev = ev})

\* A bug of the kind the module must exclude: an element ends at the first end event.
AfterShallow(doc, i) == 1 + Min({j \in i .. Len(doc) : doc[j].ev = "end"})

(* ignore_xml_tree: behind the end of the element that starts at i, where   *)
(* as many elements have ended as have started.                             *)
After(doc, i) ==
  1 + Min({j \in i .. Len(doc) : Count(doc, "start", i, j) = Count(doc, "end", i, j)})

(* The elements of the root from i on, up to its own end.                   *)
NamesIn(doc) ==
  LET from[i \in 2 .. Len(doc)] ==
        IF doc[i].ev = "end" THEN {}
        ELSE (IF doc[i].el = "node" THEN {doc[i].of} ELSE {}) \cup from[After(doc, i)]
  IN from[2]

-----------------------------------------------------------------------------
(* The operation ends; but for get_devices, which returns addresses, the    *)
(* user is given what was found.                                            *)
Ends(how, set) ==
  /\ op' = Idle /\ steady' = {} /\ seen' = {}
  /\ result' = [how |-> how, set |-> set]
  /\ held' = IF op.do = "names" THEN held ELSE held \cup set

(* What the user asks an object he holds for: all that is below it or the   *)
(* one with a UUID, those a service includes, the adapter with an index or  *)
(* the device with an address, or the addresses of all devices.             *)
Offers(o) ==
  CASE Kind[o] \in {"device", "char"} -> {"all", "one"}
    [] Kind[o] = "service" -> {"all", "one", "includes"}
    [] Kind[o] = "adapter" -> {"names", "direct"}
    [] Kind[o] = "root" -> {"direct"}
    [] OTHER -> {}

Begin(o, do, want) ==
  /\ op = Idle /\ o \in held /\ sock = "none"
  /\ want \in IF do \in {"one", "direct"} THEN Wanted ELSE {NoId}
  /\ op' = [Idle EXCEPT !.do = do, !.at = o, !.want = want]
  /\ steady' = Targets(op') \cap present /\ seen' = steady'
  /\ result' = Nothing
  /\ UNCHANGED <<tree, socket, conn>>

Tell(targets) ==
  /\ op' = [op EXCEPT !.stage = "get", !.left = targets]
  /\ UNCHANGED <<held, result, history>>

\* A bug of the kind the module must exclude: the prefix is not looked at.
FitsAny(c) == TRUE

(* Whether the name of a child has the prefix of those looked for.          *)
Fits(c) == Kind[c] = Below(Kind[op.at])

(* The reply to Introspect.  That there is no such object is told by a text *)
(* that is no XML: unimplemented!().  get_devices needs no more than names, *)
(* and leaves out those that hold no address.                               *)
Introspected ==
  /\ op.do \in {"all", "one", "names"} /\ op.stage = "ask" /\ conn
  /\ \/ /\ op.at \in present
        /\ \E doc \in Documents(op.at) :
             LET fitting == {c \in NamesIn(doc) : Fits(c)} IN
             IF op.do = "names" THEN Ends("ok", {c \in fitting : Id[c] # NoId}) ELSE Tell(fitting)
     \/ op.at \notin present /\ Ends("panic", {})
  /\ UNCHANGED <<present, socket, conn>>

(* The reply with the paths of a service's Includes, a value of another     *)
(* type, or an error.                                                       *)
IncludesTold ==
  /\ op.do = "includes" /\ op.stage = "ask" /\ conn
  /\ \/ op.at \in present /\ Tell(Included[op.at])
     \/ (op.at \in Garbled \/ op.at \notin present) /\ Ends("err", {})
  /\ UNCHANGED <<present, socket, conn>>

(* An adapter may have any address, a device has the one it is asked by.    *)
Right(c, address) == IF Kind[c] = "adapter" THEN address # NoId ELSE address = op.want

(* The Address of the object at the path made of the index or the address.  *)
(* Of a device that is not there the error tells, of an adapter it is only  *)
(* passed on.                                                               *)
AddressTold ==
  /\ op.do = "direct" /\ op.stage = "ask" /\ conn
  /\ LET there == {c \in present \cap Targets(op) : Id[c] = op.want} IN
     \/ \E c \in there : \E address \in Tells[c] :
          IF Right(c, address) THEN Ends("ok", {c}) ELSE Ends("err", {})
     \/ there = {} /\ Ends(IF Kind[op.at] = "root" THEN "err" ELSE "unknown", {})
  /\ UNCHANGED <<present, socket, conn>>

(* Whether there is an answer to take: the object is there and has a UUID;  *)
(* what a service includes is a service by its name, too.                   *)
Answers(c) ==
  c \in present /\ Id[c] # NoId /\ (op.do = "includes" => Kind[c] = "service")

\* A bug of the kind the module must exclude: an object that is gone ends the search.
MissingEnds(c) ==
  /\ ~Answers(c)
  /\ Ends("err", {})

\* A bug of the kind the module must exclude: an object that is gone is waited for.
MissingWaits(c) ==
  /\ ~Answers(c)
  /\ UNCHANGED <<op, held, history, result>>

(* An object that is gone, or has no UUID, is left out; get_includes takes  *)
(* it for an error.                                                         *)
Missing(c) ==
  /\ ~Answers(c)
  /\ IF op.do = "includes" THEN Ends("err", {})
     ELSE op' = [op EXCEPT !.left = @ \ {c}] /\ UNCHANGED <<held, history, result>>

\* A bug of the kind the module must exclude: the first answer decides.
FoundFirst(c) ==
  /\ Answers(c)
  /\ IF op.do = "one" THEN Ends(IF Id[c] = op.want THEN "ok" ELSE "unknown", {})
     ELSE op' = [op EXCEPT !.left = @ \ {c}, !.found = @ \cup {c}] /\ UNCHANGED <<held, history, result>>

Found(c) ==
  /\ Answers(c)
  /\ IF op.do = "one" /\ Id[c] = op.want THEN Ends("ok", {c})
     ELSE /\ op' = [op EXCEPT !.left = @ \ {c}, !.found = @ \cup {c}]
          /\ UNCHANGED <<held, history, result>>

(* The UUID of one of them, whichever answer is taken next.                 *)
LookedUp ==
  /\ op.stage = "get" /\ conn
  /\ \E c \in op.left : Missing(c) \/ Found(c)
  /\ UNCHANGED <<present, socket, conn>>

(* All answers are in.                                                      *)
Collected ==
  /\ op.stage = "get" /\ op.left = {}
  /\ IF op.do = "one" THEN Ends("unknown", {}) ELSE Ends("ok", op.found)
  /\ UNCHANGED <<present, socket, conn>>

(* The connection is lost with a call under way, or the user gives up.      *)
CallLost ==
  /\ op # Idle /\ ~conn /\ (op.stage = "ask" \/ op.left # {})
  /\ Ends("err", {})
  /\ UNCHANGED <<present, socket, conn>>

GiveUp ==
  /\ op # Idle /\ Ends("none", {})
  /\ UNCHANGED <<present, socket, conn>>

-----------------------------------------------------------------------------
(* acquire_notify gives the user a socket of a characteristic he holds.     *)
Take(to) ==
  /\ sock' = to /\ queue' = <<>> /\ reading' = FALSE /\ unread' = <<>>

AcquireNotify ==
  /\ op = Idle /\ sock = "none" /\ conn
  /\ \E o \in held \cap present : Kind[o] = "char"
  /\ Take("open")
  /\ result' = Nothing
  /\ UNCHANGED <<tree, op, history, conn>>

\* A bug of the kind the module must exclude: the hang-up is looked at first.
HungUpAtOnce == sock = "closed"

(* recv gives no bytes: an empty datagram, or the end once BlueZ has closed *)
(* the other side.                                                          *)
ReadsNothing == IF queue = <<>> THEN sock = "closed" ELSE Head(queue) = "empty"

(* recv_notification waits while there is nothing to read, and returns a    *)
(* value.                                                                   *)
Notified ==
  /\ sock # "none" /\ ~reading /\ queue # <<>> /\ ~ReadsNothing
  /\ queue' = Tail(queue) /\ unread' = Tail(unread)
  /\ UNCHANGED <<tree, op, history, result, sock, reading, conn>>

(* Only when it has read nothing it asks whether the other side hung up,    *)
(* and in between BlueZ may send, or close.                                 *)
ReadNothing ==
  /\ sock # "none" /\ ~reading /\ ReadsNothing
  /\ reading' = TRUE
  /\ queue' = IF queue = <<>> THEN <<>> ELSE Tail(queue)
  /\ UNCHANGED <<tree, op, history, result, sock, unread, conn>>

NotifiedEmpty ==
  /\ reading /\ sock = "open"
  /\ reading' = FALSE /\ unread' = Tail(unread)
  /\ UNCHANGED <<tree, op, history, result, sock, queue, conn>>

(* NotConnected, or another error of recv: the user drops the socket.       *)
NotConnected ==
  /\ reading /\ sock = "closed"
  /\ result' = [how |-> "hungup", set |-> {}] /\ Take("none")
  /\ UNCHANGED <<tree, op, history, conn>>

RecvFails ==
  /\ sock # "none" /\ ~reading
  /\ result' = [how |-> "err", set |-> {}] /\ Take("none")
  /\ UNCHANGED <<tree, op, history, conn>>

DropSocket ==
  /\ sock # "none" /\ ~reading /\ Take("none")
  /\ UNCHANGED <<tree, op, history, result, conn>>

-----------------------------------------------------------------------------
(* BlueZ: objects come parents first and go children first; the device may  *)
(* notify, and BlueZ closes the socket when it is done.                     *)
Appears(o) ==
  /\ o \notin present /\ Parent[o] \in present
  /\ present' = present \cup {o}
  /\ seen' = seen \cup ({o} \cap Targets(op))
  /\ UNCHANGED <<held, op, steady, result, socket, conn>>

Goes(o) ==
  /\ o \in present \ {Root} /\ Children(o) \cap present = {}
  /\ present' = present \ {o}
  /\ steady' = steady \ {o}
  /\ UNCHANGED <<held, op, seen, result, socket, conn>>

Notifies(datagram) ==
  /\ sock = "open" /\ Len(queue) < SockCap
  /\ queue' = Append(queue, datagram) /\ unread' = Append(unread, datagram)
  /\ UNCHANGED <<tree, op, history, result, sock, reading, conn>>

Closes ==
  /\ sock = "open" /\ sock' = "closed"
  /\ UNCHANGED <<tree, op, history, result, queue, reading, unread, conn>>

LoseConn ==
  /\ conn /\ conn' = FALSE
  /\ UNCHANGED <<tree, op, history, result, socket>>

-----------------------------------------------------------------------------
Search == Introspected \/ IncludesTold \/ AddressTold \/ LookedUp \/ Collected \/ CallLost
User ==
  \/ \E o \in Object, want \in Wanted \cup {NoId} :
       \E do \in Offers(o) : Begin(o, do, want)
  \/ GiveUp \/ AcquireNotify \/ DropSocket
Receive == Notified \/ ReadNothing \/ NotifiedEmpty \/ NotConnected \/ RecvFails
Bluez ==
  \/ \E o \in Object : Appears(o) \/ Goes(o)
  \/ \E datagram \in Datagram : Notifies(datagram)
  \/ Closes \/ LoseConn

Next == Search \/ User \/ Receive \/ Bluez

(* The futures of the user's operations are polled, and BlueZ answers.      *)
Fairness == WF_vars(Search) /\ WF_vars(Receive)

Spec == Init /\ [][Next]_vars /\ Fairness

-----------------------------------------------------------------------------
Suits(c) == Id[c] # NoId

(* An operation is about an object the user holds, and waits for answers    *)
(* only in the second half.                                                 *)
OpInv ==
  /\ op.do = "none" => op = Idle
  /\ op.do # "none" => op.at # None
  /\ op.do \in {"one", "direct"} => op.want \in Wanted
  /\ op.stage = "ask" => op.left = {} /\ op.found = {}
  /\ op.stage = "get" => op.do \in {"all", "one", "includes"}

(* What the histories know of the targets.                                  *)
HistoryInv ==
  /\ steady \subseteq present \cap Targets(op)
  /\ present \cap Targets(op) \subseteq seen
  /\ seen \subseteq Targets(op)

(* The lookups lose no target that stays, and collect nothing that never    *)
(* was; of one that fits the search would have ended.                       *)
FoundInv ==
  /\ op.found \subseteq {c \in seen : Suits(c)}
  /\ op.stage = "get" => {c \in steady : Suits(c)} \subseteq op.left \cup op.found
  /\ op.do = "one" => \A c \in op.found : Id[c] # op.want

(* Nothing gets lost in the socket: what was not returned is in it, but for *)
(* the empty datagram recv may just have taken out.                         *)
QueueInv ==
  /\ ~reading => unread = queue
  /\ reading =>
       \/ sock = "closed" /\ unread = <<>> /\ queue = <<>>
       \/ sock # "none" /\ unread # <<>> /\ Head(unread) = "empty" /\ queue = Tail(unread)

(* Along a search, whatever BlueZ's objects do meanwhile, what was found    *)
(* and what is still asked for covers what stays.                           *)
IInv == TypeOK /\ OpInv /\ HistoryInv /\ FoundInv /\ QueueInv

(* A step that ends the operation under way with a result.                  *)
Returns == op # Idle /\ op' = Idle /\ result'.how # "none"

(* What a search returns is what is there: all that it was to find and that *)
(* was there all the time, and nothing that never was; an id is unknown     *)
(* only if no such object was there all the time.  However the objects come *)
(* and go, whatever other elements the XML holds, in whatever order the     *)
(* answers arrive.                                                          *)
SearchIsExact ==
  [][Returns =>
       /\ result'.set \subseteq {c \in seen : Suits(c)}
       /\ op.do \notin {"one", "direct"} /\ result'.how = "ok" => {c \in steady : Suits(c)} \subseteq result'.set
       /\ op.do \in {"one", "direct"} /\ result'.how = "ok" => \A c \in result'.set : Id[c] = op.want
       /\ result'.how = "unknown" => \A c \in steady : Id[c] # op.want]_vars

(* A search fails for a cause: the connection is lost; the object searched  *)
(* is gone (which panics); the adapter asked for is not there; BlueZ tells  *)
(* a wrong address, or another type for Includes; or a service includes     *)
(* what is gone or no service.  That objects below come and go is none.     *)
FailNeedsCause ==
  [][Returns /\ result'.how \in {"err", "panic"} =>
       \/ ~conn \/ op.at \notin present
       \/ Kind[op.at] = "root" /\ ~\E c \in present \cap Targets(op) : Id[c] = op.want
       \/ op.do = "direct" /\ \E c \in present \cap Targets(op) :
            Id[c] = op.want /\ \E address \in Tells[c] : ~Right(c, address)
       \/ op.do = "includes" /\ (op.at \in Garbled \/ \E c \in Included[op.at] : ~Answers(c))]_vars

(* A search ends, even if objects come and go all the time.                 *)
SearchEnds == op # Idle ~> op = Idle

(* recv_notification reports the end of notifications (NotConnected) only   *)
(* when it has returned all that BlueZ sent; or when the next is an empty   *)
(* value, which it takes for the end if BlueZ has closed the socket by the  *)
(* time it looks, and whatever BlueZ sent in between is lost with it        *)
(* (client.rs:289-290).                                                     *)
NoNotificationLost ==
  [][result.how # "hungup" /\ result'.how = "hungup" =>
       unread = <<>> \/ Head(unread) = "empty"]_vars
=============================================================================
