------------------------------- MODULE AppTree -------------------------------
(***************************************************************************)
(* The tree of attributes of an Application: how the builder methods make  *)
(* it, how register takes it apart into one worker per attribute under the *)
(* key (service, characteristic, descriptor), and how unregister puts the  *)
(* parts the workers return together again (src/gatt/server/mod.rs, and    *)
(* the add and remove methods of service.rs and chrc.rs).  Only UUIDs are  *)
(* kept of an attribute; a UUID is a number, and may be 0, which is also   *)
(* what a key has for what is not on the way.  Two attributes with the     *)
(* same UUID may hang under different parents.  What goes on between       *)
(* register and the last join of unregister is in GattApp.                 *)
(* Bound: MaxAttr attributes in an application.                            *)
(***************************************************************************)
EXTENDS AppKeys, FiniteSets

CONSTANTS ServId, ChrcId, DescId,  \* the UUIDs in use
          MaxAttr, None

ASSUME IdType == ServId \cup ChrcId \cup DescId \subseteq Nat

VARIABLES
  app,      \* Application.services
  newServ,  \* a Service under construction, or None
  newChrc,  \* a Characteristic under construction, or None
  phase,    \* "build", "serving", "rebuild", "done" or "panic"
  orig,     \* the services at the last register
  left,     \* the attributes, as places in orig, that unregister has yet to put back
  serv, chrc, desc   \* cur_serv, cur_chrc, cur_desc

vars == <<app, newServ, newChrc, phase, orig, left, serv, chrc, desc>>
draft == <<newServ, newChrc>>
cursors == <<serv, chrc, desc>>

------------------------------------------------------------------------------
(* Vectors of attributes searched by UUID. *)

Hits(seq, id) == {i \in DOMAIN seq : seq[i].id = id}
First(seq, id) == CHOOSE i \in Hits(seq, id) : \A j \in Hits(seq, id) : i <= j

\* A bug of the kind the module must exclude: an attribute is always appended.
PutAppend(seq, x) == Append(seq, x)

\* add_service, add_char, add_desc: the attribute with the same UUID is replaced.
Put(seq, x) ==
  IF Hits(seq, x.id) = {} THEN Append(seq, x) ELSE [seq EXCEPT ![First(seq, x.id)] = x]

\* remove_service, remove_char, remove_desc.
Remove(seq, id) ==
  IF Hits(seq, id) = {} THEN seq
  ELSE SubSeq(seq, 1, First(seq, id) - 1) \o SubSeq(seq, First(seq, id) + 1, Len(seq))

Desc(d) == [id |-> d]
EmptyChrc(c) == [id |-> c, descs |-> <<>>]
EmptyServ(s) == [id |-> s, chars |-> <<>>]

------------------------------------------------------------------------------
(* The workers, and the order in which unregister sees them. *)

\* The attributes whose worker is in the AppWorker: a worker filed later under
\* the same key replaces it, the app worker the one under the key of zeros.
Workers(a) ==
  {p \in Places(a) :
     /\ KeyAt(a, p) # Key(0, 0, 0)
     /\ \A q \in Places(a) \ {p} : KeyAt(a, p) = KeyAt(a, q) => StartsBefore(q, p)}

\* The orders in which the array of a binary heap with its smallest key first
\* can list the workers, after the app worker, whose key is the smallest: a
\* key comes after its parent in the heap, and nothing else is promised.
HeapOrders(a) ==
  {h \in [1 .. Cardinality(Workers(a)) -> Workers(a)] :
     /\ \A i, j \in DOMAIN h : i # j => h[i] # h[j]
     /\ \A i \in DOMAIN h : i > 2 => Less(KeyAt(a, h[((i + 1) \div 2) - 1]), KeyAt(a, h[i]))}

\* The UUID of an attribute itself.
IdAt(a, p) ==
  LET s == a[p[1]] IN
  IF p[2] = 0 THEN s.id
  ELSE IF p[3] = 0 THEN s.chars[p[2]].id ELSE s.chars[p[2]].descs[p[3]].id

------------------------------------------------------------------------------
Init ==
  /\ app = <<>> /\ newServ = None /\ newChrc = None
  /\ phase = "build" /\ orig = <<>> /\ left = <<>>
  /\ serv = None /\ chrc = None /\ desc = None

\* Service::new and Characteristic::new; what was under construction is dropped.
NewServ(s) ==
  /\ phase = "build"
  /\ newServ' = EmptyServ(s)
  /\ UNCHANGED <<app, newChrc, phase, orig, left, cursors>>

NewChrc(c) ==
  /\ phase = "build"
  /\ newChrc' = EmptyChrc(c)
  /\ UNCHANGED <<app, newServ, phase, orig, left, cursors>>

AddDesc(d) ==
  /\ phase = "build" /\ newChrc # None
  /\ newChrc' = [newChrc EXCEPT !.descs = Put(@, Desc(d))]
  /\ UNCHANGED <<app, newServ, phase, orig, left, cursors>>

RemoveDesc(d) ==
  /\ phase = "build" /\ newChrc # None
  /\ newChrc' = [newChrc EXCEPT !.descs = Remove(@, d)]
  /\ UNCHANGED <<app, newServ, phase, orig, left, cursors>>

AddChar ==
  /\ phase = "build" /\ newServ # None /\ newChrc # None
  /\ newServ' = [newServ EXCEPT !.chars = Put(@, newChrc)]
  /\ newChrc' = None
  /\ UNCHANGED <<app, phase, orig, left, cursors>>

RemoveChar(c) ==
  /\ phase = "build" /\ newServ # None
  /\ newServ' = [newServ EXCEPT !.chars = Remove(@, c)]
  /\ UNCHANGED <<app, newChrc, phase, orig, left, cursors>>

\* add_service asserts that the service has a characteristic.
AddService ==
  /\ phase = "build" /\ newServ # None
  /\ newServ' = None
  /\ IF newServ.chars = <<>>
     THEN phase' = "panic" /\ UNCHANGED app
     ELSE app' = Put(app, newServ) /\ UNCHANGED phase
  /\ Cardinality(Places(app')) <= MaxAttr
  /\ UNCHANGED <<newChrc, orig, left, cursors>>

RemoveService(s) ==
  /\ phase = "build"
  /\ app' = Remove(app, s)
  /\ UNCHANGED <<draft, phase, orig, left, cursors>>

------------------------------------------------------------------------------
\* register: the services are drained, one worker is started per attribute;
\* an application without services is refused by an assertion.  What is still
\* under construction plays no part from here on and is forgotten.
Register ==
  /\ phase = "build"
  /\ IF app = <<>>
     THEN phase' = "panic" /\ UNCHANGED <<app, orig>>
     ELSE phase' = "serving" /\ orig' = app /\ app' = <<>>
  /\ newServ' = None /\ newChrc' = None
  /\ UNCHANGED <<left, cursors>>

\* unregister, once every worker has returned its part; what has lost its
\* worker is not among them.
Unregister ==
  /\ phase = "serving"
  /\ phase' = "rebuild"
  /\ left' \in HeapOrders(orig)
  /\ UNCHANGED <<app, draft, orig, cursors>>

\* One turn of the loop of unregister, by the kind of attribute the next part
\* is: the previous one of that kind goes to what is then its parent.
Part == IdAt(orig, Head(left))
PutServ ==
  /\ phase = "rebuild" /\ left # <<>> /\ Head(left)[2] = 0
  /\ left' = Tail(left)
  /\ serv' = EmptyServ(Part)
  /\ \/ serv = None /\ UNCHANGED <<app, phase>>
     \/ /\ serv # None /\ serv.chars # <<>>
        /\ app' = Put(app, serv) /\ UNCHANGED phase
     \/ /\ serv # None /\ serv.chars = <<>>
        /\ phase' = "panic" /\ UNCHANGED app
  /\ UNCHANGED <<draft, orig, chrc, desc>>

PutChrc ==
  /\ phase = "rebuild" /\ left # <<>> /\ Head(left)[2] # 0 /\ Head(left)[3] = 0
  /\ left' = Tail(left)
  /\ chrc' = EmptyChrc(Part)
  /\ \/ chrc = None /\ UNCHANGED <<serv, phase>>
     \/ /\ chrc # None /\ serv # None
        /\ serv' = [serv EXCEPT !.chars = Put(@, chrc)] /\ UNCHANGED phase
     \/ /\ chrc # None /\ serv = None
        /\ phase' = "panic" /\ UNCHANGED serv
  /\ UNCHANGED <<app, draft, orig, desc>>

PutDesc ==
  /\ phase = "rebuild" /\ left # <<>> /\ Head(left)[3] # 0
  /\ left' = Tail(left)
  /\ desc' = Desc(Part)
  /\ \/ desc = None /\ UNCHANGED <<chrc, phase>>
     \/ /\ desc # None /\ chrc # None
        /\ chrc' = [chrc EXCEPT !.descs = Put(@, desc)] /\ UNCHANGED phase
     \/ /\ desc # None /\ chrc = None
        /\ phase' = "panic" /\ UNCHANGED chrc
  /\ UNCHANGED <<app, draft, orig, serv>>

\* Ok(app): what the three cursors hold is dropped.
Return ==
  /\ phase = "rebuild" /\ left = <<>>
  /\ phase' = "done"
  /\ serv' = None /\ chrc' = None /\ desc' = None
  /\ UNCHANGED <<app, draft, orig, left>>

Next ==
  \/ \E s \in ServId : NewServ(s) \/ RemoveService(s)
  \/ \E c \in ChrcId : NewChrc(c) \/ RemoveChar(c)
  \/ \E d \in DescId : AddDesc(d) \/ RemoveDesc(d)
  \/ AddChar \/ AddService \/ Register \/ Unregister
  \/ PutServ \/ PutChrc \/ PutDesc \/ Return

Spec == Init /\ [][Next]_vars

------------------------------------------------------------------------------
DescType == [id : DescId]
ChrcType == [id : ChrcId, descs : Seq(DescType)]
ServType == [id : ServId, chars : Seq(ChrcType)]

TypeOK ==
  /\ app \in Seq(ServType) /\ orig \in Seq(ServType)
  /\ newServ \in ServType \cup {None} /\ newChrc \in ChrcType \cup {None}
  /\ phase \in {"build", "serving", "rebuild", "done", "panic"}
  /\ left \in Seq(Places(orig)) /\ (phase = "build" => left = <<>>)
  /\ serv \in ServType \cup {None} /\ chrc \in ChrcType \cup {None}
  /\ desc \in DescType \cup {None}

\* No attribute has two children with the same UUID, in the application, in
\* what is under construction and in what unregister puts together, where a
\* characteristic may land beside one of another service.
Distinct(seq) == \A i, j \in DOMAIN seq : seq[i].id = seq[j].id => i = j
WellFormedServ(s) == Distinct(s.chars) /\ \A i \in DOMAIN s.chars : Distinct(s.chars[i].descs)
WellFormed(a) == Distinct(a) /\ \A i \in DOMAIN a : WellFormedServ(a[i])
UniqueIds ==
  /\ WellFormed(app) /\ WellFormed(orig)
  /\ newServ # None => WellFormedServ(newServ)
  /\ newChrc # None => Distinct(newChrc.descs)
  /\ serv # None => WellFormedServ(serv)
  /\ chrc # None => Distinct(chrc.descs)

\* The invariant of the application in the user's and in unregister's hands;
\* it is inductive.
TreeInv == TypeOK /\ UniqueIds

\* register may file two workers under one key, where the later one silently
\* replaces the other in the HashMap (mod.rs:291-297, 365); so it loses the
\* attributes whose own UUID is 0, each to what is above it, and no others:
\* the AppWorker reaches everything else, below a lost attribute too.
AppWorkerReaches ==
  phase = "serving" => Workers(orig) = {p \in Places(orig) : IdAt(orig, p) # 0}

\* "[..] return the original `Application`" (mod.rs:390).
OriginalBack == phase = "done" => app = orig
==============================================================================
