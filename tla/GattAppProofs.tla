---------------------------- MODULE GattAppProofs ----------------------------
(***************************************************************************)
(* Proofs about GattApp for every set of attributes and user futures, every *)
(* choice of faulty attributes and every capacity: the inductive invariant *)
(* and what unregister, a characteristic and the app worker promise.       *)
(***************************************************************************)
EXTENDS GattApp, TLAPS

USE NameType, KindType, SubsetType, BoundType

UserRec == [st : {"idle", "send", "wait", "lost"}, to : Worker,
            kind : {"none", "tell", "ask", "handle"}]

\* The three ways a user future changes keep it one.
LEMMA UserRecType ==
  ASSUME TypeOK, NEW u \in User, NEW s \in {"wait", "lost"}
  PROVE  /\ Idle \in UserRec /\ user \in [User -> UserRec]
         /\ [user[u] EXCEPT !.st = s] \in UserRec
         /\ [user[u] EXCEPT !.st = s].st = s
         /\ [user[u] EXCEPT !.st = s].to = user[u].to
         /\ [user[u] EXCEPT !.st = s].kind = user[u].kind
         /\ [user[u] EXCEPT !.st = s] # Idle
<1>1. user \in [User -> UserRec]
  BY DEF TypeOK, UserRec
<1>2. user[u] \in UserRec
  BY <1>1
<1>3. [user[u] EXCEPT !.st = s] \in UserRec /\ [user[u] EXCEPT !.st = s].st = s
  BY <1>2 DEF UserRec
<1>4. Idle \in UserRec /\ Idle.st = "idle"
  BY DEF Idle, UserRec, Worker
<1> QED
  BY <1>1, <1>2, <1>3, <1>4 DEF UserRec

\* What a channel holds after each of the three things done to it.
LEMMA SentType ==
  ASSUME TypeOK, NEW a \in Attr, NEW m \in Message, Send(a, m)
  PROVE  /\ q' \in [Attr -> Seq(Message)]
         /\ \A b \in Attr : b # a => q'[b] = q[b]
         /\ Len(q'[a]) = Len(q[a]) + 1 /\ q'[a][Len(q[a]) + 1] = m
         /\ \A i \in DOMAIN q[a] : q'[a][i] = q[a][i]
         /\ DOMAIN q[a] = 1 .. Len(q[a]) /\ DOMAIN q'[a] = 1 .. Len(q[a]) + 1
         /\ Len(q[a]) \in Nat
  BY DEF TypeOK, Send

LEMMA TakenType ==
  ASSUME TypeOK, NEW a \in Attr, q[a] # <<>>, q' = [q EXCEPT ![a] = Tail(@)]
  PROVE  /\ q' \in [Attr -> Seq(Message)] /\ Head(q[a]) \in Message
         /\ \A b \in Attr : b # a => q'[b] = q[b]
         /\ Head(q[a]) = q[a][1]
         /\ DOMAIN q'[a] = 1 .. Len(q[a]) - 1
         /\ \A i \in DOMAIN q'[a] : q'[a][i] = q[a][i + 1] /\ i + 1 \in DOMAIN q[a]
  BY DEF TypeOK

LEMMA DroppedType ==
  ASSUME TypeOK, NEW r \in User \cup {App}, DropReceiver(r)
  PROVE  /\ q' \in [Attr -> Seq(Message)]
         /\ \A a \in Attr : DOMAIN q'[a] = DOMAIN q[a]
         /\ \A a \in Attr : \A i \in DOMAIN q[a] :
              /\ q'[a][i].kind = q[a][i].kind
              /\ q'[a][i].from = IF q[a][i].from = r THEN "gone" ELSE q[a][i].from
<1>1. ASSUME NEW a \in Attr
      PROVE  /\ Orphaned(q[a], r) \in Seq(Message)
             /\ DOMAIN Orphaned(q[a], r) = DOMAIN q[a]
             /\ \A i \in DOMAIN q[a] :
                  /\ Orphaned(q[a], r)[i].kind = q[a][i].kind
                  /\ Orphaned(q[a], r)[i].from
                       = IF q[a][i].from = r THEN "gone" ELSE q[a][i].from
  <2>1. q[a] \in Seq(Message) /\ DOMAIN q[a] = 1 .. Len(q[a]) /\ Len(q[a]) \in Nat
    BY DEF TypeOK
  <2>2. \A i \in DOMAIN q[a] : q[a][i] \in Message
    BY <2>1
  <2>3. ASSUME NEW i \in DOMAIN q[a]
        PROVE  /\ Orphaned(q[a], r)[i] \in Message
               /\ Orphaned(q[a], r)[i].kind = q[a][i].kind
               /\ Orphaned(q[a], r)[i].from
                    = IF q[a][i].from = r THEN "gone" ELSE q[a][i].from
    BY <2>2, <2>3, q[a][i] \in Message DEF Orphaned, Message, App
  <2>4. DOMAIN Orphaned(q[a], r) = 1 .. Len(q[a])
    BY <2>1 DEF Orphaned
  <2>5. Orphaned(q[a], r) \in [1 .. Len(q[a]) -> Message]
    BY <2>1, <2>3 DEF Orphaned
  <2>6. Orphaned(q[a], r) \in Seq(Message)
    BY <2>1, <2>5
  <2> QED
    BY <2>1, <2>3, <2>4, <2>6
<1> QED
  BY <1>1 DEF DropReceiver

------------------------------------------------------------------------------
LEMMA InitIInv == Init => IInv
<1>1. <<>> \in Seq(Message) /\ DOMAIN <<>> = {}
  OBVIOUS
<1>2. Init => TypeOK
  <2>1. Idle \in UserRec
    BY DEF Idle, UserRec, Worker
  <2>2. Init => q \in [Attr -> Seq(Message)]
    BY <1>1 DEF Init
  <2>3. Init => user \in [User -> UserRec]
    BY <2>1 DEF Init
  <2>4. Init => calls \in [waiting : Seq(AppCall), left : Nat]
    BY BoundType DEF Init
  <2>5. Init => obj \in [Attr -> {"none", "send", "wait", "got"}]
    BY DEF Init, NoObj
  <2> QED
    BY <2>2, <2>3, <2>4, <2>5 DEF Init, TypeOK, UserRec
<1>3. Init => Stages
  BY DEF Init, Stages, NoUsers, Worker, Fate
<1>4. Init => AskedOnce /\ UnregIsLast /\ TellsApplied
  BY <1>1 DEF Init, AskedOnce, UnregIsLast, TellsApplied
<1> QED
  BY <1>2, <1>3, <1>4 DEF IInv

LEMMA UserIInv ==
  ASSUME IInv, NEW u \in User,
         \/ \E a \in Attr, k \in {"tell", "ask", "handle"} : UserCall(u, a, k)
         \/ UserStep(u) \/ UserClosed(u) \/ UserCancel(u)
  PROVE  IInv'
<1>1. CASE \E a \in Attr, k \in {"tell", "ask", "handle"} : UserCall(u, a, k)
  BY <1>1 DEF UserCall, appVars, unregVars, IInv, TypeOK, Stages, AskedOnce, UnregIsLast,
       TellsApplied, OnlyObj, NoUsers, Idle, Worker, Fate
<1>2. CASE UserSend(u)
  <2>0. PICK a, k : a = user[u].to /\ k = user[u].kind
    OBVIOUS
  <2> DEFINE m == [kind |-> k, from |-> IF k = "tell" THEN "none" ELSE u]
  <2>1. a \in Attr /\ m \in Message /\ user[u] # Idle /\ held = "held"
    <3>1. user[u] # Idle
      BY <1>2 DEF UserSend, Idle
    <3>2. a \in Attr /\ k \in Methods(a) /\ held = "held"
      BY <2>0, <3>1 DEF IInv, Stages, NoUsers, TypeOK
    <3> QED
      BY <3>1, <3>2 DEF Message, Methods
  <2>2. Send(a, m)
    BY <1>2, <2>0 DEF UserSend
  <2>3. /\ q' \in [Attr -> Seq(Message)]
        /\ \A b \in Attr : b # a => q'[b] = q[b]
        /\ Len(q'[a]) = Len(q[a]) + 1 /\ q'[a][Len(q[a]) + 1] = m
        /\ \A i \in DOMAIN q[a] : q'[a][i] = q[a][i]
        /\ DOMAIN q[a] = 1 .. Len(q[a]) /\ DOMAIN q'[a] = 1 .. Len(q[a]) + 1
        /\ Len(q[a]) \in Nat
    BY <2>1, <2>2, SentType DEF IInv
  <2>a. PICK x \in UserRec :
          /\ user' = [user EXCEPT ![u] = x]
          /\ IF k = "tell" THEN x = Idle ELSE x.st = "wait" /\ x.to = a /\ x.kind = k
    BY <1>2, <2>0, UserRecType DEF UserSend, IInv
  <2>b. user \in [User -> UserRec]
    BY UserRecType DEF IInv
  <2>4. TypeOK'
    <3>1. user' \in [User -> UserRec]
      BY <2>a, <2>b
    <3> QED
      BY <1>2, <2>3, <3>1 DEF UserSend, appVars, unregVars, IInv, TypeOK, UserRec
  <2>5. Stages'
    BY <1>2, <2>1, <2>a, <2>b
    DEF UserSend, appVars, unregVars, IInv, Stages, NoUsers, Fate
  <2>6. AskedOnce'
    <3>1. user[u].st = "send" /\ \A v \in User : v # u => user'[v] = user[v]
      BY <1>2, <2>a, <2>b DEF UserSend
    <3>2. ASSUME NEW b \in Attr, NEW i \in DOMAIN q[b]
          PROVE  q[b][i].from # u
      BY <3>1 DEF IInv, AskedOnce
    <3> SUFFICES ASSUME NEW b \in Attr, NEW i \in DOMAIN q'[b], q'[b][i].from \in User
                 PROVE  /\ user'[q'[b][i].from].st = "wait"
                        /\ user'[q'[b][i].from].to = b
                        /\ \A j \in DOMAIN q'[b] : q'[b][j].from = q'[b][i].from => j = i
      BY DEF AskedOnce
    <3>3. CASE b # a
      <4>1. q'[b] = q[b]
        BY <2>3, <3>3
      <4> QED
        BY <3>1, <3>2, <4>1 DEF IInv, AskedOnce
    <3>4. CASE b = a /\ i = Len(q[a]) + 1
      <4>1. q'[b][i].from = u /\ k # "tell" /\ user'[u].st = "wait" /\ user'[u].to = a
        BY <2>3, <2>a, <2>b, <3>4
      <4>2. ASSUME NEW j \in DOMAIN q'[a], q'[a][j].from = u PROVE j = i
        <5>1. CASE j \in DOMAIN q[a]
          BY <2>1, <2>3, <3>2, <4>2, <5>1
        <5> QED
          BY <2>3, <3>4, <5>1
      <4> QED
        BY <3>4, <4>1, <4>2
    <3>5. CASE b = a /\ i \in DOMAIN q[a]
      <4>1. q'[a][i] = q[a][i] /\ q[a][i].from # u
        BY <2>3, <3>2, <3>5
      <4>2. user'[q[a][i].from] = user[q[a][i].from]
        BY <3>1, <3>5, <4>1
      <4>3. ASSUME NEW j \in DOMAIN q'[a], q'[a][j].from = q[a][i].from PROVE j = i
        <5>1. CASE j \in DOMAIN q[a]
          BY <2>3, <3>5, <4>1, <4>3, <5>1 DEF IInv, AskedOnce
        <5>2. CASE j = Len(q[a]) + 1
          BY <2>3, <3>5, <4>1, <4>3, <5>2
        <5> QED
          BY <2>3, <5>1, <5>2
      <4> QED
        BY <3>5, <4>1, <4>2, <4>3 DEF IInv, AskedOnce
    <3> QED
      BY <2>3, <3>3, <3>4, <3>5
  <2>7. UnregIsLast' /\ TellsApplied'
    <3>1. leave' = leave /\ st' = st /\ st[a] = "run"
      BY <1>2, <2>0 DEF UserSend, unregVars, Room
    <3>2. leave[a] = "none"
      BY <2>1 DEF IInv, TypeOK, Stages, Worker
    <3>3. \A i \in DOMAIN q'[a] : q'[a][i].kind # "unreg"
      <4>1. \A i \in DOMAIN q[a] : q[a][i].kind # "unreg"
        BY <2>1, <3>2 DEF IInv, UnregIsLast
      <4>2. k # "unreg"
        BY <2>0, <2>1 DEF IInv, Stages, Methods
      <4> QED
        BY <2>3, <4>1, <4>2
    <3>4. UnregIsLast'
      <4>1. ASSUME NEW b \in Attr, b # a PROVE q'[b] = q[b]
        BY <2>3, <4>1
      <4>2. ASSUME NEW b \in Attr
            PROVE  /\ \A i, j \in DOMAIN q'[b] :
                        i < j /\ q'[b][i].kind = "unreg" => q'[b][j].kind = "obj"
                   /\ (\E i \in DOMAIN q'[b] : q'[b][i].kind = "unreg")
                        => leave'[b] \in {"join", "done"}
        <5>1. CASE b = a
          BY <3>3, <5>1
        <5>2. CASE b # a
          BY <3>1, <4>1, <5>2 DEF IInv, UnregIsLast
        <5> QED
          BY <5>1, <5>2
      <4> QED
        BY <4>2 DEF UnregIsLast
    <3>5. TellsApplied'
      BY <2>3, <3>1 DEF IInv, TellsApplied
    <3> QED
      BY <3>4, <3>5
  <2> QED
    BY <2>4, <2>5, <2>6, <2>7 DEF IInv
<1>3. CASE UserError(u)
  BY <1>3 DEF UserError, appVars, unregVars, IInv, TypeOK, Stages, AskedOnce, UnregIsLast,
       TellsApplied, OnlyObj, NoUsers, Idle, Worker, Fate
<1>4. CASE UserClosed(u)
  BY <1>4 DEF UserClosed, appVars, unregVars, IInv, TypeOK, Stages, AskedOnce, UnregIsLast,
       TellsApplied, OnlyObj, NoUsers, Idle, Worker, Fate
<1>5. CASE UserCancel(u)
  <2>1. /\ q' \in [Attr -> Seq(Message)]
        /\ \A a \in Attr : DOMAIN q'[a] = DOMAIN q[a]
        /\ \A a \in Attr : \A i \in DOMAIN q[a] :
              /\ q'[a][i].kind = q[a][i].kind
              /\ q'[a][i].from = IF q[a][i].from = u THEN "gone" ELSE q[a][i].from
    BY <1>5, DroppedType DEF UserCancel, IInv
  <2>2. TypeOK' /\ Stages'
    BY <1>5, <2>1 DEF UserCancel, appVars, unregVars, IInv, TypeOK, Stages, NoUsers, Idle,
         Worker, Fate
  <2>3. AskedOnce'
    <3>1. \A v \in User : v # u => user'[v] = user[v]
      BY <1>5 DEF UserCancel, IInv, TypeOK
    <3>2. "gone" \notin User
      OBVIOUS
    <3>3. ASSUME NEW a \in Attr, NEW i \in DOMAIN q'[a], q'[a][i].from \in User
          PROVE  i \in DOMAIN q[a] /\ q'[a][i].from = q[a][i].from /\ q[a][i].from # u
      BY <2>1, <3>2, <3>3
    <3>4. ASSUME NEW a \in Attr, NEW i \in DOMAIN q'[a], q'[a][i].from \in User,
                 NEW j \in DOMAIN q'[a], q'[a][j].from = q'[a][i].from
          PROVE  j = i
      BY <3>3, <3>4 DEF IInv, AskedOnce
    <3> QED
      BY <3>1, <3>3, <3>4 DEF IInv, AskedOnce
  <2>4. UnregIsLast' /\ TellsApplied'
    BY <1>5, <2>1 DEF UserCancel, appVars, unregVars, IInv, UnregIsLast, TellsApplied, OnlyObj
  <2> QED
    BY <2>2, <2>3, <2>4 DEF IInv
<1> QED
  BY <1>1, <1>2, <1>3, <1>4, <1>5 DEF UserStep

LEMMA AttrIInv ==
  ASSUME IInv, NEW a \in Attr, AttrStep(a) \/ WorkerFails(a)
  PROVE  IInv'
<1> DEFINE Taken == /\ q' \in [Attr -> Seq(Message)] /\ Head(q[a]) \in Message
                    /\ \A b \in Attr : b # a => q'[b] = q[b]
                    /\ Head(q[a]) = q[a][1]
                    /\ DOMAIN q'[a] = 1 .. Len(q[a]) - 1
                    /\ \A i \in DOMAIN q'[a] : q'[a][i] = q[a][i + 1] /\ i + 1 \in DOMAIN q[a]
                    /\ 1 \in DOMAIN q[a]
<1>1. ASSUME q[a] # <<>>, q' = [q EXCEPT ![a] = Tail(@)]
      PROVE  Taken
  <2>1. 1 \in DOMAIN q[a]
    BY <1>1 DEF IInv, TypeOK
  <2> QED
    BY <1>1, <2>1, TakenType DEF IInv
<1>2. ASSUME Taken, UNCHANGED leave, st[a] = "run",
             \A b \in Attr : b # a => st'[b] = st[b],
             st'[a] = "ended" => q[a][1].kind = "unreg"
      PROVE  UnregIsLast' /\ TellsApplied'
  <2>1. UnregIsLast'
    <3>1. ASSUME NEW i \in DOMAIN q'[a], NEW j \in DOMAIN q'[a], i < j,
                 q'[a][i].kind = "unreg"
          PROVE  q'[a][j].kind = "obj"
      <4>1. i + 1 < j + 1 /\ i + 1 \in DOMAIN q[a] /\ j + 1 \in DOMAIN q[a]
        BY <1>2, <3>1
      <4> QED
        BY <1>2, <3>1, <4>1 DEF IInv, UnregIsLast
    <3>2. ASSUME NEW i \in DOMAIN q'[a], q'[a][i].kind = "unreg"
          PROVE  leave[a] \in {"join", "done"}
      BY <1>2, <3>2 DEF IInv, UnregIsLast
    <3>3. ASSUME NEW b \in Attr, b # a
          PROVE  q'[b] = q[b]
      BY <1>2, <3>3
    <3>4. ASSUME NEW b \in Attr
          PROVE  /\ \A i, j \in DOMAIN q'[b] :
                      i < j /\ q'[b][i].kind = "unreg" => q'[b][j].kind = "obj"
                 /\ (\E i \in DOMAIN q'[b] : q'[b][i].kind = "unreg")
                      => leave'[b] \in {"join", "done"}
      <4>1. CASE b = a
        BY <1>2, <3>1, <3>2, <4>1
      <4>2. CASE b # a
        BY <1>2, <3>3, <4>2 DEF IInv, UnregIsLast
      <4> QED
        BY <4>1, <4>2
    <3> QED
      BY <3>4 DEF UnregIsLast
  <2>2. ASSUME st'[a] = "ended" PROVE leave[a] # "none" /\ OnlyObj(q'[a])
    <3>1. leave[a] # "none"
      BY <1>2, <2>2 DEF IInv, UnregIsLast
    <3>2. ASSUME NEW i \in DOMAIN q'[a] PROVE q'[a][i].kind = "obj"
      <4>1. 1 < i + 1 /\ i + 1 \in DOMAIN q[a]
        BY <1>2
      <4> QED
        BY <1>2, <2>2, <4>1 DEF IInv, UnregIsLast
    <3> QED
      BY <3>1, <3>2 DEF OnlyObj
  <2> QED
    BY <1>2, <2>1, <2>2 DEF IInv, TellsApplied
<1>3. ASSUME Taken, NEW s \in {"run", "ended", "err", "panic"},
             st[a] = "run", st' = [st EXCEPT ![a] = s],
             UNCHANGED <<app, appQ, calls, held, unreg, leave>>,
             \A r \in User :
               user'[r] # user[r] => r = Head(q[a]).from /\ user[r] # Idle
                                     /\ user'[r] \in {Idle, [user[r] EXCEPT !.st = "lost"]},
             DOMAIN user' = User, user' = [r \in User |-> user'[r]],
             obj' \in [Attr -> {"none", "send", "wait", "got"}]
      PROVE  TypeOK' /\ Stages' /\ AskedOnce'
  <2>1. user' \in [User -> UserRec]
    <3>1. ASSUME NEW r \in User
          PROVE  user'[r] \in UserRec
      BY ZenonT(60), <1>3, UserRecType DEF IInv
    <3> QED
      BY <1>3, <3>1
  <2>2. TypeOK'
    BY <1>3, <2>1 DEF IInv, TypeOK, UserRec
  <2>3. Stages'
    <3>1. NoUsers => NoUsers'
      BY <1>3 DEF NoUsers
    <3>2. ASSUME NEW r \in User, user'[r] # Idle
          PROVE  user'[r].to \in Attr /\ user'[r].kind \in Methods(user'[r].to)
      <4>1. user[r] # Idle /\ user'[r].to = user[r].to /\ user'[r].kind = user[r].kind
        BY ZenonT(60), <1>3, <3>2, UserRecType DEF IInv
      <4> QED
        BY <4>1 DEF IInv, Stages
    <3>3. \A w \in Worker : Fate(w) = "ended" => Fate(w)' = "ended"
      BY <1>3 DEF Fate, IInv, TypeOK, Worker
    <3> QED
      BY <1>3, <3>1, <3>2, <3>3 DEF IInv, Stages
  <2>4. AskedOnce'
    <3> SUFFICES ASSUME NEW b \in Attr, NEW i \in DOMAIN q'[b], q'[b][i].from \in User
                 PROVE  /\ user'[q'[b][i].from].st = "wait"
                        /\ user'[q'[b][i].from].to = b
                        /\ \A j \in DOMAIN q'[b] : q'[b][j].from = q'[b][i].from => j = i
      BY DEF AskedOnce
    <3>1. CASE b = a
      <4>1. i + 1 \in DOMAIN q[a] /\ q'[a][i] = q[a][i + 1] /\ i + 1 # 1
        BY <1>3, <3>1
      <4>2. q[a][i + 1].from # q[a][1].from
        BY <1>3, <3>1, <4>1 DEF IInv, AskedOnce
      <4>3. user'[q'[b][i].from] = user[q'[b][i].from]
        BY <1>3, <3>1, <4>1, <4>2
      <4>4. ASSUME NEW j \in DOMAIN q'[a], q'[a][j].from = q'[a][i].from PROVE j = i
        <5>1. j + 1 \in DOMAIN q[a] /\ q[a][j + 1].from = q[a][i + 1].from
          BY <1>3, <4>1, <4>4
        <5>2. j + 1 = i + 1
          BY <3>1, <4>1, <5>1 DEF IInv, AskedOnce
        <5> QED
          BY <1>3, <3>1, <5>2
      <4> QED
        BY <3>1, <4>1, <4>3, <4>4 DEF IInv, AskedOnce
    <3>2. CASE b # a
      <4>1. q'[b] = q[b]
        BY <1>3, <3>2
      <4>2. q[b][i].from # q[a][1].from
        <5>1. i \in DOMAIN q[b] /\ 1 \in DOMAIN q[a] /\ q[b][i].from \in User
          BY <1>3, <4>1
        <5>2. user[q[b][i].from].to = b
          BY <5>1 DEF IInv, AskedOnce
        <5>3. q[a][1].from \in User => user[q[a][1].from].to = a
          BY <5>1 DEF IInv, AskedOnce
        <5> QED
          BY <3>2, <5>1, <5>2, <5>3
      <4>3. user'[q[b][i].from] = user[q[b][i].from]
        BY <1>3, <4>1, <4>2
      <4> QED
        BY <4>1, <4>3 DEF IInv, AskedOnce
    <3> QED
      BY <3>1, <3>2
  <2> QED
    BY <2>2, <2>3, <2>4
<1>4. CASE TakeUnregister(a)
  BY <1>4, <1>1, <1>2, <1>3 DEF TakeUnregister, appVars, unregVars, IInv, TypeOK
<1>5. CASE TakeTell(a)
  <2>1. st' = [st EXCEPT ![a] = "run"]
    BY <1>5 DEF TakeTell, IInv, TypeOK
  <2> QED
    BY <1>5, <2>1, <1>1, <1>2, <1>3 DEF TakeTell, appVars, unregVars, IInv, TypeOK
<1>6. CASE TakeRequest(a)
  <2> DEFINE m == Head(q[a])
  <2>1. Taken /\ st[a] = "run" /\ UNCHANGED <<app, appQ, calls, held, unreg, leave>>
    BY <1>6, <1>1 DEF TakeRequest, unregVars
  <2>2. ASSUME m.from \in User PROVE user[m.from] # Idle
    BY <2>1, <2>2 DEF IInv, AskedOnce, Idle
  <2>3. CASE Lose(m.from) /\ st' = [st EXCEPT ![a] = "panic"]
    <3>1. obj' \in [Attr -> {"none", "send", "wait", "got"}]
      BY <2>3 DEF Lose, IInv, TypeOK
    <3>2. /\ DOMAIN user' = User /\ user' = [r \in User |-> user'[r]]
          /\ \A r \in User : user'[r] # user[r] =>
               r = m.from /\ user[r] # Idle /\ user'[r] \in {[user[r] EXCEPT !.st = "lost"]}
      BY <2>2, <2>3 DEF Lose, IInv, TypeOK
    <3> QED
      BY <2>1, <2>3, <3>1, <3>2, <1>2, <1>3 DEF IInv
  <2>4. CASE AnswerTo(m.from, a)
             /\ st' = [st EXCEPT ![a] = IF Tolerates(a, m.from) THEN @ ELSE "err"]
    <3>1. PICK s \in {"run", "err"} : st' = [st EXCEPT ![a] = s]
      BY <2>1, <2>4
    <3>2. obj' \in [Attr -> {"none", "send", "wait", "got"}]
      BY <2>4 DEF AnswerTo, IInv, TypeOK
    <3>3. /\ DOMAIN user' = User /\ user' = [r \in User |-> user'[r]]
          /\ \A r \in User : user'[r] # user[r] =>
               r = m.from /\ user[r] # Idle /\ user'[r] \in {Idle}
      BY <2>2, <2>4 DEF AnswerTo, IInv, TypeOK
    <3>4. \A b \in Attr : b # a => st'[b] = st[b]
      BY <3>1 DEF IInv, TypeOK
    <3>5. st'[a] # "ended"
      BY <3>1 DEF IInv, TypeOK
    <3> QED
      BY <2>1, <3>1, <3>2, <3>3, <3>4, <3>5, <1>2, <1>3 DEF IInv
  <2> QED
    BY <1>6, <2>3, <2>4 DEF TakeRequest
<1>7. CASE TakeClosed(a) \/ WorkerFails(a)
  <2>1. /\ st[a] = "run" /\ st' = [st EXCEPT ![a] = "err"]
        /\ UNCHANGED <<q, app, appQ, obj, calls, user, held, unreg, leave>>
    BY <1>7 DEF TakeClosed, WorkerFails, appVars, unregVars
  <2>2. TypeOK'
    BY <2>1 DEF IInv, TypeOK
  <2>3. \A w \in Worker : Fate(w) = "ended" => Fate(w)' = "ended"
    BY <2>1 DEF Fate, IInv, TypeOK, Worker
  <2>4. Stages'
    BY <2>1, <2>3 DEF IInv, Stages, NoUsers
  <2>5. AskedOnce'
    BY <2>1 DEF IInv, AskedOnce
  <2>6. UnregIsLast'
    BY <2>1 DEF IInv, UnregIsLast
  <2>7. TellsApplied'
    <3>1. \A b \in Attr : st'[b] = "ended" => st[b] = "ended"
      BY <2>1 DEF IInv, TypeOK
    <3> QED
      BY <2>1, <3>1 DEF IInv, TellsApplied
  <2> QED
    BY <2>2, <2>4, <2>5, <2>6, <2>7 DEF IInv
<1> QED
  BY <1>4, <1>5, <1>6, <1>7 DEF AttrStep

LEMMA AppIInv ==
  ASSUME IInv, (\E c \in AppCall : BluezCall(c)) \/ AppStep
  PROVE  IInv'
<1> DEFINE Called == \E c \in AppCall : BluezCall(c)
<1>1. CASE Called \/ UnservedCall \/ ObjMgrStart \/ ObjMgrDone \/ AppUnregister \/ AppOrphaned
  <2>1. /\ UNCHANGED <<q, st, user, held, unreg, leave>>
        /\ app' # app => app \in {"idle", "objmgr"}
    BY <1>1 DEF BluezCall, UnservedCall, NextCall, ObjMgrStart, ObjMgrDone,
         AppUnregister, AppOrphaned, unregVars
  <2>2. TypeOK'
    <3>1. calls' \in [waiting : Seq(AppCall), left : Nat]
      <4>1. calls \in [waiting : Seq(AppCall), left : Nat]
        BY DEF IInv, TypeOK
      <4>2. ASSUME NEW c \in AppCall, BluezCall(c)
            PROVE  calls' \in [waiting : Seq(AppCall), left : Nat]
        <5>1. Append(calls.waiting, c) \in Seq(AppCall) /\ calls.left - 1 \in Nat
          BY <4>1, <4>2 DEF BluezCall
        <5> QED
          BY <4>2, <5>1 DEF BluezCall
      <4>3. CASE ObjMgrStart
        <5>1. Tail(calls.waiting) \in Seq(AppCall)
          BY <4>1, <4>3 DEF ObjMgrStart, NextCall
        <5> QED
          BY <4>1, <4>3, <5>1 DEF ObjMgrStart
      <4> QED
        BY <1>1, <4>1, <4>2, <4>3 DEF UnservedCall, ObjMgrDone, AppUnregister, AppOrphaned
    <3>2. /\ app' \in {"idle", "objmgr", "ended", "err", "panic"} /\ appQ' \in BOOLEAN
          /\ obj' \in [Attr -> {"none", "send", "wait", "got"}]
      <4>1. appQ' \in BOOLEAN
        BY <1>1 DEF BluezCall, UnservedCall, ObjMgrStart, ObjMgrDone, AppUnregister,
             AppOrphaned, IInv, TypeOK
      <4>2. app' \in {"idle", "objmgr", "ended", "err", "panic"}
        BY <1>1 DEF BluezCall, UnservedCall, ObjMgrStart, ObjMgrDone, AppUnregister,
             AppOrphaned, IInv, TypeOK
      <4>3. obj' \in [Attr -> {"none", "send", "wait", "got"}]
        BY <1>1 DEF BluezCall, UnservedCall, ObjMgrStart, ObjMgrDone, AppUnregister,
             AppOrphaned, IInv, TypeOK, NoObj
      <4> QED
        BY <4>1, <4>2, <4>3
    <3> QED
      BY <2>1, <3>1, <3>2 DEF IInv, TypeOK
  <2>3. Stages'
    BY <2>1 DEF IInv, Stages, NoUsers, Fate
  <2>4. AskedOnce' /\ UnregIsLast' /\ TellsApplied'
    BY <2>1 DEF IInv, AskedOnce, UnregIsLast, TellsApplied
  <2> QED
    BY <2>2, <2>3, <2>4 DEF IInv
<1>2. ASSUME NEW a \in Attr, ObjMgrSend(a) PROVE IInv'
  <2> DEFINE m == [kind |-> "obj", from |-> App]
  <2>1. m \in Message /\ Send(a, m) /\ m.from \notin User /\ m.kind = "obj"
    BY <1>2 DEF ObjMgrSend, Message
  <2>2. /\ q' \in [Attr -> Seq(Message)]
        /\ \A b \in Attr : b # a => q'[b] = q[b]
        /\ Len(q'[a]) = Len(q[a]) + 1 /\ q'[a][Len(q[a]) + 1] = m
        /\ \A i \in DOMAIN q[a] : q'[a][i] = q[a][i]
        /\ DOMAIN q[a] = 1 .. Len(q[a]) /\ DOMAIN q'[a] = 1 .. Len(q[a]) + 1
        /\ Len(q[a]) \in Nat
    BY <2>1, SentType DEF IInv
  <2>3. UNCHANGED <<st, app, appQ, calls, user, held, unreg, leave>> /\ st[a] = "run"
    BY <1>2 DEF ObjMgrSend, unregVars, Room
  <2>4. TypeOK' /\ Stages'
    BY ZenonT(60), <1>2, <2>2, <2>3 DEF ObjMgrSend, IInv, TypeOK, Stages, NoUsers, Fate
  <2> HIDE DEF m
  <2>5. ASSUME NEW b \in Attr
        PROVE  /\ \A i \in DOMAIN q'[b] : q'[b][i].from \in User =>
                    i \in DOMAIN q[b] /\ q'[b][i] = q[b][i]
               /\ \A i \in DOMAIN q'[b] : q'[b][i].kind # "obj" =>
                    i \in DOMAIN q[b] /\ q'[b][i] = q[b][i]
    <3>1. CASE b = a
      BY <2>1, <2>2, <3>1
    <3>2. CASE b # a
      BY <2>2, <3>2
    <3> QED
      BY <3>1, <3>2
  <2>6. AskedOnce'
    <3>1. ASSUME NEW b \in Attr, NEW i \in DOMAIN q'[b], q'[b][i].from \in User
          PROVE  /\ user[q'[b][i].from].st = "wait" /\ user[q'[b][i].from].to = b
                 /\ \A j \in DOMAIN q'[b] : q'[b][j].from = q'[b][i].from => j = i
      BY <2>5, <3>1 DEF IInv, AskedOnce
    <3> QED
      BY <2>3, <3>1 DEF AskedOnce
  <2>7. UnregIsLast'
    <3>1. ASSUME NEW b \in Attr, NEW i \in DOMAIN q'[b], q'[b][i].kind = "unreg"
          PROVE  /\ leave[b] \in {"join", "done"}
                 /\ \A j \in DOMAIN q'[b] : i < j => q'[b][j].kind = "obj"
      BY <2>5, <3>1 DEF IInv, UnregIsLast
    <3> QED
      BY <2>3, <3>1 DEF UnregIsLast
  <2>8. TellsApplied'
    BY <2>3, <2>5 DEF IInv, TellsApplied, OnlyObj
  <2> QED
    BY <2>4, <2>6, <2>7, <2>8 DEF IInv
<1>3. ASSUME NEW a \in Attr, ObjMgrFail(a) PROVE IInv'
  <2>1. /\ q' \in [Attr -> Seq(Message)]
        /\ \A b \in Attr : DOMAIN q'[b] = DOMAIN q[b]
        /\ \A b \in Attr : \A i \in DOMAIN q[b] :
              /\ q'[b][i].kind = q[b][i].kind
              /\ q'[b][i].from = IF q[b][i].from = App THEN "gone" ELSE q[b][i].from
    BY <1>3, DroppedType DEF ObjMgrFail, IInv
  <2>2. UNCHANGED <<st, user, held, unreg, leave>> /\ app = "objmgr"
    BY <1>3 DEF ObjMgrFail, unregVars
  <2>3. TypeOK'
    BY <1>3, <2>1 DEF ObjMgrFail, unregVars, NoObj, IInv, TypeOK
  <2>4. Stages'
    BY <2>2 DEF IInv, Stages, NoUsers, Fate
  <2>5. AskedOnce'
    <3>1. ASSUME NEW b \in Attr, NEW i \in DOMAIN q'[b], q'[b][i].from \in User
          PROVE  /\ i \in DOMAIN q[b] /\ q'[b][i].from = q[b][i].from
                 /\ q[b][i].from \in User
      BY <2>1, <3>1
    <3>2. ASSUME NEW b \in Attr, NEW i \in DOMAIN q'[b], q'[b][i].from \in User
          PROVE  /\ user[q'[b][i].from].st = "wait" /\ user[q'[b][i].from].to = b
                 /\ \A j \in DOMAIN q'[b] : q'[b][j].from = q'[b][i].from => j = i
      BY <3>1, <3>2 DEF IInv, AskedOnce
    <3> QED
      BY <2>2, <3>2 DEF AskedOnce
  <2>6. UnregIsLast'
    <3>1. ASSUME NEW b \in Attr
          PROVE  /\ \A i, j \in DOMAIN q'[b] :
                      i < j /\ q'[b][i].kind = "unreg" => q'[b][j].kind = "obj"
                 /\ (\E i \in DOMAIN q'[b] : q'[b][i].kind = "unreg")
                      => leave[b] \in {"join", "done"}
      <4>1. DOMAIN q'[b] = DOMAIN q[b] /\ \A i \in DOMAIN q[b] : q'[b][i].kind = q[b][i].kind
        BY <2>1
      <4> QED
        BY <4>1 DEF IInv, UnregIsLast
    <3> QED
      BY <2>2, <3>1 DEF UnregIsLast
  <2>7. TellsApplied'
    BY <2>1, <2>2 DEF IInv, TellsApplied, OnlyObj
  <2> QED
    BY <2>3, <2>4, <2>5, <2>6, <2>7 DEF IInv
<1> QED
  BY <1>1, <1>2, <1>3 DEF AppStep

LEMMA LeaveIInv ==
  ASSUME IInv, Unregister \/ LeaveStep \/ DropHandle
  PROVE  IInv'
<1>1. CASE Unregister
  <2>1. /\ UNCHANGED <<q, st, app, appQ, obj, calls, user>>
        /\ leave' = [w \in Worker |-> "send"] /\ held = "held" /\ NoUsers
        /\ held' = "consumed" /\ unreg' = "run"
    BY <1>1 DEF Unregister, appVars
  <2>2. \A w \in Worker : leave[w] = "none"
    BY <2>1 DEF IInv, TypeOK, Stages
  <2>3. TypeOK'
    BY <2>1 DEF IInv, TypeOK
  <2>4. Stages'
    BY <2>1 DEF IInv, Stages, NoUsers
  <2>5. \A a \in Attr : leave[a] = "none"
    BY <2>2 DEF Worker
  <2>6. AskedOnce' /\ UnregIsLast' /\ TellsApplied'
    BY <2>1, <2>5 DEF IInv, AskedOnce, UnregIsLast, TellsApplied
  <2> QED
    BY <2>3, <2>4, <2>6 DEF IInv
<1>2. ASSUME NEW a \in Attr, LeaveSend(a) PROVE IInv'
  <2> DEFINE m == [kind |-> "unreg", from |-> "none"]
  <2>1. m \in Message /\ Send(a, m) /\ m.from \notin User /\ m.kind = "unreg"
    BY <1>2 DEF LeaveSend, Message
  <2>2. /\ q' \in [Attr -> Seq(Message)]
        /\ \A b \in Attr : b # a => q'[b] = q[b]
        /\ Len(q'[a]) = Len(q[a]) + 1 /\ q'[a][Len(q[a]) + 1] = m
        /\ \A i \in DOMAIN q[a] : q'[a][i] = q[a][i]
        /\ DOMAIN q[a] = 1 .. Len(q[a]) /\ DOMAIN q'[a] = 1 .. Len(q[a]) + 1
        /\ Len(q[a]) \in Nat
    BY <2>1, SentType DEF IInv
  <2>3. /\ UNCHANGED <<st, app, appQ, obj, calls, user, held, unreg>> /\ st[a] = "run"
        /\ leave[a] = "send" /\ leave' = [leave EXCEPT ![a] = "join"] /\ unreg = "run"
    BY <1>2 DEF LeaveSend, appVars, Room
  <2>4. TypeOK'
    BY <2>2, <2>3 DEF IInv, TypeOK
  <2>5. /\ leave'[a] = "join" /\ \A w \in Worker : w # a => leave'[w] = leave[w]
        /\ a \in Worker
    BY <2>3 DEF IInv, TypeOK, Worker
  <2>6. Stages'
    BY <2>3, <2>5 DEF IInv, Stages, NoUsers, Fate
  <2> HIDE DEF m
  <2>7. ASSUME NEW b \in Attr
        PROVE  \A i \in DOMAIN q'[b] : q'[b][i].from \in User =>
                    i \in DOMAIN q[b] /\ q'[b][i] = q[b][i]
    <3>1. CASE b = a
      BY SMTT(30), <2>1, <2>2, <3>1
    <3>2. CASE b # a
      BY <2>2, <3>2
    <3> QED
      BY <3>1, <3>2
  <2>8. AskedOnce'
    <3>1. ASSUME NEW b \in Attr, NEW i \in DOMAIN q'[b], q'[b][i].from \in User
          PROVE  /\ user[q'[b][i].from].st = "wait" /\ user[q'[b][i].from].to = b
                 /\ \A j \in DOMAIN q'[b] : q'[b][j].from = q'[b][i].from => j = i
      BY <2>7, <3>1 DEF IInv, AskedOnce
    <3> QED
      BY <2>3, <3>1 DEF AskedOnce
  <2>9. UnregIsLast'
    <3>1. \A i \in DOMAIN q[a] : q[a][i].kind # "unreg"
      BY <2>3 DEF IInv, UnregIsLast
    <3>2. ASSUME NEW b \in Attr
          PROVE  /\ \A i, j \in DOMAIN q'[b] :
                      i < j /\ q'[b][i].kind = "unreg" => q'[b][j].kind = "obj"
                 /\ (\E i \in DOMAIN q'[b] : q'[b][i].kind = "unreg")
                      => leave'[b] \in {"join", "done"}
      <4>1. CASE b = a
        <5>1. \A i \in DOMAIN q'[a] : q'[a][i].kind = "unreg" => i = Len(q[a]) + 1
          BY <2>2, <3>1
        <5> QED
          BY <2>2, <2>5, <4>1, <5>1
      <4>2. CASE b # a
        <5>1. q'[b] = q[b] /\ leave'[b] = leave[b]
          BY <2>2, <2>5, <4>2 DEF Worker
        <5> QED
          BY <5>1 DEF IInv, UnregIsLast
      <4> QED
        BY <4>1, <4>2
    <3> QED
      BY <3>2 DEF UnregIsLast
  <2>10. TellsApplied'
    <3>1. ASSUME NEW b \in Attr, st[b] = "ended"
          PROVE  q'[b] = q[b] /\ leave'[b] = leave[b]
      BY <2>2, <2>3, <2>5, <3>1 DEF Worker
    <3> QED
      BY <2>3, <3>1 DEF IInv, TellsApplied
  <2> QED
    BY <2>4, <2>6, <2>8, <2>9, <2>10 DEF IInv
<1>3. ASSUME NEW w \in Worker, LeaveJoin(w) PROVE IInv'
  <2>1. /\ UNCHANGED <<q, st, app, appQ, obj, calls, user, held, unreg>>
        /\ leave[w] = "join" /\ leave' = [leave EXCEPT ![w] = "done"] /\ unreg = "run"
        /\ Fate(w) = "ended"
    BY <1>3 DEF LeaveJoin, appVars
  <2>2. TypeOK'
    BY <2>1 DEF IInv, TypeOK
  <2>3. leave'[w] = "done" /\ \A x \in Worker : x # w => leave'[x] = leave[x]
    BY <2>1 DEF IInv, TypeOK
  <2>4. Stages'
    BY <2>1, <2>3 DEF IInv, Stages, NoUsers, Fate
  <2>5. AskedOnce' /\ UnregIsLast'
    BY <2>1, <2>3 DEF IInv, AskedOnce, UnregIsLast, Worker
  <2>6. TellsApplied'
    BY <2>1, <2>3 DEF IInv, TellsApplied, Worker
  <2> QED
    BY <2>2, <2>4, <2>5, <2>6 DEF IInv
<1>4. CASE LeaveSendApp
  <2>1. /\ UNCHANGED <<q, st, app, obj, calls, user, held, unreg>> /\ appQ' = TRUE
        /\ leave[App] = "send" /\ leave' = [leave EXCEPT ![App] = "join"] /\ unreg = "run"
    BY <1>4 DEF LeaveSendApp
  <2>2. TypeOK'
    BY <2>1 DEF IInv, TypeOK
  <2>3. /\ App \in Worker /\ leave'[App] = "join"
        /\ \A x \in Worker : x # App => leave'[x] = leave[x]
        /\ \A a \in Attr : leave'[a] = leave[a]
    BY <2>1 DEF IInv, TypeOK, Worker
  <2>4. Stages'
    BY <2>1, <2>3 DEF IInv, Stages, NoUsers, Fate
  <2>5. AskedOnce' /\ UnregIsLast' /\ TellsApplied'
    BY <2>1, <2>3 DEF IInv, AskedOnce, UnregIsLast, TellsApplied
  <2> QED
    BY <2>2, <2>4, <2>5 DEF IInv
<1>5. CASE LeaveDone \/ DropHandle \/ \E w \in Worker : LeaveFail(w)
  <2>1. UNCHANGED <<q, st, app, appQ, obj, calls, user, leave>>
    BY <1>5 DEF LeaveDone, DropHandle, LeaveFail, appVars
  <2>2. CASE LeaveDone
    BY <2>1, <2>2 DEF LeaveDone, IInv, TypeOK, Stages, AskedOnce, UnregIsLast, TellsApplied,
         NoUsers, Fate
  <2>3. CASE DropHandle
    BY <2>1, <2>3 DEF DropHandle, IInv, TypeOK, Stages, AskedOnce, UnregIsLast, TellsApplied,
         NoUsers, Fate
  <2>4. ASSUME NEW w \in Worker, LeaveFail(w) PROVE IInv'
    <3>1. unreg = "run" /\ unreg' \in {"err", "panic"} /\ held' = held
      BY <2>4 DEF LeaveFail, Fate
    <3> QED
      BY <2>1, <3>1 DEF IInv, TypeOK, Stages, AskedOnce, UnregIsLast, TellsApplied,
           NoUsers, Fate
  <2> QED
    BY <1>5, <2>2, <2>3, <2>4
<1> QED
  BY <1>1, <1>2, <1>3, <1>4, <1>5 DEF LeaveStep

LEMMA NextIInv == IInv /\ [Next]_vars => IInv'
<1>1. ASSUME IInv, UNCHANGED vars PROVE IInv'
  BY <1>1 DEF vars, IInv, TypeOK, Stages, AskedOnce, UnregIsLast, TellsApplied, OnlyObj,
       NoUsers, Fate
<1> QED
  BY <1>1, UserIInv, AttrIInv, AppIInv, LeaveIInv DEF Next, NewWork

\* The inductive invariant of the application, for every set of attributes.
THEOREM AppInv == Spec => []IInv
<1> QED
  BY InitIInv, NextIInv, PTL DEF Spec

\* What a worker's channel accepted before Unregister is handled before the
\* worker stops.
THEOREM AcceptedIsApplied == Spec => []TellsApplied
<1>1. IInv => TellsApplied
  BY DEF IInv
<1> QED
  BY <1>1, AppInv, PTL

\* unregister returns Ok only after every worker returned its part.
THEOREM UnregisterIsComplete == Spec => []JoinedIsComplete
<1>1. IInv => JoinedIsComplete
  BY DEF IInv, Stages, JoinedIsComplete
<1> QED
  BY <1>1, AppInv, PTL

\* Nobody can reach a channel again once the AppWorker and the app worker are
\* gone, and a worker that stopped stays stopped.
LEMMA GoneForGood ==
  ASSUME IInv, [Next]_vars
  PROVE  /\ ~HandleLive => ~HandleLive'
         /\ ~AppLive => ~AppLive'
         /\ \A a \in Attr : st[a] # "run" => st'[a] = st[a]
         /\ app' \in {"err", "panic"} /\ ~AppLive => app' = app
<1> DEFINE P == /\ ~HandleLive => ~HandleLive'
                /\ ~AppLive => ~AppLive'
                /\ \A a \in Attr : st[a] # "run" => st'[a] = st[a]
                /\ app' \in {"err", "panic"} /\ ~AppLive => app' = app
<1>1. ASSUME UNCHANGED <<st, app, held, unreg>> PROVE P
  BY <1>1 DEF HandleLive, AppLive
<1>2. ASSUME NEW u \in User,
             \/ \E a \in Attr, k \in {"tell", "ask", "handle"} : UserCall(u, a, k)
             \/ UserStep(u) \/ UserClosed(u) \/ UserCancel(u)
      PROVE  P
  BY <1>1, <1>2 DEF UserStep, UserCall, UserSend, UserError, UserClosed, UserCancel,
       appVars, unregVars
<1>3. ASSUME NEW a \in Attr, AttrStep(a) \/ WorkerFails(a) PROVE P
  <2>1. /\ st[a] = "run" /\ UNCHANGED <<app, held, unreg>>
        /\ \E x : st' = [st EXCEPT ![a] = x]
    BY <1>3 DEF AttrStep, WorkerFails, TakeUnregister, TakeTell, TakeRequest, TakeClosed,
         appVars, unregVars, IInv, TypeOK
  <2> QED
    BY <2>1 DEF HandleLive, AppLive, IInv, TypeOK
<1>4. ASSUME (\E c \in AppCall : BluezCall(c)) \/ AppStep PROVE P
  <2>1. UNCHANGED <<st, held, unreg>> /\ (app' # app => AppLive)
    BY <1>4 DEF BluezCall, AppStep, UnservedCall, NextCall, ObjMgrStart, ObjMgrDone,
         ObjMgrSend, ObjMgrFail, AppUnregister, AppOrphaned, unregVars, AppLive
  <2> QED
    BY <2>1 DEF HandleLive, AppLive
<1>5. ASSUME Unregister \/ LeaveStep \/ DropHandle PROVE P
  <2>1. /\ UNCHANGED <<st, app>> /\ HandleLive
    BY <1>5 DEF Unregister, DropHandle, LeaveStep, LeaveSend, LeaveSendApp, LeaveJoin, LeaveFail,
         LeaveDone, appVars, HandleLive
  <2> QED
    BY <2>1 DEF AppLive
<1> QED
  BY <1>1, <1>2, <1>3, <1>4, <1>5 DEF Next, NewWork, vars

\* A characteristic with a handle and working I/O stops for the two reasons
\* ChrcSurvives names, whatever users and Bluez do.
THEOREM CharacteristicSurvives == Spec => []ChrcSurvives
<1>1. Init => ChrcSurvives
  BY DEF Init, ChrcSurvives
<1>2. IInv /\ ChrcSurvives /\ [Next]_vars => ChrcSurvives'
  <2> SUFFICES ASSUME IInv, ChrcSurvives, [Next]_vars, NEW a \in Attr,
                      Kind[a] = "chrc", a \notin MayFail \cup ZeroHandle,
                      st'[a] \notin {"run", "ended"}
               PROVE  ~HandleLive' /\ ~AppLive'
    BY DEF ChrcSurvives
  <2>1. CASE st[a] # "run"
    BY <2>1, GoneForGood DEF ChrcSurvives
  <2>2. CASE st[a] = "run"
    <3>1. \E b \in Attr : AttrStep(b) \/ WorkerFails(b)
      BY <2>2 DEF Next, NewWork, UserStep, AppStep, LeaveStep, vars,
           UserCall, UserSend, UserError, UserClosed, UserCancel, BluezCall,
           UnservedCall, ObjMgrStart, ObjMgrSend, ObjMgrFail, ObjMgrDone,
           AppUnregister, AppOrphaned, Unregister, LeaveSend, LeaveSendApp, LeaveJoin, LeaveFail, LeaveDone, DropHandle,
           appVars, unregVars
    <3>2. PICK b \in Attr : AttrStep(b) \/ WorkerFails(b)
      BY <3>1
    <3>3. b = a
      BY <2>2, <3>2 DEF AttrStep, WorkerFails, TakeUnregister, TakeTell, TakeRequest,
           TakeClosed, IInv, TypeOK
    <3>4. TakeClosed(a)
      BY <2>2, <3>2, <3>3 DEF AttrStep, WorkerFails, TakeUnregister, TakeTell, TakeRequest,
           Tolerates, IInv, TypeOK
    <3> QED
      BY <3>4 DEF TakeClosed, HandleLive, AppLive, appVars, unregVars
  <2> QED
    BY <2>1, <2>2
<1> QED
  BY <1>1, <1>2, AppInv, PTL DEF Spec

\* The call an app worker panicked on stays at the head of its queue.
LEMMA HeadStays ==
  ASSUME IInv, [Next]_vars, app = "panic", calls.waiting # <<>>
  PROVE  calls'.waiting # <<>> /\ Head(calls'.waiting) = Head(calls.waiting)
<1>1. ASSUME NEW c \in AppCall, BluezCall(c)
      PROVE  calls'.waiting # <<>> /\ Head(calls'.waiting) = Head(calls.waiting)
  <2>1. calls.waiting \in Seq(AppCall) /\ calls'.waiting = Append(calls.waiting, c)
    BY <1>1 DEF BluezCall, IInv, TypeOK
  <2> QED
    BY <2>1
<1>2. CASE UNCHANGED calls
  BY <1>2
<1>3. (\E c \in AppCall : BluezCall(c)) \/ UNCHANGED calls
  BY DEF Next, NewWork, UserStep, LeaveStep, vars, AttrStep, AppStep,
     UserCall, UserSend, UserError, UserClosed, UserCancel, WorkerFails,
     TakeUnregister, TakeTell, TakeRequest, TakeClosed,
     UnservedCall, NextCall, ObjMgrStart, ObjMgrSend, ObjMgrFail, ObjMgrDone,
     AppUnregister, AppOrphaned,
     Unregister, LeaveSend, LeaveSendApp, LeaveJoin, LeaveFail, LeaveDone,
     DropHandle, appVars
<1> QED
  BY <1>1, <1>2, <1>3

\* The app worker stops badly for the causes AppNeedsCause names only.
THEOREM AppStopsForCause == Spec => []AppNeedsCause
<1>1. Init => AppNeedsCause
  BY DEF Init, AppNeedsCause
<1>2. IInv /\ AppNeedsCause /\ [Next]_vars => AppNeedsCause'
  <2> SUFFICES ASSUME IInv, AppNeedsCause, [Next]_vars PROVE AppNeedsCause'
    OBVIOUS
  <2>1. CASE app' = app
    BY <2>1, GoneForGood, HeadStays DEF AppNeedsCause
  <2>2. CASE app' # app
    <3>1. AppStep
      BY <2>2 DEF Next, NewWork, UserStep, LeaveStep, vars, AttrStep,
           UserCall, UserSend, UserError, UserClosed, UserCancel, BluezCall, WorkerFails,
           TakeUnregister, TakeTell, TakeRequest, TakeClosed,
           Unregister, LeaveSend, LeaveSendApp, LeaveJoin, LeaveFail, LeaveDone, DropHandle,
           appVars, unregVars
    <3>2. CASE AppOrphaned
      BY <3>2 DEF AppOrphaned, AppNeedsCause, HandleLive, unregVars
    <3>3. ASSUME NEW a \in Attr, ObjMgrFail(a) PROVE AppNeedsCause'
      BY <3>3 DEF ObjMgrFail, AppNeedsCause
    <3>4. CASE app' \notin {"err", "panic"}
      BY <3>4 DEF AppNeedsCause
    <3>5. CASE UnservedCall
      BY <3>5 DEF UnservedCall, NextCall, AppNeedsCause
    <3> QED
      BY <2>2, <3>1, <3>2, <3>3, <3>4, <3>5 DEF AppStep, ObjMgrStart, ObjMgrSend, ObjMgrDone,
           AppUnregister
  <2> QED
    BY <2>1, <2>2
<1> QED
  BY <1>1, <1>2, AppInv, PTL DEF Spec
==============================================================================
