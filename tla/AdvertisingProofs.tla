------------------------- MODULE AdvertisingProofs -------------------------
(***************************************************************************)
(* The safety of the advertisements of one path, for any set of            *)
(* advertisements and any length of the queue of calls.                    *)
(***************************************************************************)
EXTENDS Advertising, TLAPS

-----------------------------------------------------------------------------
(* What steps do to the requests at BlueZ, and to the calls it has made.    *)

\* A new request is the only one that is added.
LEMMA AskedAppend ==
  ASSUME inbox \in Seq(Requests), NEW r \in Requests, inbox' = Append(inbox, r),
         NEW req, NEW a
  PROVE  Asked(req, a)' <=> Asked(req, a) \/ r = [req |-> req, ad |-> a]
<1>1. Len(inbox') = Len(inbox) + 1 /\ DOMAIN inbox = 1 .. Len(inbox) /\ DOMAIN inbox' = 1 .. Len(inbox')
  OBVIOUS
<1>2. inbox'[Len(inbox) + 1] = r /\ \A i \in 1 .. Len(inbox) : inbox'[i] = inbox[i]
  OBVIOUS
<1>3. Len(inbox) \in Nat
  OBVIOUS
<1> HIDE DEF Requests
<1>4. \A i \in DOMAIN inbox' : i = Len(inbox) + 1 \/ i \in DOMAIN inbox
  BY <1>1, <1>3
<1>5. Len(inbox) + 1 \in DOMAIN inbox' /\ DOMAIN inbox \subseteq DOMAIN inbox'
  BY <1>1, <1>3
<1> QED
  BY <1>1, <1>2, <1>4, <1>5 DEF Asked

\* The requests stay different from each other if the new one was not there.
LEMMA OnceAppend ==
  ASSUME inbox \in Seq(Requests), NEW r \in Requests, inbox' = Append(inbox, r),
         \A i, j \in DOMAIN inbox : inbox[i] = inbox[j] => i = j,
         \A i \in DOMAIN inbox : inbox[i] # r
  PROVE  \A i, j \in DOMAIN inbox' : inbox'[i] = inbox'[j] => i = j
<1>1. Len(inbox') = Len(inbox) + 1 /\ DOMAIN inbox = 1 .. Len(inbox) /\ DOMAIN inbox' = 1 .. Len(inbox')
  OBVIOUS
<1>2. inbox'[Len(inbox) + 1] = r /\ \A i \in 1 .. Len(inbox) : inbox'[i] = inbox[i]
  OBVIOUS
<1>3. \A i \in DOMAIN inbox' : i = Len(inbox) + 1 \/ i \in DOMAIN inbox
  BY <1>1
<1> QED
  BY <1>1, <1>2, <1>3

\* The first request is taken, and only that.
LEMMA AskedTail ==
  ASSUME inbox \in Seq(Requests), inbox # <<>>, inbox' = Tail(inbox),
         \A i, j \in DOMAIN inbox : inbox[i] = inbox[j] => i = j,
         NEW q, NEW b, Head(inbox) = [req |-> q, ad |-> b]
  PROVE  /\ \A i, j \in DOMAIN inbox' : inbox'[i] = inbox'[j] => i = j
         /\ \A req, a : Asked(req, a)' => Asked(req, a)
         /\ Asked(q, b) /\ ~Asked(q, b)'
<1>1. /\ DOMAIN inbox = 1 .. Len(inbox) /\ DOMAIN inbox' = 1 .. (Len(inbox) - 1)
      /\ Len(inbox) \in Nat \ {0} /\ Head(inbox) = inbox[1]
      /\ \A i \in DOMAIN inbox' : inbox'[i] = inbox[i + 1]
  OBVIOUS
<1>2. 1 \in DOMAIN inbox /\ \A i \in DOMAIN inbox' : i + 1 \in DOMAIN inbox /\ i + 1 # 1
  BY <1>1
<1>3. \A i, j \in DOMAIN inbox' : inbox'[i] = inbox'[j] => i = j
  <2> SUFFICES ASSUME NEW i \in DOMAIN inbox', NEW j \in DOMAIN inbox', inbox'[i] = inbox'[j] PROVE i = j
    OBVIOUS
  <2>1. i + 1 = j + 1
    BY <1>1, <1>2
  <2> QED
    BY <2>1, <1>1
<1>4. \A req, a : Asked(req, a)' => Asked(req, a)
  BY <1>1, <1>2 DEF Asked
<1>5. Asked(q, b) /\ ~Asked(q, b)'
  BY <1>1, <1>2 DEF Asked
<1> QED
  BY <1>3, <1>4, <1>5

-----------------------------------------------------------------------------
(* The types. *)

\* The channel of one advertisement is emptied.
LEMMA ChanEmptied ==
  ASSUME ChanTypes, NEW a \in Ads, chan' = [chan EXCEPT ![a] = <<>>]
  PROVE  ChanTypes'
  BY DEF ChanTypes, ChanCap

\* Its first message is taken.
LEMMA ChanTaken ==
  ASSUME ChanTypes, NEW a \in Ads, chan[a] # <<>>, chan' = [chan EXCEPT ![a] = Tail(@)]
  PROVE  ChanTypes'
<1>1. Tail(chan[a]) \in Seq({"Release", "Alive"}) /\ Len(Tail(chan[a])) <= ChanCap
  BY DEF ChanTypes, ChanCap
<1> QED
  BY <1>1 DEF ChanTypes

\* A message is added where there is room.
LEMMA ChanFilled ==
  ASSUME ChanTypes, NEW a \in Ads, HasRoom(a), NEW m \in {"Release", "Alive"},
         chan' = [chan EXCEPT ![a] = Append(@, m)]
  PROVE  ChanTypes'
<1>1. Append(chan[a], m) \in Seq({"Release", "Alive"}) /\ Len(Append(chan[a], m)) <= ChanCap
  BY DEF ChanTypes, ChanCap, HasRoom
<1> QED
  BY <1>1 DEF ChanTypes

\* The queue of calls may be emptied.
LEMMA NoCalls == <<>> \in Seq(Calls) /\ Len(<<>>) <= CallCap
  BY CallCapType

\* A call is handled in register and in the task alike.
LEMMA CallTypes ==
  ASSUME TypeOK, NEW a \in Ads, NEW how \in {"err", "leave"}, HandleCall(a, how)
  PROVE  /\ st' \in [Ads -> {"idle", "leave"} \cup Served \cup Ended]
         /\ ChanTypes' /\ PathTypes' /\ BluezTypes'
<1> USE DEF TypeOK
<1>1. PathTypes'
  BY CallCapType DEF PathTypes, HandleCall
<1>2. BluezTypes'
  BY DEF BluezTypes, HandleCall, Answered, Panics, IsReleased
<1>3. CASE UNCHANGED <<st, chan>>
  BY <1>1, <1>2, <1>3 DEF AdTypes, ChanTypes
<1>4. CASE \E h \in Ended : End(a, h)
  BY <1>1, <1>2, <1>4, ChanEmptied DEF AdTypes, End
<1>5. CASE st' = [st EXCEPT ![a] = how] /\ UNCHANGED chan
  BY <1>1, <1>2, <1>5 DEF AdTypes, ChanTypes, Ended
<1> QED
  BY <1>3, <1>4, <1>5 DEF HandleCall, Answered, Panics, IsReleased, Ended

\* Every step keeps the types.
LEMMA TypeStep == TypeOK /\ [Next]_vars => TypeOK'
<1> SUFFICES ASSUME TypeOK, [Next]_vars PROVE TypeOK'
  OBVIOUS
<1> USE DEF TypeOK
<1>1. ASSUME NEW a \in Ads, Register(a) PROVE TypeOK'
  <2>1. AdTypes'
    BY <1>1 DEF Register, Request, End, AdTypes, Served, Ended
  <2>2. ChanTypes'
    BY <1>1, ChanEmptied DEF Register, Request, End, ChanTypes
  <2>3. [req |-> "Register", ad |-> a] \in Requests
    BY DEF Requests
  <2>4. BluezTypes'
    BY <1>1, <2>3 DEF Register, Request, BluezTypes
  <2>5. PathTypes'
    BY <1>1, NoCalls DEF Register, PathTypes
  <2> QED
    BY <2>1, <2>2, <2>4, <2>5
<1>2. ASSUME NEW a \in Ads, RegCall(a) \/ RunCall(a) PROVE TypeOK'
  <2>1. AdTypes' /\ ChanTypes' /\ PathTypes' /\ BluezTypes'
    BY <1>2, CallTypes DEF RegCall, RunCall, HandleCall, AdTypes
  <2> QED
    BY <2>1
<1>3. ASSUME NEW a \in Ads, RegReply(a) PROVE TypeOK'
  <2>1. AdTypes'
    BY <1>3 DEF RegReply, AdTypes, End, Served, Ended
  <2>2. ChanTypes'
    BY <1>3, ChanEmptied DEF RegReply, End, ChanTypes
  <2> QED
    BY <1>3, <2>1, <2>2 DEF RegReply, bluezVars, PathTypes, BluezTypes
<1>4. ASSUME NEW a \in Ads, RegLost(a) \/ MsgClosed(a) \/ RunLost(a) \/ Leave(a) \/ DropRegister(a) PROVE TypeOK'
  <2>1. AdTypes'
    BY <1>4 DEF RegLost, MsgClosed, RunLost, Leave, DropRegister, AdTypes, End, Ended
  <2>2. ChanTypes'
    BY <1>4, ChanEmptied DEF RegLost, MsgClosed, RunLost, Leave, DropRegister, End
  <2>3. PathTypes'
    BY <1>4, NoCalls DEF RegLost, MsgClosed, RunLost, Leave, DropRegister, PathTypes
  <2>4. BluezTypes'
    BY <1>4 DEF RegLost, MsgClosed, RunLost, Leave, DropRegister, bluezVars, BluezTypes
  <2> QED
    BY <2>1, <2>2, <2>3, <2>4
<1>5. ASSUME NEW a \in Ads, MsgAlive(a) PROVE TypeOK'
  BY <1>5, ChanTaken DEF MsgAlive, bluezVars, AdTypes, PathTypes, BluezTypes
<1>6. ASSUME NEW a \in Ads, MsgRelease(a) PROVE TypeOK'
  <2>1. AdTypes'
    BY <1>6 DEF MsgRelease, Withdraw, Request, End, AdTypes, Served, Ended
  <2>2. ChanTypes'
    BY <1>6, ChanEmptied DEF MsgRelease, Withdraw, Request, End, ChanTypes
  <2>3. [req |-> "Unregister", ad |-> a] \in Requests
    BY DEF Requests
  <2>4. BluezTypes'
    BY <1>6, <2>3 DEF MsgRelease, Withdraw, Request, BluezTypes
  <2>5. PathTypes'
    BY <1>6 DEF MsgRelease, PathTypes
  <2> QED
    BY <2>1, <2>2, <2>4, <2>5
<1>7. ASSUME NEW a \in Ads, UnregReply(a) PROVE TypeOK'
  <2>1. AdTypes'
    BY <1>7 DEF UnregReply, UnregRefused, AdTypes, End, Ended
  <2>2. ChanTypes'
    BY <1>7, ChanEmptied DEF UnregReply, UnregRefused, End, ChanTypes
  <2> QED
    BY <1>7, <2>1, <2>2 DEF UnregReply, bluezVars, PathTypes, BluezTypes
<1>8. ASSUME NEW a \in Ads, AskAlive(a) \/ Release(a) \/ Joined(a) \/ DropWorker(a) PROVE TypeOK'
  BY <1>8 DEF AskAlive, Release, Joined, DropWorker, bluezVars, AdTypes, ChanTypes, PathTypes, BluezTypes
<1>9. ASSUME NEW a \in Ads, AliveSent(a) \/ ReleaseSent(a) PROVE TypeOK'
  <2>1. ChanTypes'
    BY <1>9, ChanFilled DEF AliveSent, ReleaseSent, ChanTypes
  <2> QED
    BY <1>9, <2>1 DEF AliveSent, ReleaseSent, bluezVars, AdTypes, PathTypes, BluezTypes
<1>10. CASE BluezRegister \/ BluezUnregister
  <2>1. AdTypes'
    BY <1>10 DEF BluezRegister, BluezUnregister, ReplyTo, AdTypes
  <2>2. Tail(inbox) \in Seq(Requests) /\ Head(inbox) \in Requests
    BY <1>10 DEF BluezRegister, BluezUnregister, BluezTypes
  <2>3. Head(inbox).ad \in Ads
    BY <2>2 DEF Requests
  <2>4. BluezTypes'
    BY <1>10, <2>2, <2>3 DEF BluezRegister, BluezUnregister, BluezTypes
  <2> QED
    BY <1>10, <2>1, <2>4 DEF BluezRegister, BluezUnregister, ChanTypes, PathTypes
<1>11. CASE BluezRelease \/ SomebodyCalls
  <2>1. \A kind \in {"props", "Release", "bare"}, of \in Ads \cup {NoAd} :
          [kind |-> kind, of |-> of] \in Calls
    BY DEF Calls
  <2>2. \A kind \in {"props", "Release", "bare"}, of \in Ads \cup {NoAd} :
          Arrives(kind, of) => calls' \in Seq(Calls) /\ Len(calls') <= CallCap
    BY <2>1, CallCapType DEF Arrives, PathTypes
  <2>3. PathTypes'
    BY <1>11, <2>2 DEF BluezRelease, SomebodyCalls, PathTypes, BluezTypes
  <2> QED
    BY <1>11, <2>3 DEF BluezRelease, SomebodyCalls, bluezVars, AdTypes, ChanTypes, BluezTypes
<1>12. CASE LoseConn \/ UNCHANGED vars
  <2>1. <<>> \in Seq(Requests)
    OBVIOUS
  <2> QED
    BY <1>12, <2>1 DEF LoseConn, vars, AdTypes, ChanTypes, PathTypes, BluezTypes
<1> QED
  BY <1>1, <1>2, <1>3, <1>4, <1>5, <1>6, <1>7, <1>8, <1>9, <1>10, <1>11, <1>12
  DEF Next, Registering, Task, User, Bluez

-----------------------------------------------------------------------------
(* Who is where. *)

\* Handling a call moves an advertisement on, and tells its user.
LEMMA CallStages ==
  ASSUME AdTypes, NEW a \in Ads, NEW how \in {"err", "leave"}, HandleCall(a, how), AtWork(a)
  PROVE  \E s \in {st[a], "leave", "err", "panic"} :
           /\ st' = [st EXCEPT ![a] = s] /\ UNCHANGED <<probe, reply, path>>
           /\ s = "leave" => how = "leave" \/ s = st[a]
           /\ s = "err" => how = "err" \/ ~conn
<1>1. st = [st EXCEPT ![a] = st[a]]
  BY DEF AdTypes
<1> QED
  BY <1>1 DEF HandleCall, Answered, Panics, IsReleased, End, Ended, AtWork, Served

\* Every step keeps the places of code and users in tune, and one advertisement
\* at most at work.
LEMMA StagesStep == TypeOK /\ Stages /\ [Next]_vars => Stages'
<1> SUFFICES ASSUME TypeOK, Stages, [Next]_vars PROVE Stages'
  OBVIOUS
<1> USE DEF TypeOK, AdTypes, Stages, AtWork, Served, Ended
<1>1. ASSUME NEW a \in Ads, Register(a) PROVE Stages'
  BY <1>1 DEF Register, Request, End, KnownEnded
<1>2. ASSUME NEW a \in Ads, RegCall(a) PROVE Stages'
  BY <1>2, CallStages DEF RegCall, Closed
<1>3. ASSUME NEW a \in Ads, RunCall(a) PROVE Stages'
  BY <1>3, CallStages DEF RunCall
<1>4. ASSUME NEW a \in Ads, RegReply(a) PROVE Stages'
  BY <1>4 DEF RegReply, Accepted, End
<1>5. ASSUME NEW a \in Ads, RegLost(a) \/ DropRegister(a) PROVE Stages'
  BY <1>5 DEF RegLost, DropRegister, End
<1>6. ASSUME NEW a \in Ads, MsgClosed(a) \/ RunLost(a) \/ Leave(a) PROVE Stages'
  BY <1>6 DEF MsgClosed, RunLost, Leave, End
<1>7. ASSUME NEW a \in Ads, MsgAlive(a) PROVE Stages'
  BY <1>7 DEF MsgAlive
<1>8. ASSUME NEW a \in Ads, MsgRelease(a) PROVE Stages'
  BY <1>8 DEF MsgRelease, Withdraw, Request, End
<1>9. ASSUME NEW a \in Ads, UnregReply(a) PROVE Stages'
  BY <1>9 DEF UnregReply, Accepted, UnregRefused, End
<1>10. ASSUME NEW a \in Ads, AskAlive(a) \/ AliveSent(a) PROVE Stages'
  BY <1>10 DEF AskAlive, AliveSent, Closed
<1>11. ASSUME NEW a \in Ads, Release(a) \/ ReleaseSent(a) \/ Joined(a) \/ DropWorker(a) PROVE Stages'
  BY <1>11 DEF Release, ReleaseSent, Joined, DropWorker
<1>12. CASE BluezRegister \/ BluezUnregister
  BY <1>12 DEF BluezRegister, BluezUnregister, ReplyTo
<1>13. CASE BluezRelease \/ SomebodyCalls \/ LoseConn \/ UNCHANGED vars
  BY <1>13 DEF BluezRelease, SomebodyCalls, LoseConn, vars
<1> QED
  BY <1>1, <1>2, <1>3, <1>4, <1>5, <1>6, <1>7, <1>8, <1>9, <1>10, <1>11, <1>12, <1>13
  DEF Next, Registering, Task, User, Bluez

-----------------------------------------------------------------------------
(* The path. *)

\* An advertisement that is served keeps its path.
LEMMA PathStep == TypeOK /\ Stages /\ PathHeld /\ [Next]_vars => PathHeld'
<1> SUFFICES ASSUME TypeOK, Stages, PathHeld, [Next]_vars PROVE PathHeld'
  OBVIOUS
<1> USE DEF TypeOK, AdTypes, Stages, PathHeld, AtWork, Served, Ended
<1>1. ASSUME NEW a \in Ads, Register(a) PROVE PathHeld'
  BY <1>1 DEF Register, Request, End
<1>2. ASSUME NEW a \in Ads, RegCall(a) \/ RunCall(a) PROVE PathHeld'
  BY <1>2, CallStages DEF RegCall, RunCall
<1>3. ASSUME NEW a \in Ads, RegReply(a) PROVE PathHeld'
  BY <1>3 DEF RegReply, Accepted, End
<1>4. ASSUME NEW a \in Ads, MsgRelease(a) PROVE PathHeld'
  BY <1>4 DEF MsgRelease, Withdraw, Request, End
<1>5. ASSUME NEW a \in Ads, UnregReply(a) PROVE PathHeld'
  BY <1>5 DEF UnregReply, UnregRefused, End
<1>6. ASSUME NEW a \in Ads, Leave(a) PROVE PathHeld'
  BY <1>6 DEF Leave, End
<1>7. ASSUME NEW a \in Ads, RegLost(a) \/ MsgClosed(a) \/ RunLost(a) \/ DropRegister(a) PROVE PathHeld'
  BY <1>7 DEF RegLost, MsgClosed, RunLost, DropRegister, End
<1>8. CASE UNCHANGED <<st, path>>
  BY <1>8 DEF PathHeld
<1> QED
  BY <1>1, <1>2, <1>3, <1>4, <1>5, <1>6, <1>7, <1>8
  DEF Next, Registering, Task, User, Bluez, MsgAlive, AskAlive, AliveSent, Release,
      ReleaseSent, Joined, DropWorker, BluezRegister, BluezUnregister, BluezRelease,
      SomebodyCalls, LoseConn, vars

-----------------------------------------------------------------------------
(* What BlueZ has been asked and what it has called. *)

\* Nothing is asked, or nothing is called.
LEMMA AskedSame == ASSUME inbox' = inbox, NEW req, NEW a PROVE Asked(req, a)' <=> Asked(req, a)
  BY DEF Asked

LEMMA ReleasesSame == ASSUME calls' = calls, NEW a PROVE ReleaseComes(a)' <=> ReleaseComes(a)
  BY DEF ReleaseComes

\* A call is taken from the queue, or all are.
LEMMA ReleasesTail ==
  ASSUME calls \in Seq(Calls), calls # <<>>, calls' = Tail(calls), NEW a
  PROVE  /\ ReleaseComes(a)' => ReleaseComes(a)
         /\ Head(calls).of = a => ReleaseComes(a)
<1>1. /\ \A i \in DOMAIN calls' : i + 1 \in DOMAIN calls /\ calls'[i] = calls[i + 1]
      /\ 1 \in DOMAIN calls /\ Head(calls) = calls[1]
  OBVIOUS
<1> QED
  BY <1>1 DEF ReleaseComes

LEMMA ReleasesNone == ASSUME calls' = <<>>, NEW a PROVE ~ReleaseComes(a)'
  BY DEF ReleaseComes

\* A call arrives, or is refused.
LEMMA ReleasesArrive ==
  ASSUME calls \in Seq(Calls), NEW kind, NEW of \in Ads \cup {NoAd},
         [kind |-> kind, of |-> of] \in Calls, Arrives(kind, of), NEW a
  PROVE  ReleaseComes(a)' => ReleaseComes(a) \/ of = a
<1>1. CASE UNCHANGED calls
  BY <1>1 DEF ReleaseComes
<1>2. CASE calls' = Append(calls, [kind |-> kind, of |-> of])
  <2>1. /\ DOMAIN calls' = 1 .. Len(calls) + 1 /\ DOMAIN calls = 1 .. Len(calls)
        /\ Len(calls) \in Nat
        /\ calls'[Len(calls) + 1] = [kind |-> kind, of |-> of]
        /\ \A i \in 1 .. Len(calls) : calls'[i] = calls[i]
    BY <1>2
  <2>2. \A i \in DOMAIN calls' : i = Len(calls) + 1 \/ i \in DOMAIN calls
    BY <2>1
  <2> QED
    BY <2>1, <2>2 DEF ReleaseComes
<1> QED
  BY <1>1, <1>2 DEF Arrives

\* Every step keeps the requests in order.
LEMMA RequestedStep == TypeOK /\ Stages /\ Requested /\ [Next]_vars => Requested'
<1> SUFFICES ASSUME TypeOK, Stages, Requested, [Next]_vars PROVE Requested'
  OBVIOUS
<1> USE DEF TypeOK, AdTypes, BluezTypes, Stages, Requested, Advertised, AtWork, Served, Ended
<1>1. ASSUME NEW a \in Ads, Register(a) PROVE Requested'
  <2>1. CASE ~conn
    BY <1>1, <2>1, AskedSame, ReleasesNone, ReleasesSame DEF Register, Request, End
  <2>2. CASE conn
    <3> DEFINE r == [req |-> "Register", ad |-> a]
    <3>1. r \in Requests /\ inbox' = Append(inbox, r)
      BY <1>1, <2>2 DEF Register, Request, Requests
    <3>2. \A req, b : Asked(req, b)' <=> Asked(req, b) \/ (req = "Register" /\ b = a)
      BY <3>1, AskedAppend
    <3>3. \A i \in DOMAIN inbox : inbox[i] # r
      BY <1>1 DEF Register, Asked
    <3>4. \A i, j \in DOMAIN inbox' : inbox'[i] = inbox'[j] => i = j
      BY <3>1, <3>3, OnceAppend
    <3>5. \A b : ReleaseComes(b)' => ReleaseComes(b)
      BY <1>1, ReleasesNone, ReleasesSame DEF Register
    <3> QED
      BY <1>1, <2>2, <3>2, <3>4, <3>5 DEF Register, Request
  <2> QED
    BY <2>1, <2>2
<1>2. ASSUME NEW a \in Ads, RegCall(a) \/ RunCall(a) PROVE Requested'
  <2>1. \A b : ReleaseComes(b)' => ReleaseComes(b)
    BY <1>2, ReleasesTail DEF RegCall, RunCall, HandleCall, PathTypes
  <2>2. UNCHANGED <<inbox, bluez, conn>>
    BY <1>2 DEF RegCall, RunCall, HandleCall
  <2>3. PICK how \in {"err", "leave"} : HandleCall(a, how) /\ (st[a] = "reg" => how = "err")
    BY <1>2 DEF RegCall, RunCall
  <2>4. PICK s \in {st[a], "leave", "err", "panic"} :
          /\ st' = [st EXCEPT ![a] = s] /\ UNCHANGED reply
          /\ s = "leave" => how = "leave" \/ s = st[a]
    BY <1>2, <2>3, CallStages DEF RegCall, RunCall
  <2> QED
    BY <1>2, <2>1, <2>2, <2>3, <2>4, AskedSame DEF RegCall, RunCall
<1>3. ASSUME NEW a \in Ads, RegReply(a) PROVE Requested'
  BY <1>3, AskedSame, ReleasesSame DEF RegReply, Accepted, End, bluezVars
<1>4. ASSUME NEW a \in Ads, MsgRelease(a) PROVE Requested'
  <2>1. CASE ~conn
    BY <1>4, <2>1, AskedSame, ReleasesSame DEF MsgRelease, Withdraw, Request, End
  <2>2. CASE conn
    <3> DEFINE r == [req |-> "Unregister", ad |-> a]
    <3>1. r \in Requests /\ inbox' = Append(inbox, r)
      BY <1>4, <2>2 DEF MsgRelease, Withdraw, Request, Requests
    <3>2. \A req, b : Asked(req, b)' <=> Asked(req, b) \/ (req = "Unregister" /\ b = a)
      BY <3>1, AskedAppend
    <3>3. \A i \in DOMAIN inbox : inbox[i] # r
      BY <1>4 DEF MsgRelease, Asked
    <3>4. \A i, j \in DOMAIN inbox' : inbox'[i] = inbox'[j] => i = j
      BY <3>1, <3>3, OnceAppend
    <3> QED
      BY <1>4, <2>2, <3>2, <3>4, ReleasesSame DEF MsgRelease, Withdraw, Request
  <2> QED
    BY <2>1, <2>2
<1>5. ASSUME NEW a \in Ads, UnregReply(a) PROVE Requested'
  BY <1>5, AskedSame, ReleasesSame DEF UnregReply, Accepted, UnregRefused, End, bluezVars
<1>6. ASSUME NEW a \in Ads, Leave(a) PROVE Requested'
  BY <1>6, AskedSame, ReleasesNone DEF Leave, End, bluezVars
<1>7. ASSUME NEW a \in Ads, RegLost(a) \/ DropRegister(a) PROVE Requested'
  BY <1>7, AskedSame, ReleasesSame DEF RegLost, DropRegister, End, bluezVars
<1>8. ASSUME NEW a \in Ads, MsgClosed(a) PROVE Requested'
  BY <1>8, AskedSame, ReleasesSame DEF MsgClosed, End, bluezVars
<1>9. ASSUME NEW a \in Ads, RunLost(a) PROVE Requested'
  <2>1. \A req, b : ~Asked(req, b)'
    BY <1>9 DEF RunLost, bluezVars, Asked
  <2> QED
    BY <1>9, <2>1, ReleasesSame DEF RunLost, End, bluezVars
<1>10. CASE BluezRegister \/ BluezUnregister
  <2>1. /\ inbox # <<>> /\ inbox' = Tail(inbox) /\ Head(inbox) \in Requests
        /\ UNCHANGED <<st, calls, conn>>
    BY <1>10 DEF BluezRegister, BluezUnregister
  <2>2. PICK q \in {"Register", "Unregister"}, b \in Ads : Head(inbox) = [req |-> q, ad |-> b]
    BY <2>1 DEF Requests
  <2>3. conn /\ \A a : ReleaseComes(a)' <=> ReleaseComes(a)
    BY <2>1, ReleasesSame
  <2>4. /\ \A i, j \in DOMAIN inbox' : inbox'[i] = inbox'[j] => i = j
        /\ \A req, a : Asked(req, a)' => Asked(req, a)
        /\ Asked(q, b) /\ ~Asked(q, b)'
    BY <2>1, <2>2, AskedTail
  <2>5. CASE BluezRegister
    <3>1. PICK res \in {"ok", "err"} :
            /\ reply' = [reply EXCEPT ![b] = IF st[b] \in {"reg", "unreg"} THEN res ELSE @]
            /\ bluez' = IF res = "ok" THEN b ELSE bluez
            /\ res = "ok" => bluez = NoAd
      BY <2>2, <2>5 DEF BluezRegister, ReplyTo
    <3>2. /\ ~Asked("Register", b)' /\ bluez # b /\ ~ReleaseComes(b)
          /\ (st[b] = "reg" /\ reply[b] = "none") \/ st[b] \in Ended
      BY <2>2, <2>4, <2>5 DEF BluezRegister
    <3>3. ASSUME NEW a \in Ads, a # b
          PROVE  reply'[a] = reply[a] /\ (Advertised(a)' => Advertised(a))
      BY <2>2, <2>4, <3>1, <3>3
    <3>4. \A a \in Ads : bluez' = a => ~Asked("Register", a)'
      BY <2>2, <2>4, <3>1, <3>2
    <3>5. \A a \in Ads : ReleaseComes(a)' => ~Advertised(a)' /\ st'[a] # "idle"
      BY <2>1, <2>3, <3>2, <3>3
    <3>6. \A a \in Ads : reply'[a] = reply[a] \/ (a = b /\ reply'[a] = "err" => ~Advertised(a)')
      BY <2>4, <3>1, <3>2
    <3> QED
      BY <2>1, <2>2, <2>3, <2>4, <3>1, <3>2, <3>3, <3>4, <3>5, <3>6
  <2>6. CASE BluezUnregister
    <3>1. st[b] = "unreg" /\ reply[b] = "none" /\ bluez' = NoAd
      BY <2>2, <2>4, <2>6 DEF BluezUnregister
    <3>2. PICK res \in {"ok", "err"} : reply' = [reply EXCEPT ![b] = res]
      <4>1. Head(inbox).ad = b
        BY <2>2
      <4>2. CASE bluez = NoAd
        <5>1. reply' = [reply EXCEPT ![b] = IF st[b] \in {"reg", "unreg"} THEN "err" ELSE @]
          BY <2>6, <4>1, <4>2 DEF BluezUnregister, ReplyTo
        <5> QED
          BY <3>1, <5>1
      <4>3. CASE bluez # NoAd
        <5>1. reply' = [reply EXCEPT ![b] = IF st[b] \in {"reg", "unreg"} THEN "ok" ELSE @]
          BY <2>6, <4>1, <4>3 DEF BluezUnregister, ReplyTo
        <5> QED
          BY <3>1, <5>1
      <4> QED
        BY <4>2, <4>3
    <3>3. ~Asked("Unregister", b)'
      BY <2>2, <2>4, <2>6 DEF BluezUnregister
    <3>4. \A a \in Ads : Advertised(a)' => Asked("Register", a)
      BY <2>4, <3>1, NoAdIsNone
    <3>5. \A a \in Ads : a # b => reply'[a] = reply[a]
      BY <2>4, <3>2
    <3> QED
      BY <2>1, <2>2, <2>3, <2>4, <3>1, <3>2, <3>3, <3>4, <3>5, NoAdIsNone
  <2> QED
    BY <1>10, <2>5, <2>6
<1>11. CASE BluezRelease \/ SomebodyCalls
  <2>1. PICK kind \in {"props", "Release", "bare"}, of \in Ads \cup {NoAd} :
          /\ [kind |-> kind, of |-> of] \in Calls /\ Arrives(kind, of)
          /\ of \in Ads => BluezRelease /\ of = bluez
    <3>1. \A kind \in {"props", "Release", "bare"}, of \in Ads \cup {NoAd} :
            [kind |-> kind, of |-> of] \in Calls
      BY DEF Calls
    <3>2. CASE BluezRelease
      BY <3>1, <3>2 DEF BluezRelease
    <3>3. CASE SomebodyCalls
      BY <3>1, <3>3, NoAdIsNone DEF SomebodyCalls
    <3> QED
      BY <1>11, <3>2, <3>3
  <2>2. \A a : ReleaseComes(a)' => ReleaseComes(a) \/ of = a
    BY <2>1, ReleasesArrive DEF PathTypes
  <2> QED
    BY <1>11, <2>1, <2>2, NoAdIsNone, AskedSame DEF BluezRelease, SomebodyCalls, bluezVars
<1>12. CASE LoseConn
  <2>1. \A req, a : ~Asked(req, a)'
    BY <1>12 DEF LoseConn, Asked
  <2> QED
    BY <1>12, <2>1, NoAdIsNone, ReleasesSame DEF LoseConn
<1>13. CASE UNCHANGED <<st, reply, calls, inbox, bluez, conn>>
  BY <1>13, AskedSame, ReleasesSame
<1> QED
  BY <1>1, <1>2, <1>3, <1>4, <1>5, <1>6, <1>7, <1>8, <1>9, <1>10, <1>11, <1>12, <1>13
  DEF Next, Registering, Task, User, Bluez, MsgAlive, AskAlive, AliveSent, Release,
      ReleaseSent, Joined, DropWorker, bluezVars, vars

-----------------------------------------------------------------------------
\* What BlueZ was told to advertise it keeps, but for its own Release.
LEMMA KeptStep == TypeOK /\ Stages /\ Requested /\ Kept /\ [Next]_vars => Kept'
<1> SUFFICES ASSUME TypeOK, Stages, Requested, Kept, [Next]_vars PROVE Kept'
  OBVIOUS
<1> USE DEF TypeOK, AdTypes, Stages, Kept, Lost, AtWork, Served, Ended
<1>1. ASSUME NEW a \in Ads, Register(a) PROVE Kept'
  BY <1>1 DEF Register, Request, End
<1>2. ASSUME NEW a \in Ads, RegCall(a) PROVE Kept'
  <2>1. UNCHANGED <<bluez, released, conn>> /\ HandleCall(a, "err")
    BY <1>2 DEF RegCall, HandleCall
  <2> QED
    BY <1>2, <2>1, CallStages DEF RegCall, Closed
<1>3. ASSUME NEW a \in Ads, RunCall(a) PROVE Kept'
  <2>1. UNCHANGED <<bluez, released, conn, user>> /\ HandleCall(a, "leave")
    BY <1>3 DEF RunCall, HandleCall
  <2> QED
    BY <1>3, <2>1, CallStages DEF RunCall
<1>4. ASSUME NEW a \in Ads, RegReply(a) PROVE Kept'
  BY <1>4 DEF RegReply, Accepted, End, bluezVars
<1>5. ASSUME NEW a \in Ads, RegLost(a) \/ DropRegister(a) PROVE Kept'
  BY <1>5 DEF RegLost, DropRegister, End, bluezVars
<1>6. ASSUME NEW a \in Ads, MsgRelease(a) PROVE Kept'
  BY <1>6 DEF MsgRelease, Withdraw, Request, End
<1>7. ASSUME NEW a \in Ads, UnregReply(a) PROVE Kept'
  BY <1>7 DEF UnregReply, Accepted, UnregRefused, End, bluezVars
<1>8. ASSUME NEW a \in Ads, MsgClosed(a) \/ RunLost(a) \/ Leave(a) PROVE Kept'
  BY <1>8 DEF MsgClosed, RunLost, Leave, End, bluezVars
<1>9. ASSUME NEW a \in Ads, Release(a) \/ ReleaseSent(a) \/ Joined(a) \/ DropWorker(a) PROVE Kept'
  BY <1>9 DEF Release, ReleaseSent, Joined, DropWorker, bluezVars
<1>10. CASE BluezRegister
  <2>1. /\ inbox # <<>> /\ inbox' = Tail(inbox) /\ Head(inbox) \in Requests
        /\ UNCHANGED <<st, user, released, conn>>
    BY <1>10 DEF BluezRegister, BluezUnregister, BluezTypes
  <2>2. PICK q \in {"Register", "Unregister"}, b \in Ads : Head(inbox) = [req |-> q, ad |-> b]
    BY <2>1 DEF Requests
  <2>3. Asked(q, b)
    BY <2>1, <2>2, AskedTail DEF BluezTypes, Requested
  <2>4. (st[b] = "reg" /\ reply[b] = "none") \/ st[b] \in Ended
    BY <1>10, <2>2, <2>3 DEF BluezRegister, Requested
  <2>5. PICK res \in {"ok", "err"} :
          /\ reply' = [reply EXCEPT ![b] = IF st[b] \in {"reg", "unreg"} THEN res ELSE @]
          /\ bluez' = IF res = "ok" THEN b ELSE bluez
          /\ res = "ok" => bluez = NoAd
    BY <1>10, <2>2 DEF BluezRegister, ReplyTo
  <2> QED
    BY <2>1, <2>4, <2>5, NoAdIsNone
<1>11. CASE BluezUnregister
  <2>1. /\ inbox # <<>> /\ inbox' = Tail(inbox) /\ Head(inbox) \in Requests
        /\ UNCHANGED <<st, user, released, conn>>
    BY <1>11 DEF BluezRegister, BluezUnregister, BluezTypes
  <2>2. PICK q \in {"Register", "Unregister"}, b \in Ads : Head(inbox) = [req |-> q, ad |-> b]
    BY <2>1 DEF Requests
  <2>3. Asked(q, b)
    BY <2>1, <2>2, AskedTail DEF BluezTypes, Requested
  <2>4. st[b] = "unreg" /\ reply[b] = "none" /\ Head(inbox).ad = b
    BY <1>11, <2>2, <2>3 DEF BluezUnregister, Requested
  <2>5. \A a \in Ads : AtWork(a) => a = b
    BY <2>4
  <2>6. CASE bluez = NoAd
    <3>1. reply' = [reply EXCEPT ![b] = IF st[b] \in {"reg", "unreg"} THEN "err" ELSE @]
      BY <1>11, <2>4, <2>6 DEF BluezUnregister, ReplyTo
    <3> QED
      BY <2>1, <2>4, <2>5, <2>6, <3>1, NoAdIsNone
  <2>7. CASE bluez # NoAd
    <3>1. reply' = [reply EXCEPT ![b] = IF st[b] \in {"reg", "unreg"} THEN "ok" ELSE @]
      BY <1>11, <2>4, <2>7 DEF BluezUnregister, ReplyTo
    <3> QED
      BY <2>1, <2>4, <2>5, <3>1
  <2> QED
    BY <2>6, <2>7
<1>12. CASE BluezRelease
  BY <1>12 DEF BluezRelease
<1>13. CASE LoseConn
  BY <1>13 DEF LoseConn
<1>14. CASE UNCHANGED <<st, user, reply, bluezVars, conn>>
  BY <1>14 DEF bluezVars
<1> QED
  BY <1>1, <1>2, <1>3, <1>4, <1>5, <1>6, <1>7, <1>8, <1>9, <1>10, <1>11, <1>12, <1>13, <1>14
  DEF Next, Registering, Task, User, Bluez, MsgAlive, AskAlive, AliveSent,
      SomebodyCalls, bluezVars, vars

\* What BlueZ advertises is served, but for what the property names.
LEMMA OrphanStep == TypeOK /\ Stages /\ Requested /\ NoOrphan /\ [Next]_vars => NoOrphan'
<1> SUFFICES ASSUME TypeOK, Stages, Requested, NoOrphan, [Next]_vars PROVE NoOrphan'
  OBVIOUS
<1> USE DEF TypeOK, AdTypes, Stages, NoOrphan, AtWork, Advertised, Served, Ended
<1>0. ASSUME ~conn PROVE \A a \in Ads : ~Advertised(a)
  BY <1>0, NoAdIsNone DEF Requested, Asked
<1>1. ASSUME NEW a \in Ads, Register(a) PROVE NoOrphan'
  <2>1. CASE ~conn
    BY <1>1, <1>0, <2>1, AskedSame DEF Register, Request, End
  <2>2. CASE conn
    <3> DEFINE r == [req |-> "Register", ad |-> a]
    <3>1. r \in Requests /\ inbox' = Append(inbox, r)
      BY <1>1, <2>2 DEF Register, Request, Requests
    <3>2. \A b : Asked("Register", b)' <=> Asked("Register", b) \/ b = a
      BY <3>1, AskedAppend DEF BluezTypes
    <3> QED
      BY <1>1, <2>2, <3>2 DEF Register, Request
  <2> QED
    BY <2>1, <2>2
<1>2. ASSUME NEW a \in Ads, RegCall(a) \/ RunCall(a) PROVE NoOrphan'
  <2>1. UNCHANGED <<inbox, bluez>> /\ \A b : Advertised(b)' <=> Advertised(b)
    BY <1>2, AskedSame DEF RegCall, RunCall, HandleCall
  <2>2. \A b \in Ads : b # a => st'[b] = st[b] /\ user'[b] = user[b]
    BY <1>2 DEF RegCall, RunCall, HandleCall, Answered, Panics, IsReleased, End
  <2>3. strayed \subseteq strayed'
    BY <1>2 DEF RegCall, RunCall, HandleCall, Answered, Panics, IsReleased
  <2>4. CASE Head(calls).kind = "props"
    BY <1>2, <1>0, <2>1, <2>2, <2>3, <2>4
    DEF RegCall, RunCall, HandleCall, Answered, Panics, IsReleased, End
  <2>5. CASE Head(calls).kind = "bare"
    BY <1>2, <2>1, <2>2, <2>3, <2>5
    DEF RegCall, RunCall, HandleCall, Answered, Panics, IsReleased, End
  <2>6. CASE Head(calls).kind = "Release"
    <3>1. Head(calls).of = a => ReleaseComes(a)
      BY <1>2, ReleasesTail DEF RegCall, RunCall, HandleCall, PathTypes
    <3>2. Head(calls).of # a => a \in strayed'
      BY <1>2, <2>6 DEF RegCall, RunCall, HandleCall, Answered, Panics, IsReleased
    <3> QED
      BY <2>1, <2>2, <2>3, <3>1, <3>2 DEF Requested
  <2> QED
    BY <1>2, <2>4, <2>5, <2>6 DEF RegCall, RunCall, HandleCall, Answered, Panics, IsReleased
<1>3. ASSUME NEW a \in Ads, RegReply(a) PROVE NoOrphan'
  BY <1>3, AskedSame DEF RegReply, Accepted, End, bluezVars, Requested
<1>4. ASSUME NEW a \in Ads, RegLost(a) \/ RunLost(a) PROVE NoOrphan'
  BY <1>4, <1>0, AskedSame DEF RegLost, RunLost, End, bluezVars
<1>5. ASSUME NEW a \in Ads, DropRegister(a) \/ MsgClosed(a) PROVE NoOrphan'
  BY <1>5, AskedSame DEF DropRegister, MsgClosed, End, bluezVars
<1>6. ASSUME NEW a \in Ads, Leave(a) PROVE NoOrphan'
  BY <1>6, AskedSame DEF Leave, End, bluezVars
<1>7. ASSUME NEW a \in Ads, MsgRelease(a) PROVE NoOrphan'
  <2>1. CASE ~conn
    BY <1>7, <1>0, <2>1, AskedSame DEF MsgRelease, Withdraw, Request, End
  <2>2. CASE conn
    <3> DEFINE r == [req |-> "Unregister", ad |-> a]
    <3>1. r \in Requests /\ inbox' = Append(inbox, r)
      BY <1>7, <2>2 DEF MsgRelease, Withdraw, Request, Requests
    <3>2. \A b : Asked("Register", b)' <=> Asked("Register", b)
      BY <3>1, AskedAppend DEF BluezTypes
    <3> QED
      BY <1>7, <2>2, <3>2 DEF MsgRelease, Withdraw, Request
  <2> QED
    BY <2>1, <2>2
<1>8. ASSUME NEW a \in Ads, UnregReply(a) PROVE NoOrphan'
  BY <1>8, AskedSame DEF UnregReply, Accepted, UnregRefused, End, bluezVars, Requested
<1>9. ASSUME NEW a \in Ads, Release(a) \/ ReleaseSent(a) \/ Joined(a) \/ DropWorker(a) PROVE NoOrphan'
  BY <1>9, AskedSame DEF Release, ReleaseSent, Joined, DropWorker, bluezVars
<1>10. CASE BluezRegister \/ BluezUnregister
  <2>1. /\ inbox # <<>> /\ inbox' = Tail(inbox) /\ Head(inbox) \in Requests
        /\ UNCHANGED <<st, user, strayed>>
    BY <1>10 DEF BluezRegister, BluezUnregister, BluezTypes
  <2>2. PICK q \in {"Register", "Unregister"}, b \in Ads : Head(inbox) = [req |-> q, ad |-> b]
    BY <2>1 DEF Requests
  <2>3. Asked(q, b) /\ \A req, a : Asked(req, a)' => Asked(req, a)
    BY <2>1, <2>2, AskedTail DEF BluezTypes, Requested
  <2>4. bluez' = bluez \/ bluez' = NoAd \/ (q = "Register" /\ bluez' = b)
    BY <1>10, <2>2 DEF BluezRegister, BluezUnregister
  <2>5. \A a \in Ads : Advertised(a)' => Advertised(a)
    BY <2>3, <2>4, NoAdIsNone
  <2> QED
    BY <2>1, <2>5
<1>11. CASE BluezRelease
  <2>1. \A a \in Ads : Advertised(a)' => Advertised(a)
    BY <1>11, NoAdIsNone, AskedSame DEF BluezRelease
  <2> QED
    BY <1>11, <2>1 DEF BluezRelease
<1>12. CASE LoseConn
  <2>1. \A a \in Ads : ~Advertised(a)'
    BY <1>12, NoAdIsNone DEF LoseConn, Asked
  <2> QED
    BY <2>1
<1>13. CASE UNCHANGED <<st, user, strayed, inbox, bluez>>
  BY <1>13, AskedSame
<1> QED
  BY <1>1, <1>2, <1>3, <1>4, <1>5, <1>6, <1>7, <1>8, <1>9, <1>10, <1>11, <1>12, <1>13
  DEF Next, Registering, Task, User, Bluez, MsgAlive, AskAlive, AliveSent,
      SomebodyCalls, bluezVars, vars

-----------------------------------------------------------------------------
\* The first state.
LEMMA InitIInv == Init => IInv /\ NoOrphan
<1> SUFFICES ASSUME Init PROVE IInv /\ NoOrphan
  OBVIOUS
<1>1. <<>> \in Seq(Requests) /\ <<>> \in Seq(Calls) /\ <<>> \in Seq({"Release", "Alive"}) /\ Len(<<>>) = 0
  OBVIOUS
<1>2. TypeOK
  BY <1>1, CallCapType
  DEF Init, TypeOK, AdTypes, ChanTypes, PathTypes, BluezTypes, Served, Ended, ChanCap
<1>3. \A a \in Ads : ~ReleaseComes(a) /\ \A req : ~Asked(req, a)
  <2>1. inbox = <<>> /\ calls = <<>>
    BY DEF Init
  <2>2. \A i \in DOMAIN inbox : FALSE
    BY <2>1
  <2>3. \A i \in DOMAIN calls : FALSE
    BY <2>1
  <2> QED
    BY <2>2, <2>3 DEF ReleaseComes, Asked
<1>4. \A a \in Ads : ~Advertised(a)
  BY <1>3, NoAdIsNone DEF Init, Advertised
<1>5. Stages /\ PathHeld /\ Kept
  BY DEF Init, Stages, AtWork, PathHeld, Kept, Lost, Served, Ended
<1>6. Requested /\ NoOrphan
  BY <1>3, <1>4 DEF Init, Requested, NoOrphan
<1> QED
  BY <1>2, <1>5, <1>6 DEF IInv

\* In every reachable state code, user and BlueZ fit together, and an
\* advertisement that is served has its path.
THEOREM PathInv == Spec => []IInv
<1>1. Init => IInv
  BY InitIInv
<1>2. IInv /\ [Next]_vars => IInv'
  BY TypeStep, StagesStep, PathStep, RequestedStep, KeptStep DEF IInv
<1> QED
  BY <1>1, <1>2, PTL DEF Spec

\* What BlueZ advertises is served.
THEOREM NothingIsOrphaned == Spec => []NoOrphan
<1>1. Init => NoOrphan
  BY InitIInv
<1>2. IInv /\ NoOrphan /\ [Next]_vars => NoOrphan'
  BY OrphanStep DEF IInv
<1> QED
  BY <1>1, <1>2, PathInv, PTL DEF Spec

\* release loses an advertisement for a cause only.
THEOREM LossHasCause == Spec => LossNeedsCause
<1> DEFINE Caused == \A a \in Ads : user[a] = "joining" /\ user'[a] = "failed" =>
                       ~conn \/ st[a] = "panic" \/ a \in released
<1>1. ASSUME IInv, [Next]_vars PROVE Caused
  <2> SUFFICES ASSUME NEW a \in Ads, user[a] = "joining", user'[a] = "failed"
               PROVE  ~conn \/ st[a] = "panic" \/ a \in released
    OBVIOUS
  <2>1. st[a] \in {"err", "panic"}
    BY <1>1
    DEF IInv, TypeOK, AdTypes, Stages, Next, Registering, Task, User, Bluez, vars,
        Register, RegCall, RegReply, RegLost, RunCall, MsgAlive, MsgRelease, MsgClosed,
        UnregReply, RunLost, Leave, AskAlive, AliveSent, Release, ReleaseSent, Joined,
        DropWorker, DropRegister, BluezRegister, BluezUnregister, BluezRelease,
        SomebodyCalls, LoseConn, Ended
  <2> QED
    BY <1>1, <2>1 DEF IInv, Kept, Lost
<1> QED
  BY <1>1, PathInv, PTL DEF Spec, LossNeedsCause
=============================================================================
