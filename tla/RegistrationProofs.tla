------------------------- MODULE RegistrationProofs -------------------------
(***************************************************************************)
(* Proofs about Registration, for any set of applications without equal    *)
(* siblings and any bounds: BlueZ is told of the whole application or of   *)
(* nothing, agrees with the application on whether it is registered, and   *)
(* register fails only for a cause.                                        *)
(***************************************************************************)
EXTENDS Registration, SequenceTheorems, TLAPS

-----------------------------------------------------------------------------
(* Places and keys.                                                         *)

(* The indices of a vector.                                                 *)
LEMMA IndicesArePositive ==
  ASSUME NEW S, NEW seq \in Seq(S)
  PROVE  DOMAIN seq \subseteq Nat \ {0} /\ \A i \in DOMAIN seq : seq[i] \in S
<1>1. Len(seq) \in Nat /\ DOMAIN seq = 1 .. Len(seq)
  BY LenProperties
<1>2. \A i \in 1 .. Len(seq) : seq[i] \in S
  BY ElementOfSeq
<1>3. QED
  BY <1>1, <1>2

(* What there is at the indices of a service, characteristic, descriptor.   *)
Chars(i) == app[i].chars
Descs(i, j) == app[i].chars[j].descs
LEMMA AppShape ==
  ASSUME app \in Apps
  PROVE  /\ DOMAIN app \subseteq Nat \ {0}
         /\ \A i \in DOMAIN app :
              /\ app[i].id \in Nat /\ app[i].includes \subseteq Nat
              /\ DOMAIN Chars(i) \subseteq Nat \ {0}
              /\ \A j \in DOMAIN Chars(i) :
                   /\ Chars(i)[j].id \in Nat
                   /\ DOMAIN Descs(i, j) \subseteq Nat \ {0}
                   /\ \A k \in DOMAIN Descs(i, j) : Descs(i, j)[k].id \in Nat
<1>1. app \in Seq(ServType)
  BY AppsType
<1>2. DOMAIN app \subseteq Nat \ {0} /\ \A i \in DOMAIN app : app[i] \in ServType
  BY <1>1, IndicesArePositive
<1>3. ASSUME NEW i \in DOMAIN app
      PROVE  app[i].id \in Nat /\ app[i].includes \subseteq Nat /\ Chars(i) \in Seq(ChrcType)
  BY <1>2 DEF ServType, Chars
<1>4. ASSUME NEW i \in DOMAIN app
      PROVE  DOMAIN Chars(i) \subseteq Nat \ {0} /\ \A j \in DOMAIN Chars(i) : Chars(i)[j] \in ChrcType
  BY <1>3, IndicesArePositive
<1>5. ASSUME NEW i \in DOMAIN app, NEW j \in DOMAIN Chars(i)
      PROVE  Chars(i)[j].id \in Nat /\ Descs(i, j) \in Seq(DescType)
  <2>1. Chars(i)[j] \in ChrcType
    BY <1>4
  <2>2. QED
    BY <2>1 DEF ChrcType, Descs, Chars
<1>6. ASSUME NEW i \in DOMAIN app, NEW j \in DOMAIN Chars(i)
      PROVE  /\ DOMAIN Descs(i, j) \subseteq Nat \ {0}
             /\ \A k \in DOMAIN Descs(i, j) : Descs(i, j)[k] \in DescType
  BY <1>5, IndicesArePositive
<1>7. ASSUME NEW i \in DOMAIN app, NEW j \in DOMAIN Chars(i), NEW k \in DOMAIN Descs(i, j)
      PROVE  Descs(i, j)[k].id \in Nat
  BY <1>6 DEF DescType
<1>8. QED
  BY <1>2, <1>3, <1>4, <1>5, <1>6, <1>7

(* Siblings differ.                                                         *)
LEMMA SiblingsDiffer ==
  ASSUME app \in Apps
  PROVE  /\ \A i, l \in DOMAIN app : app[i].id = app[l].id => i = l
         /\ \A i \in DOMAIN app :
              /\ \A j, l \in DOMAIN Chars(i) : Chars(i)[j].id = Chars(i)[l].id => j = l
              /\ \A j \in DOMAIN Chars(i) : \A k, l \in DOMAIN Descs(i, j) :
                   Descs(i, j)[k].id = Descs(i, j)[l].id => k = l
BY AppsType DEF Distinct, Chars, Descs

(* A place is that of a service, a characteristic or a descriptor.          *)
IsServ(p, i) == p = <<i, 0, 0>>
IsChrc(p, i, j) == j \in DOMAIN Chars(i) /\ p = <<i, j, 0>>
IsDesc(p, i, j, k) == j \in DOMAIN Chars(i) /\ k \in DOMAIN Descs(i, j) /\ p = <<i, j, k>>
LEMMA PlaceShape ==
  ASSUME NEW p \in places
  PROVE  \E i \in DOMAIN app :
           IsServ(p, i) \/ \E j : IsChrc(p, i, j) \/ \E k : IsDesc(p, i, j, k)
<1> USE DEF IsServ, IsChrc, IsDesc, Chars, Descs
<1>1. CASE p \in {<<i, 0, 0>> : i \in DOMAIN app}
  BY <1>1
<1>2. CASE p \in UNION {{<<i, j, 0>> : j \in DOMAIN app[i].chars} : i \in DOMAIN app}
  <2>1. PICK i \in DOMAIN app : p \in {<<i, j, 0>> : j \in DOMAIN app[i].chars}
    BY <1>2
  <2>2. QED
    BY <2>1
<1>3. CASE p \in UNION {UNION {{<<i, j, k>> : k \in DOMAIN app[i].chars[j].descs}
                                 : j \in DOMAIN app[i].chars} : i \in DOMAIN app}
  <2>1. PICK i \in DOMAIN app :
          p \in UNION {{<<i, j, k>> : k \in DOMAIN app[i].chars[j].descs} : j \in DOMAIN app[i].chars}
    BY <1>3
  <2>2. PICK j \in DOMAIN app[i].chars : p \in {<<i, j, k>> : k \in DOMAIN app[i].chars[j].descs}
    BY <2>1
  <2>3. QED
    BY <2>2
<1>4. QED
  BY <1>1, <1>2, <1>3 DEF places, Places

(* and each of them is a place.                                             *)
LEMMA ArePlaces ==
  /\ \A i \in DOMAIN app : <<i, 0, 0>> \in places
  /\ \A i \in DOMAIN app : \A j \in DOMAIN Chars(i) :
       /\ <<i, j, 0>> \in places
       /\ \A k \in DOMAIN Descs(i, j) : <<i, j, k>> \in places
<1>1. ASSUME NEW i \in DOMAIN app
      PROVE  <<i, 0, 0>> \in places
  BY DEF places, Places
<1>2. ASSUME NEW i \in DOMAIN app, NEW j \in DOMAIN Chars(i)
      PROVE  <<i, j, 0>> \in places
  <2>1. <<i, j, 0>> \in UNION {{<<m, n, 0>> : n \in DOMAIN app[m].chars} : m \in DOMAIN app}
    BY DEF Chars
  <2>2. QED
    BY <2>1 DEF places, Places
<1>3. ASSUME NEW i \in DOMAIN app, NEW j \in DOMAIN Chars(i), NEW k \in DOMAIN Descs(i, j)
      PROVE  <<i, j, k>> \in places
  <2>1. <<i, j, k>> \in {<<i, j, o>> : o \in DOMAIN app[i].chars[j].descs}
    BY DEF Descs
  <2>2. <<i, j, k>> \in UNION {{<<i, n, o>> : o \in DOMAIN app[i].chars[n].descs} : n \in DOMAIN app[i].chars}
    BY <2>1 DEF Chars
  <2>3. <<i, j, k>> \in UNION {UNION {{<<m, n, o>> : o \in DOMAIN app[m].chars[n].descs}
                                        : n \in DOMAIN app[m].chars} : m \in DOMAIN app}
    BY <2>2
  <2>4. QED
    BY <2>3 DEF places, Places
<1>4. QED
  BY <1>1, <1>2, <1>3

(* Keys, indices, and which attributes keep their worker.                   *)
ServId(i) == app[i].id
ChrcId(i, j) == Chars(i)[j].id
DescId(i, j, k) == Descs(i, j)[k].id
LEMMA ServPlace ==
  ASSUME app \in Apps, NEW i \in DOMAIN app, NEW p, IsServ(p, i)
  PROVE  /\ i # 0 /\ p[1] = i /\ p[2] = 0 /\ p[3] = 0
         /\ KeyOf(p) = <<ServId(i), 0, 0>> /\ Keeps(p)
         /\ KeyOf(p)[1] = ServId(i) /\ KeyOf(p)[2] = 0 /\ KeyOf(p)[3] = 0
<1>1. i # 0
  BY AppShape
<1>2. p = <<i, 0, 0>>
  BY DEF IsServ
<1>3. KeyOf(p) = <<ServId(i), 0, 0>>
  BY <1>2 DEF KeyOf, KeyAt, Key, ServId
<1>4. QED
  BY <1>1, <1>2, <1>3 DEF Keeps

LEMMA ChrcPlace ==
  ASSUME app \in Apps, NEW i \in DOMAIN app, NEW j, NEW p, IsChrc(p, i, j)
  PROVE  /\ i # 0 /\ j # 0 /\ p[1] = i /\ p[2] = j /\ p[3] = 0
         /\ KeyOf(p) = <<ServId(i), ChrcId(i, j), 0>> /\ (Keeps(p) <=> ChrcId(i, j) # 0)
         /\ KeyOf(p)[1] = ServId(i) /\ KeyOf(p)[2] = ChrcId(i, j) /\ KeyOf(p)[3] = 0
<1>1. i # 0 /\ j # 0
  BY AppShape DEF IsChrc
<1>2. p = <<i, j, 0>>
  BY DEF IsChrc
<1>3. p[1] = i /\ p[2] = j /\ p[3] = 0
  BY <1>2
<1>4. KeyOf(p) = <<ServId(i), ChrcId(i, j), 0>>
  BY <1>1, <1>3 DEF KeyOf, KeyAt, Key, ServId, ChrcId, Chars
<1>5. Keeps(p) <=> ChrcId(i, j) # 0
  BY <1>1, <1>3 DEF Keeps, ChrcId, Chars
<1>6. QED
  BY <1>1, <1>3, <1>4, <1>5

LEMMA DescPlace ==
  ASSUME app \in Apps, NEW i \in DOMAIN app, NEW j, NEW k, NEW p, IsDesc(p, i, j, k)
  PROVE  /\ i # 0 /\ j # 0 /\ k # 0 /\ p[1] = i /\ p[2] = j /\ p[3] = k
         /\ KeyOf(p) = <<ServId(i), ChrcId(i, j), DescId(i, j, k)>>
         /\ Keeps(p) <=> DescId(i, j, k) # 0
         /\ KeyOf(p)[1] = ServId(i) /\ KeyOf(p)[2] = ChrcId(i, j) /\ KeyOf(p)[3] = DescId(i, j, k)
<1>1. i # 0 /\ j # 0 /\ k # 0
  BY AppShape DEF IsDesc
<1>2. p = <<i, j, k>>
  BY DEF IsDesc
<1>3. p[1] = i /\ p[2] = j /\ p[3] = k
  BY <1>2
<1>4. KeyOf(p) = <<ServId(i), ChrcId(i, j), DescId(i, j, k)>>
  BY <1>1, <1>3 DEF KeyOf, KeyAt, Key, ServId, ChrcId, DescId, Chars, Descs
<1>5. Keeps(p) <=> DescId(i, j, k) # 0
  BY <1>1, <1>3 DEF Keeps, DescId, Descs
<1>6. QED
  BY <1>1, <1>3, <1>4, <1>5

(* A worker is kept in the map just when it is the last that is filed under *)
(* its key: what replaces it, if anything does, is what is above it.        *)
LEMMA KeptIsLast ==
  ASSUME app \in Apps
  PROVE  Kept = {p \in places : \A q \in places \ {p} : KeyOf(p) = KeyOf(q) => StartsBefore(q, p)}
<1> USE DEF ServId, ChrcId, DescId
<1>1. ASSUME NEW p \in places, NEW q \in places, q # p, KeyOf(p) = KeyOf(q), Keeps(p)
      PROVE  StartsBefore(q, p)
  <2>1. PICK i \in DOMAIN app :
          IsServ(p, i) \/ \E j : IsChrc(p, i, j) \/ \E k : IsDesc(p, i, j, k)
    BY PlaceShape
  <2>2. PICK l \in DOMAIN app :
          IsServ(q, l) \/ \E j : IsChrc(q, l, j) \/ \E k : IsDesc(q, l, j, k)
    BY PlaceShape
  <2>3. i = l /\ p[1] = q[1]
    <3>1. KeyOf(p)[1] = app[i].id /\ p[1] = i
      BY <2>1, ServPlace, ChrcPlace, DescPlace
    <3>2. KeyOf(q)[1] = app[l].id /\ q[1] = l
      BY <2>2, ServPlace, ChrcPlace, DescPlace
    <3>3. QED
      BY <1>1, <3>1, <3>2, SiblingsDiffer
  <2>4. CASE IsServ(p, i)
    <3>1. p[2] = 0 /\ ~IsServ(q, i)
      BY <1>1, <2>4, ServPlace DEF IsServ
    <3>2. q[2] # 0
      BY <2>2, <2>3, <3>1, ChrcPlace, DescPlace
    <3>3. QED
      BY <2>3, <3>1, <3>2 DEF StartsBefore, Earlier
  <2>5. ASSUME NEW j, IsChrc(p, i, j)
        PROVE  StartsBefore(q, p)
    <3>1. KeyOf(p)[2] = Chars(i)[j].id /\ Chars(i)[j].id # 0 /\ p[2] = j /\ p[3] = 0 /\ j \in DOMAIN Chars(i)
      BY <1>1, <2>5, ChrcPlace DEF IsChrc
    <3>2. PICK m : IsChrc(q, i, m) \/ \E k : IsDesc(q, i, m, k)
      BY <1>1, <2>2, <2>3, <3>1, ServPlace
    <3>3. KeyOf(q)[2] = Chars(i)[m].id /\ q[2] = m /\ m \in DOMAIN Chars(i)
      BY <3>2, ChrcPlace, DescPlace DEF IsChrc, IsDesc
    <3>4. m = j
      BY <1>1, <3>1, <3>3, SiblingsDiffer
    <3>5. ~IsChrc(q, i, j)
      BY <1>1, <2>5 DEF IsChrc
    <3>6. q[3] # 0
      BY <3>2, <3>4, <3>5, DescPlace
    <3>7. QED
      BY <2>3, <3>1, <3>3, <3>4, <3>6 DEF StartsBefore, Earlier
  <2>6. ASSUME NEW j, NEW k, IsDesc(p, i, j, k)
        PROVE  FALSE
    <3>1. /\ KeyOf(p)[2] = Chars(i)[j].id /\ KeyOf(p)[3] = Descs(i, j)[k].id /\ Descs(i, j)[k].id # 0
          /\ j \in DOMAIN Chars(i) /\ k \in DOMAIN Descs(i, j)
      BY <1>1, <2>6, DescPlace DEF IsDesc
    <3>2. PICK m, n : IsDesc(q, i, m, n)
      BY <1>1, <2>2, <2>3, <3>1, ServPlace, ChrcPlace
    <3>3. /\ KeyOf(q)[2] = Chars(i)[m].id /\ KeyOf(q)[3] = Descs(i, m)[n].id
          /\ m \in DOMAIN Chars(i) /\ n \in DOMAIN Descs(i, m)
      BY <3>2, DescPlace DEF IsDesc
    <3>4. m = j
      BY <1>1, <3>1, <3>3, SiblingsDiffer
    <3>5. n = k
      BY <1>1, <3>1, <3>3, <3>4, SiblingsDiffer
    <3>6. QED
      BY <1>1, <2>6, <3>2, <3>4, <3>5 DEF IsDesc
  <2>7. QED
    BY <2>1, <2>4, <2>5, <2>6
<1>2. ASSUME NEW p \in places, ~Keeps(p)
      PROVE  \E q \in places \ {p} : KeyOf(p) = KeyOf(q) /\ ~StartsBefore(q, p)
  <2>1. PICK i \in DOMAIN app :
          IsServ(p, i) \/ \E j : IsChrc(p, i, j) \/ \E k : IsDesc(p, i, j, k)
    BY PlaceShape
  <2>2. ~IsServ(p, i)
    BY <1>2, ServPlace
  <2>3. ASSUME NEW j, IsChrc(p, i, j)
        PROVE  \E q \in places \ {p} : KeyOf(p) = KeyOf(q) /\ ~StartsBefore(q, p)
    <3> DEFINE q == <<i, 0, 0>>
    <3>1. IsServ(q, i) /\ q \in places
      BY ArePlaces DEF IsServ
    <3>2. KeyOf(p) = <<app[i].id, 0, 0>> /\ p[1] = i /\ p[2] # 0 /\ i \in Nat
      BY <1>2, <2>3, ChrcPlace, AppShape
    <3>3. KeyOf(q) = <<app[i].id, 0, 0>> /\ q[1] = i /\ q[2] = 0
      BY <3>1, ServPlace
    <3> HIDE DEF q
    <3>4. ~StartsBefore(q, p)
      BY <3>2, <3>3 DEF StartsBefore, Earlier
    <3>5. QED
      BY <3>1, <3>2, <3>3, <3>4
  <2>4. ASSUME NEW j, NEW k, IsDesc(p, i, j, k)
        PROVE  \E q \in places \ {p} : KeyOf(p) = KeyOf(q) /\ ~StartsBefore(q, p)
    <3> DEFINE q == <<i, j, 0>>
    <3>1. IsChrc(q, i, j) /\ q \in places
      BY <2>4, ArePlaces DEF IsChrc, IsDesc
    <3>2. KeyOf(p) = <<app[i].id, Chars(i)[j].id, 0>> /\ p[1] = i /\ p[2] = j /\ p[3] # 0
      BY <1>2, <2>4, DescPlace
    <3>3. KeyOf(q) = <<app[i].id, Chars(i)[j].id, 0>> /\ q[1] = i /\ q[2] = j /\ q[3] = 0
      BY <3>1, ChrcPlace
    <3>4. i \in Nat /\ j \in Nat
      BY <2>4, AppShape DEF IsDesc
    <3> HIDE DEF q
    <3>5. ~StartsBefore(q, p)
      BY <3>2, <3>3, <3>4 DEF StartsBefore, Earlier
    <3>6. QED
      BY <3>1, <3>2, <3>3, <3>5
  <2>5. QED
    BY <2>1, <2>2, <2>3, <2>4
<1>3. QED
  BY <1>1, <1>2 DEF Kept

-----------------------------------------------------------------------------
(* What a step does.                                                        *)

(* register fails, or the app worker dies.                                  *)
LEMMA FailsIsOver ==
  ASSUME Fails
  PROVE  IsOver(stage') /\ stage' \in {"err", "dead"}
BY DEF Fails, IsOver

(* handle_app panics.                                                       *)
LEMMA PanicIsOver ==
  ASSUME Panics
  PROVE  IsOver(stage') /\ stage' \in {"panic", "dead"} /\ failed' = failed \cup {AppPlace}
BY DEF Panics, IsOver

(* The call that is taken, and what is left.                                *)
LEMMA CallTaken ==
  ASSUME TypeOK, TakeCall
  PROVE  /\ calls # <<>> /\ calls' = Tail(calls) /\ calls' \in Seq(Call)
         /\ Len(calls') = Len(calls) - 1
         /\ Head(calls).from \in 0 .. MaxName
<1>1. calls \in Seq(Call) /\ calls # <<>> /\ calls' = Tail(calls)
  BY DEF TakeCall, TypeOK
<1>2. Tail(calls) \in Seq(Call) /\ Head(calls) \in Call /\ Len(Tail(calls)) = Len(calls) - 1
  BY <1>1, HeadTailProperties
<1>3. QED
  BY <1>1, <1>2 DEF Call

LEMMA OverIsOver ==
  ASSUME TypeOK, NEW how \in Over, IsOver(how)
  PROVE  stage' \in Over /\ job' = NoJob /\ senders' = {} /\ workers' \subseteq workers
BY DEF IsOver

(* The application is never changed, nor what follows from it.              *)
LEMMA AppStays ==
  ASSUME [Next]_vars
  PROVE  /\ app' = app /\ filter' = filter
         /\ places' = places /\ Kept' = Kept
         /\ \A p : KeyOf(p)' = KeyOf(p) /\ Declared(p)' = Declared(p)
<1>1. app' = app /\ filter' = filter
  <2>1. CASE Register
    BY <2>1 DEF Register, LookUp, Start, Include, Ask, TakeReply
  <2>2. CASE Serve \/ Cancel
    BY <2>2 DEF Serve, TakeCall, Reply, Lost, Cancel
  <2>3. CASE \E p \in places : Task(p) \/ TaskFails(p)
    BY <2>3 DEF Task, TaskIncludes, TaskAnswers, TaskClosed, TaskFails, ours
  <2>4. CASE Bluez \/ World
    BY <2>4 DEF Bluez, World, BluezFetch, BluezAccept, BluezRefuse, CallAgain, BluezStop,
                BluezStart, LoseConn, ours
  <2>5. CASE UNCHANGED vars
    BY <2>5 DEF vars, ours
  <2>6. QED
    BY <2>1, <2>2, <2>3, <2>4, <2>5 DEF Next
<1>2. places' = places
  BY <1>1 DEF places
<1>3. ASSUME NEW p
      PROVE  KeyOf(p)' = KeyOf(p) /\ Declared(p)' = Declared(p) /\ Keeps(p)' = Keeps(p)
  BY <1>1, <1>2 DEF KeyOf, Declared, Keeps
<1>4. Kept' = Kept
  BY <1>2, <1>3 DEF Kept
<1>5. QED
  BY <1>1, <1>2, <1>3, <1>4

(* Channels of at most two messages.                                        *)
LEMMA ShortChannels ==
  ASSUME NEW a, NEW b
  PROVE  /\ Append(<<>>, a) = <<a>> /\ Append(<<a>>, b) = <<a, b>>
         /\ Head(<<a>>) = a /\ Tail(<<a>>) = <<>>
         /\ Head(<<a, b>>) = a /\ Tail(<<a, b>>) = <<b>>
<1> DEFINE S == {a, b}
<1>1. <<a>> \in Seq(S) /\ <<b>> \in Seq(S) /\ <<a, b>> \in Seq(S) /\ b \in S
  OBVIOUS
<1>2. PICK s \in Seq(S) : s = <<a>>
  BY <1>1
<1>3. PICK t \in Seq(S) : t = <<a, b>>
  BY <1>1
<1>4. PICK u \in Seq(S) : u = <<b>>
  BY <1>1
<1>5. /\ Len(s) = 1 /\ s[1] = a /\ Len(u) = 1 /\ u[1] = b
      /\ Len(t) = 2 /\ t[1] = a /\ t[2] = b
  BY <1>2, <1>3, <1>4
<1> HIDE DEF S
<1>6. /\ Append(s, b) \in Seq(S) /\ Len(Append(s, b)) = Len(s) + 1
      /\ \A i \in 1 .. Len(s) : Append(s, b)[i] = s[i]
      /\ Append(s, b)[Len(s) + 1] = b
  BY <1>1, AppendProperties
<1>7. Len(Append(s, b)) = 2 /\ Append(s, b)[1] = a /\ Append(s, b)[2] = b
  BY <1>5, <1>6
<1>8. \A i \in 1 .. 2 : Append(s, b)[i] = t[i]
  BY <1>5, <1>7
<1>9. Append(s, b) = t
  BY <1>5, <1>6, <1>7, <1>8, SeqEqual
<1>10. t # <<>>
  BY <1>5
<1>11. /\ Tail(t) \in Seq(S) /\ Len(Tail(t)) = Len(t) - 1
       /\ \A i \in 1 .. Len(Tail(t)) : Tail(t)[i] = t[i + 1]
  BY <1>10, HeadTailProperties
<1>12. PICK v \in Seq(S) : v = Tail(t)
  BY <1>11
<1>13. Len(v) = Len(t) - 1 /\ \A i \in 1 .. Len(v) : v[i] = t[i + 1]
  BY <1>11, <1>12
<1>14. Len(v) = 1
  BY <1>5, <1>13
<1>15. v[1] = t[1 + 1]
  BY <1>13, <1>14
<1>16. \A i \in 1 .. 1 : v[i] = u[i]
  BY <1>5, <1>15
<1>17. v = u
  BY <1>5, <1>14, <1>16, SeqEqual
<1>18. Append(<<>>, a) = <<a>> /\ Head(<<a>>) = a /\ Head(<<a, b>>) = a
  OBVIOUS
<1>19. Tail(<<a>>) = <<>>
  OBVIOUS
<1>20. QED
  BY <1>2, <1>3, <1>4, <1>9, <1>12, <1>17, <1>18, <1>19

(* The types.                                                               *)
LEMMA InitTypes == Init => TypeOK
<1> SUFFICES ASSUME Init
             PROVE  TypeOK
  OBVIOUS
<1>1. chan \in [places -> Seq({"Includes", "ObjMgr"})] /\ \A p \in places : Len(chan[p]) <= 2
  <2>1. <<>> \in Seq({"Includes", "ObjMgr"}) /\ Len(<<>>) = 0
    BY EmptySeq
  <2>2. QED
    BY <2>1 DEF Init
<1>2. calls \in Seq(Call) /\ Len(calls) <= CallCap + MaxName
  BY EmptySeq, BoundType DEF Init
<1>3. untold \subseteq DOMAIN app /\ name \in 1 .. MaxName
  BY BoundType DEF Init
<1>4. job = NoJob /\ NoJob \in [from : 0 .. MaxName, on : BOOLEAN, wait : SUBSET {}, got : SUBSET Objects]
  BY BoundType DEF Init, NoJob, Stranger
<1>5. owner \in 0 .. MaxName /\ askedAs \in 0 .. MaxName
  <2>1. owner = 0 /\ askedAs = 0
    BY DEF Init, Nobody
  <2>2. 0 \in 0 .. MaxName
    BY BoundType
  <2>3. QED
    BY <2>1, <2>2
<1>6. task \in [places -> {"none", "run", "ended"}] /\ included \in [places -> SUBSET places]
  BY DEF Init
<1>7. /\ app \in Apps /\ filter \in BOOLEAN /\ stage = "lookup" /\ workers \subseteq places
      /\ senders = {} /\ failed \subseteq places \cup {AppPlace} /\ res = "none"
      /\ running \in BOOLEAN /\ bz = "idle" /\ known = {} /\ conn \in BOOLEAN
  BY DEF Init
<1>8. QED
  BY <1>1, <1>2, <1>3, <1>4, <1>5, <1>6, <1>7 DEF TypeOK

LEMMA RegisterTypes == IInv /\ (Register \/ Cancel) => TypeOK'
<1> SUFFICES ASSUME IInv, Register \/ Cancel
             PROVE  TypeOK'
  OBVIOUS
<1> USE AppStays DEF Serving, Over
<1>1. TypeOK /\ [Next]_vars
  BY DEF IInv, Next
<1>2. ASSUME NEW how \in Over, IsOver(how)
      PROVE  /\ stage' \in Over /\ workers' \subseteq places /\ senders' \subseteq places
             /\ job' \in [from : 0 .. MaxName, on : BOOLEAN, wait : SUBSET senders', got : SUBSET Objects']
  BY <1>1, <1>2, BoundType DEF IsOver, NoJob, Stranger, TypeOK
<1>3. CASE LookUp
  <2>1. CASE Fails
    BY <1>1, <1>2, <1>3, <2>1, FailsIsOver DEF LookUp, TypeOK, Objects, tasks, bluez
  <2>2. CASE ~Fails
    BY <1>1, <1>3, <2>2 DEF LookUp, TypeOK, Objects, tasks, bluez
  <2>3. QED
    BY <2>1, <2>2
<1>4. CASE Start
  BY <1>1, <1>4 DEF Start, TypeOK, Objects, bluez, Insert
<1>5. CASE Include
  <2>1. PICK i \in untold :
         /\ untold' = untold \ {i}
         /\ \/ /\ chan' = [chan EXCEPT ![ServicePlace(i)] = Append(@, "Includes")]
               /\ UNCHANGED <<stage, job, workers, senders>>
            \/ IsOver("panic") /\ UNCHANGED chan
    BY <1>5 DEF Include
  <2>2. chan' \in [places -> Seq({"Includes", "ObjMgr"})] /\ \A p \in places : Len(chan'[p]) <= 2
    <3> DEFINE s == ServicePlace(i)
    <3>1. s \in places
      BY <1>1, ArePlaces DEF TypeOK, ServicePlace
    <3>2. chan[s] = <<>>
      BY <1>1, <3>1 DEF IInv, ChannelsInv, TypeOK, ServicePlace
    <3> HIDE DEF s
    <3>3. Append(<<>>, "Includes") = <<"Includes">>
      OBVIOUS
    <3>4. <<"Includes">> \in Seq({"Includes", "ObjMgr"}) /\ Len(<<"Includes">>) = 1
      OBVIOUS
    <3>5. CASE UNCHANGED chan
      BY <1>1, <3>5 DEF TypeOK
    <3>6. CASE chan' = [chan EXCEPT ![s] = Append(@, "Includes")]
      <4>1. chan' = [chan EXCEPT ![s] = <<"Includes">>]
        BY <1>1, <3>1, <3>2, <3>3, <3>6 DEF TypeOK
      <4>2. QED
        BY <1>1, <3>1, <3>4, <4>1 DEF TypeOK
    <3>7. QED
      BY <2>1, <3>5, <3>6 DEF s
  <2>3. CASE IsOver("panic")
    BY <1>1, <1>2, <1>5, <2>1, <2>2, <2>3 DEF Include, TypeOK, Objects, bluez
  <2>4. CASE UNCHANGED <<stage, job, workers, senders>>
    BY <1>1, <1>5, <2>1, <2>2, <2>4 DEF Include, TypeOK, Objects, bluez
  <2>5. QED
    BY <2>1, <2>3, <2>4
<1>6. CASE Ask
  <2>1. CASE conn
    <3>1. job = NoJob /\ stage = "include"
      BY <1>6 DEF IInv, JobInv, Ask, AskNow
    <3>2. job' = job /\ job.wait = {}
      BY <1>6, <2>1, <3>1 DEF Ask, NoJob
    <3>3. stage' = "pending" /\ senders' = workers /\ askedAs' = name /\ res' \in {"none", "err"}
      BY <1>6, <2>1 DEF Ask
    <3>4. bz' \in {"asked", bz}
      BY <1>6, <2>1 DEF Ask
    <3>5. QED
      BY <1>1, <1>6, <2>1, <3>2, <3>3, <3>4 DEF Ask, TypeOK, Objects, tasks
  <2>2. CASE ~conn
    BY <1>1, <1>2, <1>6, <2>2, FailsIsOver DEF Ask, TypeOK, Objects, tasks, bluez
  <2>3. QED
    BY <2>1, <2>2
<1>7. CASE TakeReply
  <2>1. CASE Accepted
    BY <1>1, <1>7, <2>1 DEF TakeReply, TypeOK, Objects, tasks, bluez
  <2>2. CASE ~Accepted
    BY <1>1, <1>2, <1>7, <2>2, FailsIsOver DEF TakeReply, TypeOK, Objects, tasks, bluez
  <2>3. QED
    BY <2>1, <2>2
<1>8. CASE Cancel
  BY <1>1, <1>2, <1>8 DEF Cancel, TypeOK, Objects, tasks, bluez
<1>9. QED
  BY <1>3, <1>4, <1>5, <1>6, <1>7, <1>8 DEF Register

LEMMA ServeTypes == IInv /\ Serve => TypeOK'
<1> SUFFICES ASSUME IInv, Serve
             PROVE  TypeOK'
  OBVIOUS
<1> USE AppStays DEF Serving, Over
<1>1. TypeOK /\ [Next]_vars
  BY DEF IInv, Next
<1>2. ASSUME NEW how \in Over, IsOver(how)
      PROVE  /\ stage' \in Over /\ workers' \subseteq places /\ senders' \subseteq places
             /\ job' \in [from : 0 .. MaxName, on : BOOLEAN, wait : SUBSET senders', got : SUBSET Objects']
  BY <1>1, <1>2, BoundType DEF IsOver, NoJob, Stranger, TypeOK
<1>3. CASE TakeCall
  <2>1. calls' \in Seq(Call) /\ Len(calls') <= CallCap + MaxName /\ Head(calls).from \in 0 .. MaxName
    <3>1. PICK n \in Nat : n = Len(calls)
      BY <1>1, LenProperties DEF TypeOK
    <3>2. n <= CallCap + MaxName /\ n - 1 <= CallCap + MaxName
      BY <1>1, <3>1, BoundType DEF TypeOK
    <3>3. QED
      BY <1>1, <1>3, <3>1, <3>2, CallTaken
  <2>2. CASE RefusedCall(Head(calls).from) /\ UNCHANGED <<chan, failed>>
    BY <1>1, <1>3, <2>1, <2>2 DEF TakeCall, RefusedCall, TypeOK, Objects
  <2>6. CASE Panics /\ UNCHANGED <<chan, bz>>
    <3>1. stage' \in Over /\ IsOver(stage') /\ failed' \subseteq places \cup {AppPlace}
      BY <1>1, <2>6, PanicIsOver DEF TypeOK
    <3>2. QED
      BY <1>1, <1>2, <1>3, <2>1, <2>6, <3>1 DEF TakeCall, TypeOK, Objects
  <2>3. ASSUME NEW set \in SUBSET senders,
               chan' = [p \in places |-> IF p \in set THEN Append(chan[p], "ObjMgr") ELSE chan[p]]
        PROVE  chan' \in [places -> Seq({"Includes", "ObjMgr"})] /\ \A p \in places : Len(chan'[p]) <= 2
    <3>1. ASSUME NEW p \in places
          PROVE  chan'[p] \in Seq({"Includes", "ObjMgr"}) /\ Len(chan'[p]) <= 2
      <4>1. CASE p \notin set
        BY <1>1, <2>3, <4>1 DEF TypeOK
      <4>2. CASE p \in set
        <5>1. chan[p] \in {<<>>, <<"Includes">>}
          BY <1>3 DEF IInv, ChannelsInv, JobInv, NoJob, TakeCall, Serves, Asked, Includes
        <5>2. chan'[p] = Append(chan[p], "ObjMgr")
          BY <2>3, <4>2
        <5>3. CASE chan[p] = <<>>
          <6>1. chan'[p] = <<"ObjMgr">>
            BY <5>2, <5>3, ShortChannels
          <6>2. <<"ObjMgr">> \in Seq({"Includes", "ObjMgr"}) /\ Len(<<"ObjMgr">>) = 1
            OBVIOUS
          <6>3. QED
            BY <6>1, <6>2
        <5>4. CASE chan[p] = <<"Includes">>
          <6>1. chan'[p] = <<"Includes", "ObjMgr">>
            BY <5>2, <5>4, ShortChannels
          <6>2. /\ <<"Includes", "ObjMgr">> \in Seq({"Includes", "ObjMgr"})
                /\ Len(<<"Includes", "ObjMgr">>) = 2
            OBVIOUS
          <6>3. QED
            BY <6>1, <6>2
        <5>5. QED
          BY <5>1, <5>3, <5>4
      <4>3. QED
        BY <4>1, <4>2
    <3>2. QED
      BY <2>3, <3>1
  <2>4. CASE AskAll(Head(calls).from) /\ UNCHANGED <<bz, failed>>
    <3>1. CASE Fails
      <4>1. PICK set \in SUBSET senders :
              chan' = [p \in places |-> IF p \in set THEN Append(chan[p], "ObjMgr") ELSE chan[p]]
        BY <2>4 DEF AskAll
      <4>2. QED
        BY <1>1, <1>2, <1>3, <2>1, <2>3, <2>4, <3>1, <4>1, FailsIsOver DEF TakeCall, TypeOK, Objects
    <3>2. CASE ~Fails
      <4>1. /\ chan' = [p \in places |-> IF p \in senders THEN Append(chan[p], "ObjMgr") ELSE chan[p]]
            /\ job' = [from |-> Head(calls).from, on |-> TRUE, wait |-> senders, got |-> {}]
            /\ UNCHANGED <<stage, workers, senders>>
        BY <2>4, <3>2 DEF AskAll
      <4>2. job' \in [from : 0 .. MaxName, on : BOOLEAN, wait : SUBSET senders', got : SUBSET Objects']
        BY <2>1, <4>1
      <4>3. chan' \in [places -> Seq({"Includes", "ObjMgr"})] /\ \A p \in places : Len(chan'[p]) <= 2
        BY <2>3, <4>1
      <4>4. QED
        BY <1>1, <1>3, <2>1, <2>4, <4>1, <4>2, <4>3 DEF TakeCall, TypeOK, Objects
    <3>3. QED
      BY <3>1, <3>2
  <2>5. QED
    BY <1>3, <2>2, <2>4, <2>6 DEF TakeCall
<1>4. CASE Reply
  <2>1. CASE conn
    <3>1. job' = NoJob /\ known' \in {known, job.got} /\ bz' \in {bz, "told"}
      BY <1>4, <2>1 DEF Reply
    <3>2. QED
      BY <1>1, <1>4, <2>1, <3>1, BoundType DEF Reply, TypeOK, Objects, NoJob, Stranger, tasks
  <2>2. CASE ~conn
    BY <1>1, <1>2, <1>4, <2>2, FailsIsOver DEF Reply, TypeOK, Objects, tasks
  <2>3. QED
    BY <2>1, <2>2
<1>5. CASE Lost
  BY <1>1, <1>2, <1>5, FailsIsOver DEF Lost, TypeOK, Objects, tasks, bluez
<1>6. QED
  BY <1>3, <1>4, <1>5 DEF Serve

LEMMA TaskTypes ==
  ASSUME IInv, NEW p \in places, Task(p) \/ TaskFails(p)
  PROVE  TypeOK'
<1>1. TypeOK /\ [Next]_vars
  BY DEF IInv, Next
<1> USE <1>1, AppStays
<1>2. ASSUME chan[p] # <<>>, chan' = [chan EXCEPT ![p] = Tail(@)]
      PROVE  chan' \in [places -> Seq({"Includes", "ObjMgr"})] /\ \A q \in places : Len(chan'[q]) <= 2
  <2>1. chan[p] \in Seq({"Includes", "ObjMgr"})
    BY DEF TypeOK
  <2>2. Tail(chan[p]) \in Seq({"Includes", "ObjMgr"}) /\ Len(Tail(chan[p])) = Len(chan[p]) - 1
    BY <1>2, <2>1, HeadTailProperties
  <2>3. PICK n \in Nat : n = Len(chan[p])
    BY <2>1, LenProperties
  <2>4. PICK t \in Seq({"Includes", "ObjMgr"}) : t = Tail(chan[p])
    BY <2>2
  <2>5. Len(t) <= 2
    <3>1. n <= 2
      BY <2>3 DEF TypeOK
    <3>2. Len(t) = n - 1
      BY <2>2, <2>3, <2>4
    <3>3. QED
      BY <3>1, <3>2
  <2>6. chan' = [chan EXCEPT ![p] = t]
    BY <1>2, <2>4
  <2>7. QED
    BY <2>5, <2>6 DEF TypeOK
<1>3. CASE TaskIncludes(p)
  BY <1>2, <1>3 DEF TaskIncludes, TypeOK, Objects, ours, bluez
<1>4. CASE TaskAnswers(p)
  <2>1. CASE p \in job.wait
    <3>1. job' = [job EXCEPT !.wait = @ \ {p}, !.got = @ \cup {[at |-> p, includes |-> included[p]]}]
      BY <1>4, <2>1 DEF TaskAnswers
    <3>2. [at |-> p, includes |-> included[p]] \in Objects
      BY DEF TypeOK, Objects
    <3>3. job' \in [from : 0 .. MaxName, on : BOOLEAN, wait : SUBSET senders, got : SUBSET Objects]
      <4>1. job \in [from : 0 .. MaxName, on : BOOLEAN, wait : SUBSET senders, got : SUBSET Objects]
        BY DEF TypeOK
      <4>2. PICK o \in Objects : o = [at |-> p, includes |-> included[p]]
        BY <3>2
      <4>3. job' = [job EXCEPT !.wait = @ \ {p}, !.got = @ \cup {o}]
        BY <3>1, <4>2
      <4>4. QED
        BY <4>1, <4>3
    <3>4. QED
      BY <1>2, <1>4, <2>1, <3>3 DEF TaskAnswers, TypeOK, Objects, ours, bluez
  <2>2. CASE p \notin job.wait
    <3>1. task' \in {task, [task EXCEPT ![p] = "ended"]} /\ UNCHANGED job
      BY <1>4, <2>2 DEF TaskAnswers
    <3>2. task' \in [places -> {"none", "run", "ended"}]
      BY <3>1 DEF TypeOK
    <3>3. QED
      BY ZenonT(60), <1>2, <1>4, <3>1, <3>2 DEF TaskAnswers, TypeOK, Objects, ours, bluez
  <2>3. QED
    BY <2>1, <2>2
<1>5. CASE TaskClosed(p)
  BY <1>5 DEF TaskClosed, TypeOK, Objects, ours, bluez
<1>6. CASE TaskFails(p)
  BY <1>6 DEF TaskFails, TypeOK, Objects, ours, bluez
<1>7. QED
  BY <1>3, <1>4, <1>5, <1>6 DEF Task

LEMMA WorldTypes == IInv /\ (Bluez \/ World) => TypeOK'
<1> SUFFICES ASSUME IInv, Bluez \/ World
             PROVE  TypeOK'
  OBVIOUS
<1>1. TypeOK /\ BluezInv /\ [Next]_vars
  BY DEF IInv, Next
<1> USE <1>1, AppStays
<1>2. PICK n \in Nat : n = Len(calls)
  BY LenProperties DEF TypeOK
<1>3. ASSUME NEW from \in 0 .. MaxName, NEW of \in {"objects", "other"},
             calls' = Append(calls, [from |-> from, of |-> of]), n <= CallCap
      PROVE  calls' \in Seq(Call) /\ Len(calls') <= CallCap + MaxName
  <2>0. [from |-> from, of |-> of] \in Call
    BY DEF Call
  <2>1. calls' \in Seq(Call) /\ Len(calls') = n + 1
    BY <1>2, <1>3, <2>0, AppendProperties DEF TypeOK
  <2>2. QED
    BY <1>3, <2>1, BoundType
<1>4. name \in 0 .. MaxName /\ Stranger \in 0 .. MaxName
  BY BoundType DEF TypeOK, Stranger
<1>5. CASE BluezFetch
  <2>1. calls' = Append(calls, [from |-> name, of |-> "objects"]) /\ n <= CallCap
    BY <1>2, <1>5 DEF BluezFetch, BluezInv
  <2>2. QED
    BY <1>3, <1>4, <1>5, <2>1 DEF BluezFetch, TypeOK, Objects, ours, tasks
<1>6. CASE BluezAccept
  BY <1>6 DEF BluezAccept, Answer, TypeOK, Objects, ours, tasks
<1>7. CASE BluezRefuse
  BY <1>7 DEF BluezRefuse, Answer, TypeOK, Objects, ours, tasks
<1>8. CASE CallAgain
  <2>1. PICK from \in {Stranger, name}, of \in {"objects", "other"} :
          calls' = Append(calls, [from |-> from, of |-> of])
    BY <1>8 DEF CallAgain
  <2>2. n <= CallCap
    BY <1>2, <1>8, BoundType DEF CallAgain
  <2>3. calls' \in Seq(Call) /\ Len(calls') <= CallCap + MaxName
    BY <1>3, <1>4, <2>1, <2>2
  <2>4. QED
    BY <1>8, <2>3 DEF CallAgain, TypeOK, Objects, ours, tasks, bluez
<1>9. CASE BluezStop
  BY <1>9 DEF BluezStop, Answer, TypeOK, Objects, ours, tasks
<1>10. CASE BluezStart
  BY <1>10, BoundType DEF BluezStart, TypeOK, Objects, ours, tasks
<1>11. CASE LoseConn
  BY <1>11 DEF LoseConn, TypeOK, Objects, ours, tasks
<1>12. QED
  BY <1>5, <1>6, <1>7, <1>8, <1>9, <1>10, <1>11 DEF Bluez, World

LEMMA TypesKeep == IInv /\ [Next]_vars => TypeOK'
<1>1. IInv /\ UNCHANGED vars => TypeOK'
  BY AppStays DEF IInv, vars, ours, tasks, bluez, TypeOK, Objects
<1>2. QED
  BY <1>1, RegisterTypes, ServeTypes, TaskTypes, WorldTypes DEF Next

-----------------------------------------------------------------------------
(* The workers.                                                             *)
LEMMA BeforeIsStrict ==
  ASSUME app \in Apps, NEW p \in places, NEW q \in places, StartsBefore(p, q)
  PROVE  ~StartsBefore(q, p)
<1>1. ASSUME NEW r \in places
      PROVE  r[1] \in Nat /\ r[2] \in Nat /\ r[3] \in Nat
  <2>1. PICK i \in DOMAIN app :
          IsServ(r, i) \/ \E j : IsChrc(r, i, j) \/ \E k : IsDesc(r, i, j, k)
    BY PlaceShape
  <2>2. CASE IsServ(r, i)
    BY <2>2, AppShape, ServPlace
  <2>3. ASSUME NEW j, IsChrc(r, i, j)
        PROVE  r[1] \in Nat /\ r[2] \in Nat /\ r[3] \in Nat
    BY <2>3, AppShape, ChrcPlace DEF IsChrc
  <2>4. ASSUME NEW j, NEW k, IsDesc(r, i, j, k)
        PROVE  r[1] \in Nat /\ r[2] \in Nat /\ r[3] \in Nat
    BY <2>4, AppShape, DescPlace DEF IsDesc
  <2>5. QED
    BY <2>1, <2>2, <2>3, <2>4
<1>2. p[1] \in Nat /\ p[2] \in Nat /\ p[3] \in Nat /\ q[1] \in Nat /\ q[2] \in Nat /\ q[3] \in Nat
  BY <1>1
<1>3. QED
  BY <1>2 DEF StartsBefore, Earlier

(* The next worker is started: it replaces one under its key.               *)
LastFiled(set) == {p \in set : \A q \in set \ {p} : KeyOf(p) = KeyOf(q) => StartsBefore(q, p)}
LEMMA InsertKeepsLast ==
  ASSUME app \in Apps, NEW set \in SUBSET places, workers = LastFiled(set), NEW p \in places \ set,
         \A q \in set : StartsBefore(q, p)
  PROVE  Insert(p) = LastFiled(set \cup {p})
<1>1. ASSUME NEW r \in set
      PROVE  r \in Insert(p) <=> r \in LastFiled(set \cup {p})
  <2>1. r # p /\ StartsBefore(r, p) /\ ~StartsBefore(p, r)
    BY BeforeIsStrict
  <2>2. r \in LastFiled(set \cup {p}) <=> r \in workers /\ KeyOf(r) # KeyOf(p)
    BY <2>1 DEF LastFiled
  <2>3. QED
    BY <2>1, <2>2 DEF Insert, Filed
<1>2. p \in Insert(p) /\ p \in LastFiled(set \cup {p})
  BY DEF Insert, LastFiled
<1>3. Insert(p) \subseteq set \cup {p} /\ LastFiled(set \cup {p}) \subseteq set \cup {p}
  BY DEF Insert, LastFiled
<1>4. QED
  BY <1>1, <1>2, <1>3

LEMMA InitWorkers == Init => WorkersInv
<1> SUFFICES ASSUME Init
             PROVE  WorkersInv
  OBVIOUS
<1>1. stage = "lookup" /\ workers = {} /\ Started = {}
  BY DEF Init, Started
<1>2. QED
  BY <1>1 DEF WorkersInv, Serving

LEMMA StartKeepsWorkers == IInv /\ Start => WorkersInv'
<1> SUFFICES ASSUME IInv, Start
             PROVE  WorkersInv'
  OBVIOUS
<1>1. TypeOK /\ WorkersInv /\ [Next]_vars /\ app \in Apps
  BY DEF IInv, Next, Register, TypeOK
<1> USE <1>1, AppStays
<1> DEFINE left == {p \in places : task[p] = "none"}
<1>2. PICK p \in left :
        /\ \A q \in left \ {p} : StartsBefore(p, q)
        /\ task' = [task EXCEPT ![p] = "run"]
        /\ workers' = Insert(p)
        /\ stage' = IF left = {p} THEN "include" ELSE stage
  BY DEF Start
<1>3. stage = "start" /\ UNCHANGED <<senders, untold>>
  BY DEF Start
<1>4. /\ \A q \in Started : \A r \in places \ Started : StartsBefore(q, r)
      /\ workers = LastFiled(Started)
  BY <1>3 DEF WorkersInv, LastFiled
<1>5. Started' = Started \cup {p} /\ p \in places \ Started /\ left = places \ Started
  BY <1>2 DEF Started, TypeOK
<1>6. workers' = LastFiled(Started')
  BY <1>2, <1>4, <1>5, InsertKeepsLast DEF Started
<1>7. \A q \in Started' : \A r \in places \ Started' : StartsBefore(q, r)
  BY <1>2, <1>4, <1>5
<1>8. \A q : KeyOf(q)' = KeyOf(q)
  OBVIOUS
<1>9. workers' = {q \in Started' : \A r \in Started' \ {q} : KeyOf(q)' = KeyOf(r)' => StartsBefore(r, q)}
  BY <1>6, <1>8 DEF LastFiled
<1>10. CASE left = {p}
  <2>1. stage' = "include" /\ Started' = places
    BY <1>2, <1>5, <1>10 DEF Started
  <2>2. workers' = Kept
    BY <1>6, <2>1, KeptIsLast DEF LastFiled
  <2>3. QED
    BY <2>1, <2>2 DEF WorkersInv, Serving
<1>11. CASE left # {p}
  <2>1. stage' = "start"
    BY <1>2, <1>3, <1>11
  <2>2. QED
    BY <2>1, <1>7, <1>9 DEF WorkersInv, Serving
<1>12. QED
  BY <1>10, <1>11

LEMMA WorkersStay ==
  ASSUME WorkersInv, [Next]_vars, Started' = Started, UNCHANGED <<stage, workers, senders, untold>>
  PROVE  WorkersInv'
BY AppStays DEF WorkersInv

LEMMA WorkersKeep == IInv /\ [Next]_vars => WorkersInv'
<1> SUFFICES ASSUME IInv, [Next]_vars
             PROVE  WorkersInv'
  OBVIOUS
<1>1. TypeOK /\ WorkersInv /\ JobInv
  BY DEF IInv
<1> USE <1>1, AppStays
<1>2. ASSUME stage' \in Over
      PROVE  WorkersInv'
  BY <1>2 DEF WorkersInv, Serving, Over
<1>3. ASSUME NEW how \in Over, IsOver(how)
      PROVE  WorkersInv'
  BY <1>2, <1>3, OverIsOver
<1>4. ASSUME Fails
      PROVE  WorkersInv'
  BY <1>2, <1>4, FailsIsOver DEF Over
<1>5. CASE LookUp
  <2>1. CASE Fails
    BY <1>4, <2>1
  <2>2. CASE ~Fails
    <3>1. stage = "lookup" /\ stage' = "start" /\ UNCHANGED <<task, workers, senders, untold>>
      BY <1>5, <2>2 DEF LookUp, tasks
    <3>2. Started' = Started
      BY <3>1 DEF Started
    <3>3. QED
      BY <3>1, <3>2 DEF WorkersInv, Serving
  <2>3. QED
    BY <2>1, <2>2
<1>6. CASE Start
  BY <1>6, StartKeepsWorkers
<1>7. CASE Include
  <2>1. CASE IsOver("panic")
    BY <1>3, <2>1 DEF Over
  <2>2. CASE ~IsOver("panic")
    <3>1. stage = "include" /\ UNCHANGED <<stage, task, workers, senders>>
      BY <1>7, <2>2 DEF Include
    <3>2. Started' = Started
      BY <3>1 DEF Started
    <3>3. QED
      BY <3>1, <3>2 DEF WorkersInv, Serving
  <2>3. QED
    BY <2>1, <2>2
<1>8. CASE Ask
  <2>1. CASE conn
    <3>1. /\ stage = "include" /\ stage' = "pending" /\ untold = {} /\ senders' = workers
          /\ UNCHANGED <<task, workers, untold>>
      BY <1>8, <2>1 DEF Ask, AskNow, tasks
    <3>2. Started' = Started
      BY <3>1 DEF Started
    <3>3. QED
      BY <3>1, <3>2 DEF WorkersInv, Serving
  <2>2. CASE ~conn
    BY <1>4, <1>8, <2>2 DEF Ask
  <2>3. QED
    BY <2>1, <2>2
<1>9. CASE TakeReply
  <2>1. CASE Accepted
    <3>1. /\ stage = "pending" /\ stage' = "up" /\ workers' = workers \ Filed(Key(0, 0, 0))
          /\ UNCHANGED <<task, senders, untold>>
      BY <1>9, <2>1 DEF TakeReply, tasks
    <3>2. Started' = Started
      BY <3>1 DEF Started
    <3>3. workers = Kept
      BY <3>1 DEF WorkersInv
    <3>4. workers' = {p \in Kept : KeyOf(p) # Key(0, 0, 0)}
      BY <3>1, <3>3 DEF Filed
    <3>5. workers' = {p \in Kept' : KeyOf(p)' # Key(0, 0, 0)}
      BY <3>4
    <3>6. QED
      BY <3>1, <3>2, <3>5 DEF WorkersInv, Serving
  <2>2. CASE ~Accepted
    BY <1>4, <1>9, <2>2 DEF TakeReply
  <2>3. QED
    BY <2>1, <2>2
<1>10. CASE Serve
  <2>1. CASE Fails
    BY <1>4, <2>1
  <2>4. CASE Panics
    BY <1>3, <2>4, PanicIsOver DEF Over
  <2>2. CASE ~Fails /\ ~Panics
    <3>1. UNCHANGED <<stage, task, workers, senders, untold>>
      BY <1>10, <2>2 DEF Serve, TakeCall, RefusedCall, AskAll, Reply, Lost, tasks
    <3>2. Started' = Started
      BY <3>1 DEF Started
    <3>3. QED
      BY <3>1, <3>2, WorkersStay
  <2>3. QED
    BY <2>1, <2>2, <2>4
<1>11. CASE Cancel
  BY <1>3, <1>11 DEF Cancel, Over
<1>12. ASSUME NEW p \in places, Task(p) \/ TaskFails(p)
       PROVE  WorkersInv'
  <2>1. UNCHANGED <<stage, workers, senders, untold>>
    BY <1>12 DEF Task, TaskIncludes, TaskAnswers, TaskClosed, TaskFails, ours
  <2>2. task' = task \/ (task[p] = "run" /\ task' = [task EXCEPT ![p] = "ended"])
    BY <1>12 DEF Task, TaskIncludes, TaskAnswers, TaskClosed, TaskFails
  <2>3. Started' = Started
    BY <2>2 DEF Started, TypeOK
  <2>4. QED
    BY <2>1, <2>3, WorkersStay
<1>13. CASE Bluez \/ World \/ UNCHANGED vars
  <2>1. UNCHANGED <<stage, task, workers, senders, untold>>
    BY <1>13 DEF Bluez, World, BluezFetch, BluezAccept, BluezRefuse, CallAgain, BluezStop,
                 BluezStart, LoseConn, ours, tasks, vars
  <2>2. Started' = Started
    BY <2>1 DEF Started
  <2>3. QED
    BY <2>1, <2>2, WorkersStay
<1>14. QED
  BY <1>5, <1>6, <1>7, <1>8, <1>9, <1>10, <1>11, <1>12, <1>13 DEF Next, Register

-----------------------------------------------------------------------------
(* The tasks and their channels.                                            *)
LEMMA StageSplits == ASSUME TypeOK PROVE stage \in Before \cup Serving \cup Over
BY DEF TypeOK, Before, Serving, Over

(* What a message at the head of a channel tells of the rest.               *)
LEMMA HeadTells ==
  ASSUME ChannelsInv, NEW p \in places, chan[p] # <<>>
  PROVE  /\ Head(chan[p]) = "ObjMgr" => chan[p] = <<"ObjMgr">> /\ Asked(p) /\ ~Includes(p)
         /\ Head(chan[p]) = "Includes" => Includes(p)
<1>1. Asked(p) \/ Includes(p)
  BY DEF ChannelsInv
<1>2. chan[p] \in {<<"ObjMgr">>, <<"Includes", "ObjMgr">>, <<"Includes">>}
  BY <1>1 DEF Asked, Includes
<1>3. Head(<<"Includes", "ObjMgr">>) = "Includes" /\ Head(<<"Includes">>) = "Includes"
  BY ShortChannels
<1>4. Head(<<"ObjMgr">>) = "ObjMgr"
  BY ShortChannels
<1>5. ASSUME Head(chan[p]) = "ObjMgr"
      PROVE  chan[p] = <<"ObjMgr">>
  BY <1>2, <1>3, <1>5
<1>6. ASSUME Head(chan[p]) = "Includes"
      PROVE  chan[p] \in {<<"Includes", "ObjMgr">>, <<"Includes">>}
  BY <1>2, <1>4, <1>6
<1>7. <<"ObjMgr">> # <<"Includes">> /\ <<"ObjMgr">> # <<"Includes", "ObjMgr">>
  OBVIOUS
<1>8. QED
  BY <1>5, <1>6, <1>7 DEF Asked, Includes

(* Nobody has asked an attribute when no call is in hand.                   *)
LEMMA NoneAsked ==
  ASSUME TypeOK, ChannelsInv, JobInv, stage \notin Over, ~job.on
  PROVE  \A p \in places : ~Asked(p) /\ chan[p] \in {<<>>, <<"Includes">>}
<1>1. job.wait = {}
  BY DEF JobInv, NoJob
<1>2. \A p \in places : ~Asked(p)
  BY <1>1, StageSplits DEF ChannelsInv
<1>3. QED
  BY <1>2 DEF ChannelsInv, Includes, Asked

LEMMA TasksKeep == IInv /\ [Next]_vars => TasksInv'
<1> SUFFICES ASSUME IInv, [Next]_vars, stage' \notin Over, conn', NEW q \in workers' \cup senders'
             PROVE  task'[q] = "run" \/ q \in failed'
  BY DEF TasksInv
<1>1. TypeOK /\ TasksInv /\ ChannelsInv /\ JobInv
  BY DEF IInv
<1> USE <1>1, AppStays
<1>2. \A how \in Over : ~IsOver(how)
  BY OverIsOver
<1>3. ~Fails
  BY <1>2, FailsIsOver DEF Over
<1>4. ASSUME stage \notin Over, conn, q \in workers \cup senders, task' = task, failed' = failed
      PROVE  task'[q] = "run" \/ q \in failed'
  BY <1>4 DEF TasksInv
<1>5. CASE LookUp
  BY <1>3, <1>4, <1>5 DEF LookUp, Over, tasks
<1>6. CASE Start
  <2>1. PICK p \in places : task' = [task EXCEPT ![p] = "run"] /\ workers' = Insert(p)
    BY <1>6 DEF Start
  <2>2. stage = "start" /\ conn /\ failed' = failed /\ senders' = senders
    BY <1>6 DEF Start
  <2>3. CASE q = p
    BY <2>1, <2>3 DEF TypeOK
  <2>4. CASE q # p
    <3>1. q \in workers \cup senders /\ task'[q] = task[q]
      BY <2>1, <2>2, <2>4 DEF Insert, TypeOK
    <3>2. QED
      BY <2>2, <3>1 DEF TasksInv, Over
  <2>5. QED
    BY <2>3, <2>4
<1>7. CASE Include
  <2>1. ~IsOver("panic")
    BY <1>2 DEF Over
  <2>2. QED
    BY <1>4, <1>7, <2>1 DEF Include, Over
<1>8. CASE Ask
  BY <1>3, <1>4, <1>8 DEF Ask, AskNow, Over, tasks
<1>9. CASE TakeReply
  BY <1>3, <1>4, <1>9 DEF TakeReply, Over, tasks
<1>10. CASE Serve
  <2>1. ~Panics
    BY PanicIsOver DEF Over
  <2>2. QED
    BY <1>3, <1>4, <1>10, <2>1 DEF Serve, TakeCall, RefusedCall, AskAll, Reply, Lost, Over, tasks
<1>11. CASE Cancel
  BY <1>2, <1>11 DEF Cancel, Over
<1>12. ASSUME NEW p \in places, Task(p) \/ TaskFails(p)
       PROVE  task'[q] = "run" \/ q \in failed'
  <2>1. stage \notin Over /\ conn /\ q \in workers \cup senders
    BY <1>12 DEF Task, TaskIncludes, TaskAnswers, TaskClosed, TaskFails, ours
  <2>2. task[q] = "run" \/ q \in failed
    BY <2>1 DEF TasksInv
  <2>3. q \in places
    BY <2>1 DEF TypeOK
  <2>4. CASE TaskIncludes(p)
    BY <2>2, <2>4 DEF TaskIncludes
  <2>5. CASE TaskAnswers(p)
    <3>1. Asked(p)
      BY <2>5, HeadTells DEF TaskAnswers
    <3>2. p \in job.wait
      BY <2>1, <3>1, StageSplits DEF ChannelsInv
    <3>3. QED
      BY <2>2, <2>5, <3>2 DEF TaskAnswers
  <2>6. CASE TaskClosed(p)
    BY <2>1, <2>2, <2>3, <2>6 DEF TaskClosed, Reachable, TypeOK
  <2>7. CASE TaskFails(p)
    BY <2>2, <2>3, <2>7 DEF TaskFails, TypeOK
  <2>8. QED
    BY <1>12, <2>4, <2>5, <2>6, <2>7 DEF Task
<1>13. CASE Bluez \/ World \/ UNCHANGED vars
  <2>1. UNCHANGED <<stage, workers, senders, task, failed>> /\ conn
    BY <1>13 DEF Bluez, World, BluezFetch, BluezAccept, BluezRefuse, CallAgain, BluezStop,
                 BluezStart, LoseConn, ours, tasks, vars
  <2>2. QED
    BY <1>4, <2>1
<1>14. QED
  BY <1>5, <1>6, <1>7, <1>8, <1>9, <1>10, <1>11, <1>12, <1>13 DEF Next, Register

(* A step that leaves the channels alone.                                   *)
LEMMA ChannelsStay ==
  ASSUME ChannelsInv, [Next]_vars, UNCHANGED <<chan, included>>, untold' \subseteq untold,
         stage' \in Over \/ (stage \notin Over /\ untold' = untold),
         stage' \in Before => \A p \in places : ~Asked(p),
         stage' \in Serving => \A p \in places : Asked(p) => p \in job'.wait
  PROVE  ChannelsInv'
<1> USE AppStays
<1>1. \A p : Asked(p)' = Asked(p) /\ Includes(p)' = Includes(p)
  BY DEF Asked, Includes
<1>2. \A p \in places :
        /\ chan'[p] = <<>> \/ Asked(p)' \/ Includes(p)'
        /\ Includes(p)' => p[2] = 0
        /\ p[2] = 0 /\ p[1] \in untold' => chan'[p] = <<>>
        /\ stage' \in Before => ~Asked(p)'
        /\ stage' \in Serving => (Asked(p)' => p \in job'.wait)
        /\ stage' \notin Over =>
             included'[p] = Declared(p) \/ Includes(p)' \/ (p[2] = 0 /\ p[1] \in untold')
  BY <1>1 DEF ChannelsInv
<1>3. QED
  BY <1>2 DEF ChannelsInv

LEMMA InitChannels == Init => ChannelsInv
<1> SUFFICES ASSUME Init, NEW p \in places
             PROVE  /\ chan[p] = <<>> /\ ~Asked(p) /\ ~Includes(p)
                    /\ included[p] = Declared(p) \/ (p[2] = 0 /\ p[1] \in untold)
  BY DEF ChannelsInv
<1>1. chan[p] = <<>> /\ included[p] = {} /\ untold = {i \in DOMAIN app : app[i].includes # {}}
  BY DEF Init
<1>2. <<>> # <<"ObjMgr">> /\ <<>> # <<"Includes", "ObjMgr">> /\ <<>> # <<"Includes">>
  OBVIOUS
<1>3. p[1] \in DOMAIN app
  <2>1. app \in Apps
    BY DEF Init
  <2>2. QED
    BY <2>1, PlaceShape, ServPlace, ChrcPlace, DescPlace
<1>4. Declared(p) = {} \/ (p[2] = 0 /\ app[p[1]].includes # {})
  BY DEF Declared
<1>5. QED
  BY <1>1, <1>2, <1>3, <1>4 DEF Asked, Includes

LEMMA IncludeKeepsChannels == IInv /\ Include => ChannelsInv'
<1> SUFFICES ASSUME IInv, Include
             PROVE  ChannelsInv'
  OBVIOUS
<1>1. TypeOK /\ ChannelsInv /\ [Next]_vars
  BY DEF IInv, Next, Register
<1>2. app \in Apps
  BY <1>1 DEF TypeOK
<1> USE <1>1, <1>2, AppStays
<1>3. stage = "include" /\ UNCHANGED included
  BY DEF Include
<1>4. PICK i \in untold :
        /\ untold' = untold \ {i}
        /\ \/ /\ chan' = [chan EXCEPT ![ServicePlace(i)] = Append(@, "Includes")]
              /\ UNCHANGED <<stage, job, workers, senders>>
           \/ IsOver("panic") /\ UNCHANGED chan
  BY DEF Include
<1>5. CASE IsOver("panic") /\ UNCHANGED chan
  <2>1. stage' \in Over
    BY <1>5, OverIsOver DEF Over
  <2>2. QED
    BY <1>3, <1>4, <1>5, <2>1, ChannelsStay DEF Over, Before, Serving
<1>6. CASE chan' = [chan EXCEPT ![ServicePlace(i)] = Append(@, "Includes")] /\ UNCHANGED stage
  <2> DEFINE s == ServicePlace(i)
  <2>1. s \in places /\ IsServ(s, i) /\ i \in DOMAIN app
    BY ArePlaces DEF TypeOK, ServicePlace, IsServ
  <2>2. s[1] = i /\ s[2] = 0
    BY <2>1, ServPlace
  <2> HIDE DEF s
  <2>3. chan[s] = <<>>
    BY <2>1, <2>2 DEF ChannelsInv
  <2>4. chan'[s] = <<"Includes">>
    BY <1>6, <2>1, <2>3, ShortChannels DEF s, TypeOK
  <2>5. \A q \in places \ {s} : chan'[q] = chan[q]
    BY <1>6 DEF s, TypeOK
  <2>6. <<"Includes">> # <<"ObjMgr">> /\ <<"Includes">> # <<"Includes", "ObjMgr">>
    OBVIOUS
  <2>7. ASSUME NEW q \in places
        PROVE  /\ chan'[q] = <<>> \/ Asked(q)' \/ Includes(q)'
               /\ Includes(q)' => q[2] = 0
               /\ q[2] = 0 /\ q[1] \in untold' => chan'[q] = <<>>
               /\ stage' \in Before => ~Asked(q)'
               /\ stage' \in Serving => (Asked(q)' => q \in job'.wait)
               /\ stage' \notin Over =>
                    included'[q] = Declared(q) \/ Includes(q)' \/ (q[2] = 0 /\ q[1] \in untold')
    <3>1. stage' = "include" /\ stage \in Before /\ stage \notin Over /\ stage \notin Serving
      BY <1>3, <1>6 DEF Before, Serving, Over
    <3>2. CASE q = s
      <4>1. Includes(q)' /\ ~Asked(q)'
        BY <2>4, <2>6, <3>2 DEF Includes, Asked
      <4>2. q[1] \notin untold'
        BY <1>4, <2>2, <3>2
      <4>3. QED
        BY <2>2, <3>1, <3>2, <4>1, <4>2
    <3>3. CASE q # s
      <4>1. Includes(q)' = Includes(q) /\ Asked(q)' = Asked(q) /\ chan'[q] = chan[q]
        BY <2>5, <3>3 DEF Includes, Asked
      <4>2. q[2] = 0 => q[1] # i
        <5>1. PICK l \in DOMAIN app : IsServ(q, l) \/ \E j : IsChrc(q, l, j) \/ \E k : IsDesc(q, l, j, k)
          BY PlaceShape
        <5>2. ASSUME q[2] = 0
              PROVE  IsServ(q, l) /\ q[1] = l
          BY <5>1, <5>2, ServPlace, ChrcPlace, DescPlace
        <5>3. QED
          BY <2>1, <3>3, <5>2 DEF IsServ
      <4>3. QED
        BY <1>3, <1>4, <3>1, <4>1, <4>2 DEF ChannelsInv
    <3>4. QED
      BY <3>2, <3>3
  <2>8. QED
    BY <2>7 DEF ChannelsInv
<1>7. QED
  BY <1>4, <1>5, <1>6

(* A request to those of a set, when nobody had one.                        *)
LEMMA AskingKeepsChannels ==
  ASSUME IInv, [Next]_vars, stage \in Serving, ~job.on,
         NEW set \in SUBSET senders,
         chan' = [p \in places |-> IF p \in set THEN Append(chan[p], "ObjMgr") ELSE chan[p]],
         UNCHANGED <<included, untold>>,
         stage' \in Over \/ (stage' = stage /\ job'.wait = set)
  PROVE  ChannelsInv'
<1>1. TypeOK /\ ChannelsInv /\ JobInv /\ WorkersInv
  BY DEF IInv
<1> USE <1>1, AppStays
<1>2. untold = {} /\ stage \notin Over /\ stage \notin Before /\ stage' \notin Before
  BY DEF WorkersInv, Serving, Over, Before
<1>3. ASSUME NEW q \in places
      PROVE  /\ Includes(q)' = Includes(q)
             /\ Asked(q)' = (q \in set)
             /\ chan'[q] = <<>> \/ Asked(q)' \/ Includes(q)'
  <2>1. ~Asked(q) /\ chan[q] \in {<<>>, <<"Includes">>}
    BY <1>2, NoneAsked
  <2>2. CASE q \notin set
    <3>1. chan'[q] = chan[q]
      BY <2>2
    <3>2. QED
      BY <2>1, <2>2, <3>1 DEF Asked, Includes
  <2>3. CASE q \in set /\ chan[q] = <<>>
    <3>1. chan'[q] = <<"ObjMgr">>
      BY <2>3, ShortChannels
    <3>2. <<"ObjMgr">> # <<"Includes">> /\ <<"ObjMgr">> # <<"Includes", "ObjMgr">>
      OBVIOUS
    <3>3. <<>> # <<"Includes">> /\ <<>> # <<"Includes", "ObjMgr">>
      OBVIOUS
    <3>4. QED
      BY <2>3, <3>1, <3>2, <3>3 DEF Asked, Includes
  <2>4. CASE q \in set /\ chan[q] = <<"Includes">>
    <3>1. chan'[q] = <<"Includes", "ObjMgr">>
      BY <2>4, ShortChannels
    <3>2. QED
      BY <2>4, <3>1 DEF Asked, Includes
  <2>5. QED
    BY <2>1, <2>2, <2>3, <2>4
<1>4. \A q \in places :
        /\ Includes(q)' => q[2] = 0
        /\ ~(q[2] = 0 /\ q[1] \in untold')
        /\ stage' \in Serving => (Asked(q)' => q \in job'.wait)
        /\ included'[q] = Declared(q) \/ Includes(q)'
  BY <1>2, <1>3 DEF ChannelsInv, Serving, Over
<1>5. QED
  BY <1>2, <1>3, <1>4 DEF ChannelsInv

LEMMA TaskKeepsChannels ==
  ASSUME IInv, NEW p \in places, Task(p) \/ TaskFails(p)
  PROVE  ChannelsInv'
<1>1. TypeOK /\ ChannelsInv /\ JobInv /\ WorkersInv /\ [Next]_vars
  BY DEF IInv, Next
<1> USE <1>1, AppStays
<1>2. UNCHANGED <<stage, untold, senders>>
  BY DEF Task, TaskIncludes, TaskAnswers, TaskClosed, TaskFails, ours
<1>3. CASE TaskClosed(p) \/ TaskFails(p)
  <2>1. UNCHANGED <<chan, included, job>>
    BY <1>3 DEF TaskClosed, TaskFails
  <2>2. QED
    BY <1>2, <2>1, ChannelsStay DEF ChannelsInv
<1>4. ASSUME chan[p] # <<>>, chan' = [chan EXCEPT ![p] = Tail(@)],
             included'[p] = included[p] \/ included'[p] = Declared(p),
             ~Includes(p) \/ included'[p] = Declared(p),
             chan'[p] \in {<<>>, <<"ObjMgr">>},
             Asked(p)' => Asked(p) /\ (p \in job.wait => p \in job'.wait),
             \A q \in places \ {p} : included'[q] = included[q] /\ (q \in job.wait => q \in job'.wait)
      PROVE  ChannelsInv'
  <2>1. ASSUME NEW q \in places
        PROVE  /\ chan'[q] = <<>> \/ Asked(q)' \/ Includes(q)'
               /\ Includes(q)' => q[2] = 0
               /\ q[2] = 0 /\ q[1] \in untold' => chan'[q] = <<>>
               /\ stage' \in Before => ~Asked(q)'
               /\ stage' \in Serving => (Asked(q)' => q \in job'.wait)
               /\ stage' \notin Over =>
                    included'[q] = Declared(q) \/ Includes(q)' \/ (q[2] = 0 /\ q[1] \in untold')
    <3>1. CASE q = p
      <4>1. ~Includes(q)'
        <5>1. /\ <<>> # <<"Includes">> /\ <<>> # <<"Includes", "ObjMgr">>
              /\ <<"ObjMgr">> # <<"Includes">> /\ <<"ObjMgr">> # <<"Includes", "ObjMgr">>
          OBVIOUS
        <5>2. QED
          BY <1>4, <3>1, <5>1 DEF Includes
      <4>2. chan'[q] = <<>> \/ Asked(q)'
        BY <1>4, <3>1 DEF Asked
      <4>3. ~(q[2] = 0 /\ q[1] \in untold)
        BY <1>4, <3>1 DEF ChannelsInv
      <4>4. stage' \in Serving => (Asked(q)' => q \in job'.wait)
        BY <1>2, <1>4, <3>1 DEF ChannelsInv
      <4>5. QED
        BY <1>2, <1>4, <3>1, <4>1, <4>2, <4>3, <4>4 DEF ChannelsInv
    <3>2. CASE q # p
      <4>1. chan'[q] = chan[q]
        BY <1>4, <3>2 DEF TypeOK
      <4>2. Includes(q)' = Includes(q) /\ Asked(q)' = Asked(q)
        BY <4>1 DEF Includes, Asked
      <4>3. QED
        BY <1>2, <1>4, <3>2, <4>1, <4>2 DEF ChannelsInv
    <3>3. QED
      BY <3>1, <3>2
  <2>2. QED
    BY <2>1 DEF ChannelsInv
<1>5. CASE TaskIncludes(p)
  <2>1. Includes(p) /\ p[2] = 0
    BY <1>5, HeadTells DEF TaskIncludes, ChannelsInv
  <2>2. /\ chan' = [chan EXCEPT ![p] = Tail(@)] /\ job' = job
        /\ included' = [included EXCEPT ![p] =
             {q \in places : q[2] = 0 /\ app[q[1]].id \in app[p[1]].includes}]
    BY <1>5 DEF TaskIncludes
  <2>3. included'[p] = Declared(p) /\ \A q \in places \ {p} : included'[q] = included[q]
    BY <2>1, <2>2 DEF Declared, TypeOK
  <2>4. CASE chan[p] = <<"Includes">>
    <3>1. chan'[p] = <<>>
      BY <2>2, <2>4, ShortChannels DEF TypeOK
    <3>2. ~Asked(p)'
      <4>1. <<>> # <<"ObjMgr">> /\ <<>> # <<"Includes", "ObjMgr">>
        OBVIOUS
      <4>2. QED
        BY <3>1, <4>1 DEF Asked
    <3>3. QED
      BY <1>4, <1>5, <2>2, <2>3, <3>1, <3>2 DEF TaskIncludes
  <2>5. CASE chan[p] = <<"Includes", "ObjMgr">>
    <3>1. chan'[p] = <<"ObjMgr">>
      BY <2>2, <2>5, ShortChannels DEF TypeOK
    <3>2. Asked(p)
      BY <2>5 DEF Asked
    <3>3. QED
      BY <1>4, <1>5, <2>2, <2>3, <3>1, <3>2 DEF TaskIncludes
  <2>6. QED
    BY <2>1, <2>4, <2>5 DEF Includes
<1>6. CASE TaskAnswers(p)
  <2>1. chan[p] = <<"ObjMgr">> /\ Asked(p) /\ ~Includes(p)
    BY <1>6, HeadTells DEF TaskAnswers
  <2>2. chan' = [chan EXCEPT ![p] = Tail(@)] /\ included' = included
    BY <1>6 DEF TaskAnswers
  <2>3. chan'[p] = <<>>
    BY <2>1, <2>2, ShortChannels DEF TypeOK
  <2>4. ~Asked(p)'
    <3>1. <<>> # <<"ObjMgr">> /\ <<>> # <<"Includes", "ObjMgr">>
      OBVIOUS
    <3>2. QED
      BY <2>3, <3>1 DEF Asked
  <2>5. job' = job \/ job' = [job EXCEPT !.wait = @ \ {p},
                                !.got = @ \cup {[at |-> p, includes |-> included[p]]}]
    BY <1>6 DEF TaskAnswers
  <2>6. \A q \in places \ {p} : q \in job.wait => q \in job'.wait
    <3>1. CASE job' = job
      BY <3>1
    <3>2. CASE job' = [job EXCEPT !.wait = @ \ {p},
                                !.got = @ \cup {[at |-> p, includes |-> included[p]]}]
      <4>1. job'.wait = job.wait \ {p}
        BY <3>2 DEF TypeOK
      <4>2. QED
        BY <4>1
    <3>3. QED
      BY <2>5, <3>1, <3>2
  <2>7. QED
    BY <1>4, <1>6, <2>1, <2>2, <2>3, <2>4, <2>6 DEF TaskAnswers
<1>7. QED
  BY <1>3, <1>5, <1>6 DEF Task

LEMMA ChannelsKeep == IInv /\ [Next]_vars => ChannelsInv'
<1> SUFFICES ASSUME IInv, [Next]_vars
             PROVE  ChannelsInv'
  OBVIOUS
<1>1. TypeOK /\ ChannelsInv /\ JobInv /\ WorkersInv
  BY DEF IInv
<1> USE <1>1, AppStays
<1>2. Over \cap Before = {} /\ Over \cap Serving = {} /\ Before \cap Serving = {}
  BY DEF Over, Before, Serving
<1>3. ASSUME stage' \in Over, UNCHANGED <<chan, included, untold>>
      PROVE  ChannelsInv'
  BY <1>2, <1>3, ChannelsStay
<1>4. ASSUME Fails, UNCHANGED <<chan, included, untold>>
      PROVE  ChannelsInv'
  BY <1>3, <1>4, FailsIsOver DEF Over
<1>5. CASE LookUp \/ Start
  <2>1. UNCHANGED <<chan, included, untold>> /\ stage \in Before
    BY <1>5 DEF LookUp, Start, tasks, Before
  <2>2. Fails \/ stage' \in Before
    BY <1>5 DEF LookUp, Start, Before
  <2>3. ASSUME stage' \in Before
        PROVE  ChannelsInv'
    BY <1>2, <2>1, <2>3, ChannelsStay DEF ChannelsInv
  <2>4. QED
    BY <1>4, <2>1, <2>2, <2>3
<1>6. CASE Include
  BY <1>6, IncludeKeepsChannels
<1>7. CASE Ask
  <2>1. UNCHANGED <<chan, included, untold>> /\ stage \in Before
    BY <1>7 DEF Ask, AskNow, tasks, Before
  <2>2. Fails \/ stage' \in Serving
    BY <1>7 DEF Ask, Serving
  <2>3. ASSUME stage' \in Serving
        PROVE  ChannelsInv'
    BY <1>2, <2>1, <2>3, ChannelsStay DEF ChannelsInv
  <2>4. QED
    BY <1>4, <2>1, <2>2, <2>3
<1>8. CASE TakeReply
  <2>1. UNCHANGED <<chan, included, untold>> /\ stage \in Serving
    BY <1>8 DEF TakeReply, tasks, Serving
  <2>2. Fails \/ (stage' \in Serving /\ job' = job)
    BY <1>8 DEF TakeReply, Serving
  <2>3. ASSUME stage' \in Serving, job' = job
        PROVE  ChannelsInv'
    BY <1>2, <2>1, <2>3, ChannelsStay DEF ChannelsInv
  <2>4. QED
    BY <1>4, <2>1, <2>2, <2>3
<1>9. CASE TakeCall
  <2>1. stage \in Serving /\ ~job.on /\ UNCHANGED <<included, untold>>
    BY <1>9 DEF TakeCall, Serves
  <2>5. CASE Panics /\ UNCHANGED chan
    BY <1>3, <2>1, <2>5, PanicIsOver DEF Over
  <2>2. CASE RefusedCall(Head(calls).from) /\ UNCHANGED chan
    <3>1. UNCHANGED <<stage, job>>
      BY <2>2 DEF RefusedCall
    <3>2. QED
      BY <1>2, <2>1, <2>2, <3>1, ChannelsStay DEF ChannelsInv
  <2>3. CASE AskAll(Head(calls).from)
    <3>1. CASE Fails
      <4>1. PICK set \in SUBSET senders :
              chan' = [p \in places |-> IF p \in set THEN Append(chan[p], "ObjMgr") ELSE chan[p]]
        BY <2>3 DEF AskAll
      <4>2. stage' \in Over
        BY <3>1, FailsIsOver DEF Over
      <4>3. QED
        BY <2>1, <4>1, <4>2, AskingKeepsChannels
    <3>2. CASE ~Fails
      <4>1. /\ chan' = [p \in places |-> IF p \in senders THEN Append(chan[p], "ObjMgr") ELSE chan[p]]
            /\ job' = [from |-> Head(calls).from, on |-> TRUE, wait |-> senders, got |-> {}]
            /\ UNCHANGED stage
        BY <2>3, <3>2 DEF AskAll
      <4>2. job'.wait = senders
        BY <4>1
      <4>3. QED
        BY <2>1, <4>1, <4>2, AskingKeepsChannels
    <3>3. QED
      BY <3>1, <3>2
  <2>4. QED
    BY <1>9, <2>2, <2>3, <2>5 DEF TakeCall
<1>10. CASE Reply
  <2>1. UNCHANGED <<chan, included, untold>> /\ job.wait = {} /\ stage \in Serving
    BY <1>10 DEF Reply, tasks, JobInv
  <2>2. Fails \/ stage' = stage
    BY <1>10 DEF Reply
  <2>3. ASSUME stage' = stage
        PROVE  ChannelsInv'
    BY <1>2, <2>1, <2>3, ChannelsStay DEF ChannelsInv
  <2>4. QED
    BY <1>4, <2>1, <2>2, <2>3
<1>11. CASE Lost
  BY <1>4, <1>11 DEF Lost, tasks
<1>12. CASE Cancel
  BY <1>3, <1>12 DEF Cancel, tasks, IsOver, Over
<1>13. ASSUME NEW p \in places, Task(p) \/ TaskFails(p)
       PROVE  ChannelsInv'
  BY <1>13, TaskKeepsChannels
<1>14. CASE Bluez \/ World \/ UNCHANGED vars
  <2>1. UNCHANGED <<stage, chan, included, untold, job>>
    BY <1>14 DEF Bluez, World, BluezFetch, BluezAccept, BluezRefuse, CallAgain, BluezStop,
                 BluezStart, LoseConn, ours, tasks, vars
  <2>2. QED
    BY <1>2, <2>1, ChannelsStay DEF ChannelsInv
<1>15. QED
  BY <1>5, <1>6, <1>7, <1>8, <1>9, <1>10, <1>11, <1>12, <1>13, <1>14 DEF Next, Register, Serve

-----------------------------------------------------------------------------
(* The call in hand.                                                        *)
LEMMA ToldGrows ==
  ASSUME NEW set, NEW p
  PROVE  Told(set \cup {p}) = Told(set) \cup {[at |-> p, includes |-> Declared(p)]}
BY DEF Told

LEMMA JobKeeps == IInv /\ [Next]_vars => JobInv'
<1> SUFFICES ASSUME IInv, [Next]_vars
             PROVE  JobInv'
  OBVIOUS
<1>1. TypeOK /\ ChannelsInv /\ JobInv /\ WorkersInv
  BY DEF IInv
<1> USE <1>1, AppStays
<1>2. ~NoJob.on
  BY DEF NoJob
<1>3. ASSUME job' = NoJob
      PROVE  JobInv'
  BY <1>2, <1>3 DEF JobInv
<1>4. ASSUME Fails
      PROVE  JobInv'
  BY <1>3, <1>4 DEF Fails, IsOver
<1>5. ASSUME UNCHANGED <<job, stage, owner, senders>>
      PROVE  JobInv'
  <2>1. Told(senders \ job.wait)' = Told(senders \ job.wait)
    BY <1>5 DEF Told
  <2>2. Allowed(job.from)' = Allowed(job.from)
    BY <1>5 DEF Allowed
  <2>3. QED
    BY <1>5, <2>1, <2>2 DEF JobInv
<1>6. ASSUME stage \notin Serving \/ ~job.on
      PROVE  job = NoJob
  BY <1>6 DEF JobInv
<1>7. CASE Register
  <2>1. job = NoJob
    BY <1>6, <1>7 DEF Register, LookUp, Start, Include, Ask, AskNow, TakeReply, Serving
  <2>2. job' \in {job, NoJob}
    BY <1>7 DEF Register, LookUp, Start, Include, Ask, TakeReply, Fails, IsOver
  <2>3. QED
    BY <1>3, <2>1, <2>2
<1>8. CASE TakeCall
  <2>1. CASE RefusedCall(Head(calls).from)
    BY <1>5, <1>8, <2>1 DEF TakeCall, RefusedCall
  <2>4. CASE Panics
    BY <1>3, <2>4 DEF Panics, IsOver
  <2>2. CASE Allowed(Head(calls).from) /\ AskAll(Head(calls).from) /\ ~Fails
    <3>1. /\ job' = [from |-> Head(calls).from, on |-> TRUE, wait |-> senders, got |-> {}]
          /\ UNCHANGED <<stage, senders, owner>> /\ stage \in Serving
      BY <1>8, <2>2 DEF TakeCall, AskAll, Serves
    <3>2. Told({})' = {}
      BY DEF Told
    <3>3. job'.from = Head(calls).from /\ job'.got = {} /\ senders' \ job'.wait = {} /\ job'.on
      BY <3>1
    <3>4. Allowed(Head(calls).from) /\ owner' = owner
      BY <2>2, <3>1
    <3>5. Allowed(job.from)'
      BY <3>3, <3>4 DEF Allowed
    <3>6. Told(senders \ job.wait)' = {}
      BY <3>3 DEF Told
    <3>7. QED
      BY <3>1, <3>3, <3>5, <3>6 DEF JobInv, Serving
  <2>3. QED
    BY <1>4, <1>8, <2>1, <2>2, <2>4 DEF TakeCall
<1>9. CASE Reply
  BY <1>3, <1>4, <1>9 DEF Reply
<1>10. CASE Lost
  BY <1>4, <1>10 DEF Lost
<1>11. CASE Cancel
  BY <1>3, <1>11 DEF Cancel, IsOver
<1>12. ASSUME NEW p \in places, TaskAnswers(p), p \in job.wait
       PROVE  JobInv'
  <2>1. /\ job' = [job EXCEPT !.wait = @ \ {p}, !.got = @ \cup {[at |-> p, includes |-> included[p]]}]
        /\ UNCHANGED <<stage, owner, senders>>
    BY <1>12 DEF TaskAnswers, ours
  <2>2. /\ job'.from = job.from /\ job'.on = job.on /\ job'.wait = job.wait \ {p}
        /\ job'.got = job.got \cup {[at |-> p, includes |-> included[p]]}
    BY <2>1 DEF TypeOK
  <2>3. job.on /\ stage \in Serving
    BY <1>12 DEF JobInv, NoJob
  <2>4. included[p] = Declared(p)
    <3>1. ~Includes(p)
      BY <1>12, HeadTells DEF TaskAnswers
    <3>2. untold = {} /\ stage \notin Over
      BY <2>3 DEF WorkersInv, Serving, Over
    <3>3. QED
      BY <3>1, <3>2 DEF ChannelsInv
  <2>5. senders \ job'.wait = (senders \ job.wait) \cup {p}
    BY <1>12, <2>2 DEF TypeOK
  <2>6. job'.got = Told(senders \ job'.wait)
    BY <2>2, <2>3, <2>4, <2>5, ToldGrows DEF JobInv
  <2>7. Told(senders \ job.wait)' = Told(senders \ job'.wait)
    BY <2>1 DEF Told
  <2>8. Allowed(job.from)' = Allowed(job.from)
    BY <2>1, <2>2 DEF Allowed
  <2>9. QED
    BY <2>1, <2>2, <2>3, <2>6, <2>7, <2>8 DEF JobInv
<1>13. ASSUME NEW p \in places, Task(p) \/ TaskFails(p), ~(TaskAnswers(p) /\ p \in job.wait)
       PROVE  JobInv'
  BY <1>5, <1>13 DEF Task, TaskIncludes, TaskAnswers, TaskClosed, TaskFails, ours
<1>14. CASE Bluez \/ World \/ UNCHANGED vars
  BY <1>5, <1>14 DEF Bluez, World, BluezFetch, BluezAccept, BluezRefuse, CallAgain, BluezStop,
                     BluezStart, LoseConn, ours, vars
<1>15. QED
  BY <1>7, <1>8, <1>9, <1>10, <1>11, <1>12, <1>13, <1>14 DEF Next, Serve

-----------------------------------------------------------------------------
(* BlueZ.                                                                   *)
BluezParts == BluezInv /\ UpMeansRegistered

LEMMA InitBluez == Init => BluezParts
<1> SUFFICES ASSUME Init
             PROVE  BluezParts
  OBVIOUS
<1>1. Len(calls) = 0 /\ 0 <= CallCap /\ 0 <= CallCap + 1
  <2>1. Len(<<>>) = 0
    OBVIOUS
  <2>2. QED
    BY <2>1, BoundType DEF Init
<1>2. askedAs <= name
  <2>1. askedAs = 0 /\ name = 1
    BY DEF Init, Nobody
  <2>2. QED
    BY <2>1
<1>3. stage = "lookup" /\ bz = "idle" /\ known = {}
  BY DEF Init
<1>4. QED
  BY <1>1, <1>2, <1>3 DEF BluezParts, BluezInv, UpMeansRegistered

(* A step that leaves BlueZ alone, and takes register no further.           *)
LEMMA BluezStays ==
  ASSUME BluezParts, [Next]_vars, UNCHANGED <<bluez, conn, calls>>,
         bz # "idle" => owner' = owner,
         failed \subseteq failed',
         \/ stage' = stage /\ res' = res
         \/ stage' \in Before /\ stage \in Before
         \/ stage' \in Over /\ (bz = "idle" \/ (stage' = "gone" /\ stage \notin Before) \/ failed' # {})
  PROVE  BluezParts'
<1> USE AppStays DEF Before, Serving, Over
<1>1. Told(Kept)' = Told(Kept)
  BY DEF Told
<1>2. Registered' = Registered
  BY DEF Registered, bluez
<1>3. UNCHANGED <<bz, running, conn, askedAs, name, known, calls>>
  BY DEF bluez
<1>4. CASE stage' = stage /\ res' = res
  BY <1>1, <1>2, <1>3, <1>4 DEF BluezParts, BluezInv, UpMeansRegistered
<1>5. CASE stage' \in Before /\ stage \in Before
  BY <1>1, <1>2, <1>3, <1>5 DEF BluezParts, BluezInv, UpMeansRegistered
<1>6. CASE stage' \in Over /\ (bz = "idle" \/ (stage' = "gone" /\ stage \notin Before) \/ failed' # {})
  BY <1>1, <1>2, <1>3, <1>6 DEF BluezParts, BluezInv, UpMeansRegistered
<1>7. QED
  BY <1>4, <1>5, <1>6

LEMMA RegisterKeepsBluez == IInv /\ (Register \/ Cancel) => BluezParts'
<1> SUFFICES ASSUME IInv, Register \/ Cancel
             PROVE  BluezParts'
  OBVIOUS
<1>1. TypeOK /\ BluezInv /\ BluezParts /\ [Next]_vars
  BY DEF IInv, Next, BluezParts
<1> USE <1>1, AppStays
<1>2. stage \in Before => bz = "idle"
  BY DEF BluezInv
<1>3. CASE LookUp
  <2>1. stage \in Before /\ UNCHANGED <<bluez, conn, calls, failed>>
    BY <1>3 DEF LookUp, Before, tasks
  <2>2. stage' \in Before \/ stage' \in Over
    BY <1>3 DEF LookUp, Before, Over, Fails, IsOver
  <2>3. QED
    BY <1>2, <2>1, <2>2, BluezStays
<1>4. CASE Start
  <2>1. stage \in Before /\ stage' \in Before /\ UNCHANGED <<bluez, conn, calls, failed, owner>>
    BY <1>4 DEF Start, Before
  <2>2. QED
    BY <2>1, BluezStays
<1>5. CASE Include
  <2>1. stage \in Before /\ UNCHANGED <<bluez, conn, calls, failed, owner>>
    BY <1>5 DEF Include, Before
  <2>2. stage' \in Before \/ stage' \in Over
    BY <1>5 DEF Include, Before, Over, IsOver
  <2>3. QED
    BY <1>2, <2>1, <2>2, BluezStays
<1>6. CASE Ask
  <2>1. stage \in Before /\ bz = "idle" /\ UNCHANGED <<failed, owner, name, running, known, conn, calls>>
    BY <1>2, <1>6 DEF Ask, AskNow, Before, tasks
  <2>2. CASE conn
    <3>1. /\ stage' = "pending" /\ askedAs' = name
          /\ bz' = IF running THEN "asked" ELSE bz
          /\ res' = IF running THEN "none" ELSE "err"
      BY <1>6, <2>2 DEF Ask
    <3>2. Told(Kept)' = Told(Kept)
      BY DEF Told
    <3>3. name \in Nat /\ askedAs' <= name'
      BY <2>1, <3>1 DEF TypeOK
    <3>4. QED
      BY <2>1, <2>2, <3>1, <3>2, <3>3 DEF BluezParts, BluezInv, UpMeansRegistered, Before, Serving
  <2>3. CASE ~conn
    <3>1. stage' \in Over /\ UNCHANGED bluez
      BY <1>6, <2>3, FailsIsOver DEF Ask, Over, bluez
    <3>2. QED
      BY <2>1, <3>1, BluezStays
  <2>4. QED
    BY <2>2, <2>3
<1>7. CASE TakeReply
  <2>1. stage = "pending" /\ res # "none" /\ UNCHANGED <<bluez, conn, calls, failed, owner, res>>
    BY <1>7 DEF TakeReply, tasks
  <2>2. CASE Accepted
    <3>1. stage' = "up"
      BY <1>7, <2>2 DEF TakeReply
    <3>2. Registered
      BY <2>1, <2>2 DEF BluezInv, Accepted
    <3>3. Registered'
      BY <2>1, <3>2 DEF Registered, bluez
    <3>4. Told(Kept)' = Told(Kept)
      BY DEF Told
    <3>5. QED
      BY <2>1, <3>1, <3>3, <3>4 DEF BluezParts, BluezInv, UpMeansRegistered, Before, Serving, bluez
  <2>3. CASE ~Accepted
    <3>1. bz = "idle"
      BY <2>1, <2>3 DEF BluezInv, Accepted, TypeOK
    <3>2. stage' \in Over
      BY <1>7, <2>3, FailsIsOver DEF TakeReply, Over
    <3>3. QED
      BY <2>1, <3>1, <3>2, BluezStays
  <2>4. QED
    BY <2>2, <2>3
<1>8. CASE Cancel
  <2>1. stage' = "gone" /\ UNCHANGED <<bluez, conn, calls, failed, owner>>
    BY <1>8 DEF Cancel, IsOver, tasks
  <2>2. QED
    BY <1>2, <2>1, BluezStays DEF Over
<1>9. QED
  BY <1>3, <1>4, <1>5, <1>6, <1>7, <1>8 DEF Register

LEMMA ServeKeepsBluez == IInv /\ Serve => BluezParts'
<1> SUFFICES ASSUME IInv, Serve
             PROVE  BluezParts'
  OBVIOUS
<1>1. TypeOK /\ BluezInv /\ JobInv /\ WorkersInv /\ TasksInv /\ BluezParts /\ [Next]_vars
  BY DEF IInv, Next, BluezParts
<1> USE <1>1, AppStays
<1>2. Told(Kept)' = Told(Kept)
  BY DEF Told
<1>3. CASE TakeCall
  <2>1. /\ stage \in Serving /\ conn /\ calls # <<>> /\ calls' = Tail(calls)
        /\ UNCHANGED <<owner, res, name, running, known, askedAs, conn>>
    BY <1>3 DEF TakeCall, Serves
  <2>2. PICK n \in Nat : n = Len(calls)
    BY LenProperties DEF TypeOK
  <2>3. PICK l \in Nat : l = Len(calls')
    <3>1. calls' \in Seq(Call)
      BY <1>3, CallTaken
    <3>2. QED
      BY <3>1, LenProperties
  <2>4. l = n - 1
    BY <1>3, <2>2, <2>3, CallTaken
  <2>5. l <= CallCap + 1 /\ (bz = "asked" => l <= CallCap)
    <3>1. n <= CallCap + 1 /\ (bz = "asked" => n <= CallCap)
      BY <2>2 DEF BluezInv
    <3>2. QED
      BY <2>4, <3>1, BoundType
  <2>6. CASE RefusedCall(Head(calls).from) /\ UNCHANGED failed
    <3>1. stage' = stage /\ (bz' = bz \/ (bz = "fetching" /\ bz' = "denied"))
      BY <2>6 DEF RefusedCall
    <3>2. Registered' = Registered
      BY <2>1, <3>1 DEF Registered
    <3>3. QED
      BY <1>2, <2>1, <2>3, <2>5, <3>1, <3>2 DEF BluezParts, BluezInv, UpMeansRegistered, Before, Serving
  <2>9. CASE Panics /\ UNCHANGED bz
    <3>1. failed' # {} /\ stage' \in {"panic", "dead"}
      BY <2>9, PanicIsOver
    <3>2. QED
      BY <1>2, <2>1, <2>3, <2>5, <2>9, <3>1 DEF BluezParts, BluezInv, UpMeansRegistered, Before, Serving
  <2>7. CASE AskAll(Head(calls).from) /\ UNCHANGED <<bz, failed>>
    <3>1. Registered' = Registered
      BY <2>1, <2>7 DEF Registered
    <3>2. CASE Fails
      <4>1. \E p \in senders : task[p] # "run"
        BY <2>1, <2>7, <3>2 DEF AskAll, Fails, IsOver, Serving
      <4>2. failed # {}
        BY <2>1, <4>1 DEF TasksInv, Serving, Over
      <4>3. stage' \in {"err", "dead"}
        BY <3>2, FailsIsOver
      <4>4. QED
        BY <1>2, <2>1, <2>3, <2>5, <2>7, <4>2, <4>3
        DEF BluezParts, BluezInv, UpMeansRegistered, Before, Serving
    <3>3. CASE ~Fails
      <4>1. stage' = stage
        BY <2>7, <3>3 DEF AskAll
      <4>2. QED
        BY <1>2, <2>1, <2>3, <2>5, <2>7, <3>1, <4>1
        DEF BluezParts, BluezInv, UpMeansRegistered, Before, Serving
    <3>4. QED
      BY <3>2, <3>3
  <2>8. QED
    BY <1>3, <2>6, <2>7, <2>9 DEF TakeCall
<1>4. CASE Reply
  <2>1. /\ job.on /\ job.wait = {} /\ stage \in Serving
        /\ UNCHANGED <<owner, failed, res, name, running, askedAs, conn, calls>>
    BY <1>4 DEF Reply, JobInv, tasks
  <2>2. CASE conn /\ running /\ job.from = name
    <3>1. stage' = stage /\ known' = job.got /\ bz' = IF bz = "fetching" THEN "told" ELSE bz
      BY <1>4, <2>2 DEF Reply
    <3>2. job.got = Told(Kept)
      <4>1. senders \ job.wait = Kept
        BY <2>1 DEF WorkersInv
      <4>2. QED
        BY <2>1, <4>1 DEF JobInv
    <3>3. filter => owner = name
      BY <2>1, <2>2 DEF JobInv, Allowed
    <3>4. Registered' = Registered
      BY <2>1, <3>1 DEF Registered
    <3>5. QED
      BY <1>2, <2>1, <3>1, <3>2, <3>3, <3>4 DEF BluezParts, BluezInv, UpMeansRegistered, Before, Serving
  <2>3. CASE conn /\ ~(running /\ job.from = name)
    <3>1. stage' = stage /\ UNCHANGED bluez
      BY <1>4, <2>1, <2>3 DEF Reply, bluez
    <3>2. QED
      BY <2>1, <3>1, BluezStays
  <2>4. CASE ~conn
    <3>1. bz = "idle" /\ stage' \in Over /\ UNCHANGED bluez
      BY <1>4, <2>1, <2>4, FailsIsOver DEF Reply, BluezInv, Over, bluez
    <3>2. QED
      BY <2>1, <3>1, BluezStays
  <2>5. QED
    BY <2>2, <2>3, <2>4
<1>5. CASE Lost
  <2>1. bz = "idle" /\ stage' \in Over /\ UNCHANGED <<bluez, conn, calls, owner, failed>>
    BY <1>5, FailsIsOver DEF Lost, BluezInv, Over, tasks
  <2>2. QED
    BY <2>1, BluezStays
<1>6. QED
  BY <1>3, <1>4, <1>5 DEF Serve

LEMMA WorldKeepsBluez == IInv /\ (Bluez \/ World) => BluezParts'
<1> SUFFICES ASSUME IInv, Bluez \/ World
             PROVE  BluezParts'
  OBVIOUS
<1>1. TypeOK /\ BluezInv /\ UpMeansRegistered /\ [Next]_vars
  BY DEF IInv, Next
<1> USE <1>1, AppStays DEF BluezParts, BluezInv, UpMeansRegistered, Before, Serving
<1>2. Told(Kept)' = Told(Kept)
  BY DEF Told
<1>3. PICK n \in Nat : n = Len(calls)
  BY LenProperties DEF TypeOK
<1>4. name \in 1 .. MaxName /\ name \in Nat /\ askedAs \in Nat
  BY BoundType DEF TypeOK
<1>5. ASSUME NEW c \in Call, calls' = Append(calls, c)
      PROVE  Len(calls') = n + 1
  BY <1>3, <1>5, AppendProperties DEF TypeOK
<1>6. CASE BluezFetch
  <2>0. [from |-> name, of |-> "objects"] \in Call
    BY <1>4, BoundType DEF Call
  <2>1. /\ bz = "asked" /\ bz' = "fetching" /\ calls' = Append(calls, [from |-> name, of |-> "objects"])
        /\ UNCHANGED <<stage, owner, failed, res, name, running, known, askedAs, conn>>
    BY <1>6 DEF BluezFetch, ours, tasks
  <2>2. Len(calls') = n + 1 /\ n <= CallCap
    BY <1>3, <1>5, <2>0, <2>1
  <2>3. n + 1 <= CallCap + 1
    BY <2>2, BoundType
  <2>4. Registered => Registered'
    BY <2>1 DEF Registered
  <2>5. QED
    BY <1>2, <2>1, <2>2, <2>3, <2>4
<1>7. CASE BluezAccept
  <2>1. /\ bz = "told" /\ bz' = "registered" /\ res' = IF stage = "pending" THEN "ok" ELSE res
        /\ UNCHANGED <<stage, owner, failed, name, running, known, askedAs, conn, calls>>
    BY <1>7 DEF BluezAccept, Answer, ours, tasks
  <2>2. Registered'
    BY <2>1 DEF Registered
  <2>3. QED
    BY <1>2, <2>1, <2>2
<1>8. CASE BluezRefuse
  <2>1. /\ bz \in {"asked", "told", "denied"} /\ bz' = "idle" /\ known' = {}
        /\ res' = IF stage = "pending" THEN "err" ELSE res
        /\ UNCHANGED <<stage, owner, failed, name, running, askedAs, conn, calls>>
    BY <1>8 DEF BluezRefuse, Answer, ours, tasks
  <2>2. Registered => Registered'
    BY <2>1 DEF Registered
  <2>3. QED
    BY <1>2, <2>1, <2>2
<1>9. CASE CallAgain
  <2>1. Len(calls') = n + 1
    <3>1. \A from \in {Stranger, name}, of \in {"objects", "other"} : [from |-> from, of |-> of] \in Call
      BY <1>4, BoundType DEF Stranger, Call
    <3>2. QED
      BY <1>5, <1>9, <3>1 DEF CallAgain
  <2>2. n + 1 <= CallCap /\ n + 1 <= CallCap + 1
    BY <1>3, <1>9, BoundType DEF CallAgain
  <2>3. UNCHANGED <<bz, stage, owner, failed, res, name, running, known, askedAs, conn>>
    BY <1>9 DEF CallAgain, ours, tasks, bluez
  <2>4. Registered' = Registered
    BY <2>3 DEF Registered
  <2>5. QED
    BY <1>2, <2>1, <2>2, <2>3, <2>4
<1>10. CASE BluezStop
  <2>1. /\ running' = FALSE /\ bz' = "idle" /\ known' = {}
        /\ UNCHANGED <<stage, owner, failed, name, askedAs, conn, calls>>
    BY <1>10 DEF BluezStop, ours, tasks
  <2>2. Registered'
    BY <2>1 DEF Registered
  <2>3. QED
    BY <1>2, <2>1, <2>2
<1>11. CASE BluezStart
  <2>1. /\ ~running /\ name' = name + 1
        /\ UNCHANGED <<stage, owner, failed, res, bz, known, askedAs, conn, calls>>
    BY <1>11 DEF BluezStart, ours, tasks
  <2>2. bz = "idle"
    BY <2>1
  <2>3. askedAs <= name' /\ askedAs # name'
    BY <1>4, <2>1
  <2>4. Registered'
    BY <2>1, <2>3 DEF Registered
  <2>5. QED
    BY <1>2, <2>1, <2>2, <2>3, <2>4
<1>12. CASE LoseConn
  <2>1. /\ conn' = FALSE /\ bz' = "idle" /\ known' = {}
        /\ UNCHANGED <<stage, owner, failed, res, name, running, askedAs, calls>>
    BY <1>12 DEF LoseConn, ours, tasks
  <2>2. Registered'
    BY <2>1 DEF Registered
  <2>3. QED
    BY <1>2, <2>1, <2>2
<1>13. QED
  BY <1>6, <1>7, <1>8, <1>9, <1>10, <1>11, <1>12 DEF Bluez, World

LEMMA BluezKeeps == IInv /\ [Next]_vars => BluezParts'
<1>1. ASSUME IInv, NEW p \in places, Task(p) \/ TaskFails(p)
      PROVE  BluezParts'
  <2>1. BluezParts /\ [Next]_vars
    BY <1>1 DEF IInv, Next, BluezParts
  <2>2. UNCHANGED <<bluez, conn, calls, stage, owner, res>> /\ failed \subseteq failed'
    BY <1>1 DEF Task, TaskIncludes, TaskAnswers, TaskClosed, TaskFails, ours
  <2>3. QED
    BY <2>1, <2>2, BluezStays
<1>2. ASSUME IInv, UNCHANGED vars
      PROVE  BluezParts'
  <2>1. BluezParts /\ [Next]_vars
    BY <1>2 DEF IInv, BluezParts
  <2>2. UNCHANGED <<bluez, conn, calls, stage, owner, res, failed>>
    BY <1>2 DEF vars, ours, tasks
  <2>3. QED
    BY <2>1, <2>2, BluezStays
<1>3. QED
  BY <1>1, <1>2, RegisterKeepsBluez, ServeKeepsBluez, WorldKeepsBluez DEF Next

-----------------------------------------------------------------------------
(* The results.                                                             *)
LEMMA InitIInv == Init => IInv
<1> SUFFICES ASSUME Init
             PROVE  IInv
  OBVIOUS
<1>1. TasksInv
  BY DEF Init, TasksInv
<1>2. JobInv
  BY DEF Init, JobInv, NoJob
<1>3. QED
  BY <1>1, <1>2, InitTypes, InitWorkers, InitChannels, InitBluez DEF IInv, BluezParts

LEMMA NextIInv == IInv /\ [Next]_vars => IInv'
BY TypesKeep, WorkersKeep, TasksKeep, ChannelsKeep, JobKeeps, BluezKeeps DEF IInv, BluezParts

(* BlueZ and the application agree, with the inductive invariant and what   *)
(* follows from it: register's stages, the workers and tasks there are, what *)
(* their channels hold, the call in hand and BlueZ fit together; with the    *)
(* filter the BlueZ that is told of the application is the one looked up;    *)
(* and BlueZ is not left with an application nobody serves, unless the user  *)
(* dropped the future, an attribute's task failed, or a call was let through *)
(* that handle_app panics on (mod.rs:57, 61).                                *)
THEOREM BluezAndAppAgree == Spec => []Agreed
<1>1. IInv => Agreed
  <2> SUFFICES ASSUME IInv
               PROVE  OneBluez /\ NoOrphan
    BY DEF Agreed
  <2>1. BluezInv
    BY DEF IInv
  <2>2. OneBluez
    BY <2>1 DEF OneBluez, BluezInv
  <2>3. NoOrphan
    BY <2>1 DEF NoOrphan, BluezInv
  <2>4. QED
    BY <2>2, <2>3
<1>2. QED
  BY <1>1, InitIInv, NextIInv, PTL DEF Spec

(* What BlueZ registers is the whole application, whatever the order of the  *)
(* answers and whatever failed on the way, and the AppWorker reaches all of  *)
(* it.                                                                       *)
THEOREM RegistersTheWhole == Spec => []RegisteredWhole
<1>1. IInv => RegisteredWhole
  BY DEF IInv, WorkersInv, BluezInv, RegisteredWhole
<1>2. QED
  BY <1>1, InitIInv, NextIInv, PTL DEF Spec

(* register fails, and the app worker dies, only for a cause: neither a call *)
(* the filter refuses nor a GetManagedObjects call is one, whoever makes it; *)
(* a call let through for which handle_app has no arm is.                    *)
THEOREM FailuresHaveACause == Spec => FailNeedsCause
<1> DEFINE Cause ==
      \/ ~conn \/ res = "err" \/ failed # {}
      \/ calls # <<>> /\ Unserved(Head(calls))
      \/ stage = "lookup" /\ ~running
      \/ stage = "include" /\ \E i \in DOMAIN app :
           ~(app[i].includes \subseteq {app[j].id : j \in DOMAIN app})
<1>1. ASSUME IInv, Next, stage' # stage, stage' \in {"err", "panic", "dead"}
      PROVE  Cause
  <2>1. TypeOK /\ WorkersInv /\ TasksInv /\ [Next]_vars
    BY <1>1 DEF IInv
  <2> USE <1>1, <2>1, AppStays
  <2>2. CASE LookUp
    BY <2>2 DEF LookUp
  <2>3. CASE Start
    BY <2>3 DEF Start
  <2>4. CASE Include
    <3>1. PICK i \in untold :
            ~(app[i].includes \subseteq {app[j].id : j \in DOMAIN app} /\ task[ServicePlace(i)] = "run")
      BY <2>4 DEF Include
    <3>2. stage = "include" /\ i \in DOMAIN app
      BY <2>4, <3>1 DEF Include, TypeOK
    <3>3. CASE task[ServicePlace(i)] # "run"
      <4>1. ServicePlace(i) \in Kept
        <5>1. ServicePlace(i) \in places
          BY <3>2, ArePlaces DEF ServicePlace
        <5>2. Keeps(ServicePlace(i))
          BY DEF Keeps, ServicePlace
        <5>3. QED
          BY <5>1, <5>2 DEF Kept
      <4>2. ServicePlace(i) \in workers
        BY <3>2, <4>1 DEF WorkersInv
      <4>3. QED
        BY <3>2, <3>3, <4>2 DEF TasksInv, Over
    <3>4. QED
      BY <3>1, <3>2, <3>3
  <2>5. CASE Ask
    BY <2>5 DEF Ask
  <2>6. CASE TakeReply
    BY <2>6 DEF TakeReply, Accepted, TypeOK
  <2>7. CASE TakeCall
    <3>1. CASE Unserved(Head(calls))
      BY <2>7, <3>1 DEF TakeCall
    <3>2. CASE ~Unserved(Head(calls))
      <4>1. stage \in Serving /\ \E p \in senders : task[p] # "run"
        BY <2>7, <3>2 DEF TakeCall, Serves, RefusedCall, AskAll
      <4>2. QED
        BY <4>1 DEF TasksInv, Serving, Over
    <3>3. QED
      BY <3>1, <3>2
  <2>8. CASE Reply \/ Lost
    BY <2>8 DEF Reply, Lost
  <2>9. CASE Cancel
    BY <2>9 DEF Cancel, IsOver
  <2>10. ASSUME NEW p \in places, Task(p) \/ TaskFails(p)
         PROVE  FALSE
    BY <2>10 DEF Task, TaskIncludes, TaskAnswers, TaskClosed, TaskFails
  <2>11. CASE Bluez \/ World
    BY <2>11 DEF Bluez, World, BluezFetch, BluezAccept, BluezRefuse, CallAgain, BluezStop,
                 BluezStart, LoseConn
  <2>12. QED
    BY <2>2, <2>3, <2>4, <2>5, <2>6, <2>7, <2>8, <2>9, <2>10, <2>11 DEF Next, Register, Serve
<1>2. ASSUME IInv, [Next]_vars
      PROVE  [stage' # stage /\ stage' \in {"err", "panic", "dead"} => Cause]_vars
  BY <1>1, <1>2
<1>3. QED
  BY <1>2, InitIInv, NextIInv, PTL DEF Spec, FailNeedsCause
=============================================================================
