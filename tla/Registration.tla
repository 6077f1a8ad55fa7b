---------------------------- MODULE Registration ----------------------------
(***************************************************************************)
(* Application::register (src/gatt/server/mod.rs), the task of the app     *)
(* worker it spawns, and BlueZ, which is asked by RegisterApplication and  *)
(* asks back by GetManagedObjects before it answers.  register starts one  *)
(* task per attribute, files its worker under a key, tells the services    *)
(* which others they include, and then serves its object path itself until *)
(* BlueZ has answered.  BlueZ may refuse, stop and come back under another *)
(* bus name; the user may drop the future of register at any time.         *)
(*                                                                         *)
(* Of the attribute tasks only what register and the app worker see is     *)
(* kept: the message channel, what they answer, and their end; the rest is *)
(* in AttrWorker and ChrcWorker.  What the AppWorker's user does is in     *)
(* GattApp.  The object paths, claimed on the way and never given back,    *)
(* are left out: every call finds a queue, the app's one is `calls`.  An   *)
(* Introspect call is answered in place without a change and left out.     *)
(***************************************************************************)
EXTENDS AppKeys, FiniteSets

CONSTANTS
  Apps,      \* the applications that are registered
  MaxName,   \* bound: the bus names BlueZ comes to have
  MaxFail,   \* bound: the attribute tasks that fail of themselves
  CallCap    \* bound: the calls of others that wait at the application's path

ASSUME BoundType == MaxName \in Nat \ {0} /\ MaxFail \in Nat /\ CallCap \in Nat

DescType == [id : Nat]
ChrcType == [id : Nat, descs : Seq(DescType)]
ServType == [id : Nat, includes : SUBSET Nat, chars : Seq(ChrcType)]
Distinct(seq) == \A i, j \in DOMAIN seq : seq[i].id = seq[j].id => i = j

(* What the builder methods let through: siblings have different UUIDs (see *)
(* AppTree), and a UUID may be 0.  register asserts that there is a service. *)
ASSUME AppsType ==
  \A a \in Apps :
    /\ a \in Seq(ServType) /\ a # <<>> /\ Distinct(a)
    /\ \A i \in DOMAIN a : Distinct(a[i].chars)
    /\ \A i \in DOMAIN a : \A j \in DOMAIN a[i].chars : Distinct(a[i].chars[j].descs)

VARIABLES
  app,      \* the application: services [id, includes, chars]
  filter,   \* Application.filter
  stage,    \* where register is, or how it or the app worker ended
  owner,    \* the bus name of BlueZ that register looked up, or Nobody
  task,     \* the task of each attribute
  chan,     \* its message channel
  included, \* the services a service says it includes
  untold,   \* services not yet told what they include
  workers,  \* attributes whose worker is in the map, or in the AppWorker
  senders,  \* attributes the app data has a Sender of
  job,      \* the GetManagedObjects call in hand: who has yet to answer, what came
  calls,    \* the waiting calls: the bus names they come from, and what of
  res,      \* the reply to RegisterApplication
  failed,   \* attributes whose task failed of itself, AppPlace if handle_app did
  name, running,  \* BlueZ: its bus name, and whether it runs
  bz,       \* BlueZ: what it does about the application
  known,    \* BlueZ: the objects it was told of
  askedAs,  \* BlueZ's bus name when it was asked
  conn      \* whether the D-Bus connection works

places == Places(app)
ours == <<app, filter, owner, untold, workers, senders>>
tasks == <<task, chan, included, failed>>
bluez == <<name, running, bz, known, askedAs>>
vars == <<ours, stage, tasks, job, calls, res, bluez, conn>>

Stranger == 0
Nobody == 0
Serving == {"pending", "up"}
Over == {"err", "panic", "gone", "dead"}
NoJob == [from |-> Stranger, on |-> FALSE, wait |-> {}, got |-> {}]
Objects == [at : places, includes : SUBSET places]
AppPlace == <<0, 0, 0>>

(* A call of the application's path: of ObjectManager, or of an interface   *)
(* handle_app has no arm for.                                               *)
Call == [from : 0 .. MaxName, of : {"objects", "other"}]

TypeOK ==
  /\ app \in Apps /\ filter \in BOOLEAN
  /\ stage \in {"lookup", "start", "include"} \cup Serving \cup Over
  /\ owner \in 0 .. MaxName
  /\ task \in [places -> {"none", "run", "ended"}]
  /\ chan \in [places -> Seq({"Includes", "ObjMgr"})]
  /\ \A p \in places : Len(chan[p]) <= 2
  /\ included \in [places -> SUBSET places]
  /\ untold \subseteq DOMAIN app
  /\ workers \subseteq places /\ senders \subseteq places
  /\ job \in [from : 0 .. MaxName, on : BOOLEAN, wait : SUBSET senders, got : SUBSET Objects]
  /\ calls \in Seq(Call) /\ Len(calls) <= CallCap + MaxName
  /\ res \in {"none", "ok", "err"}
  /\ failed \subseteq places \cup {AppPlace}
  /\ name \in 1 .. MaxName /\ running \in BOOLEAN
  /\ bz \in {"idle", "asked", "fetching", "told", "denied", "registered"}
  /\ known \subseteq Objects /\ askedAs \in 0 .. MaxName
  /\ conn \in BOOLEAN

-----------------------------------------------------------------------------
ServicePlace(i) == <<i, 0, 0>>
KeyOf(p) == KeyAt(app, p)

(* The worker filed under a key.                                            *)
Filed(key) == {p \in workers : KeyOf(p) = key}

(* HashMap::insert: a worker already there is dropped, its Sender with it.  *)
Insert(p) == (workers \ Filed(KeyOf(p))) \cup {p}

\* A bug of the kind the module must exclude: the filter is not consulted.
AllowedAnyone(from) == TRUE

(* Who may call: is_msg_bluez.  Senders on the bus have unique names, so    *)
(* none is called org.bluez.                                                *)
Allowed(from) == ~filter \/ from = owner

(* A task can be reached through a Sender somebody holds.                   *)
Reachable(p) == p \in workers \cup senders

Init ==
  /\ app \in Apps /\ filter \in BOOLEAN
  /\ stage = "lookup" /\ owner = Nobody
  /\ task = [p \in places |-> "none"]
  /\ chan = [p \in places |-> <<>>]
  /\ included = [p \in places |-> {}]
  /\ untold = {i \in DOMAIN app : app[i].includes # {}}
  /\ workers = {} /\ senders = {}
  /\ job = NoJob /\ calls = <<>> /\ res = "none" /\ failed = {}
  /\ name = 1 /\ running \in BOOLEAN
  /\ bz = "idle" /\ known = {} /\ askedAs = Nobody
  /\ conn = TRUE

-----------------------------------------------------------------------------
(* register, or the task of the app worker, ends: what it holds is dropped. *)
(* The AppWorker keeps its workers when that task fails.                    *)
\* A bug of the kind the module must exclude: a Sender of each task lives on in the task.
OverKeeping(how) ==
  /\ stage' = how
  /\ job' = NoJob
  /\ workers' = IF how = "dead" THEN workers ELSE {}
  /\ UNCHANGED senders

IsOver(how) ==
  /\ stage' = how
  /\ job' = NoJob
  /\ workers' = IF how = "dead" THEN workers ELSE {}
  /\ senders' = {}

Fails == IsOver(IF stage = "up" THEN "dead" ELSE "err")

(* GetNameOwner, only with the filter.                                      *)
LookUp ==
  /\ stage = "lookup"
  /\ \/ ~filter /\ stage' = "start" /\ UNCHANGED <<owner, job, workers, senders>>
     \/ /\ filter /\ conn /\ running
        /\ owner' = name /\ stage' = "start"
        /\ UNCHANGED <<job, workers, senders>>
     \/ filter /\ ~(conn /\ running) /\ Fails /\ UNCHANGED owner
  /\ UNCHANGED <<app, filter, untold, tasks, calls, res, bluez, conn>>

(* The next attribute: its task is spawned, its worker filed.               *)
Start ==
  /\ stage = "start"
  /\ LET left == {p \in places : task[p] = "none"} IN
     \E p \in left :
       /\ \A q \in left \ {p} : StartsBefore(p, q)
       /\ task' = [task EXCEPT ![p] = "run"]
       /\ workers' = Insert(p)
       /\ stage' = IF left = {p} THEN "include" ELSE stage
  /\ UNCHANGED <<app, filter, owner, untold, senders, chan, included, failed>>
  /\ UNCHANGED <<job, calls, res, bluez, conn>>

(* The next service with includes is sent the paths of their services.  One *)
(* that is not in the application panics (the index into workers), and so   *)
(* does a service whose task has ended (unwrap).                            *)
Include ==
  /\ stage = "include"
  /\ \E i \in untold :
       LET ids == {app[j].id : j \in DOMAIN app}
           p == ServicePlace(i)
       IN /\ \A j \in untold : i <= j
          /\ untold' = untold \ {i}
          /\ IF app[i].includes \subseteq ids /\ task[p] = "run"
             THEN /\ chan' = [chan EXCEPT ![p] = Append(@, "Includes")]
                  /\ UNCHANGED <<stage, job, workers, senders>>
             ELSE IsOver("panic") /\ UNCHANGED chan
  /\ UNCHANGED <<app, filter, owner, task, included, failed, calls, res, bluez, conn>>

(* begin_reg_call; without BlueZ the bus answers with an error.             *)
\* A bug of the kind the module must exclude: BlueZ is asked before the services are told.
AskEarly == stage = "include"

AskNow == stage = "include" /\ untold = {}

Ask ==
  /\ AskNow
  /\ IF conn
     THEN /\ stage' = "pending" /\ senders' = workers
          /\ askedAs' = name
          /\ bz' = IF running THEN "asked" ELSE bz
          /\ res' = IF running THEN "none" ELSE "err"
          /\ UNCHANGED <<workers, job>>
     ELSE Fails /\ UNCHANGED <<bz, res, askedAs>>
  /\ UNCHANGED <<app, filter, owner, untold, tasks, calls, name, running, known, conn>>

-----------------------------------------------------------------------------
(* is_msg_err_empty on the reply to RegisterApplication.                    *)
Accepted == res = "ok"

(* The reply ends the wait: the app worker is filed under the key of all    *)
(* zeros, and a task spawned to go on serving the path.                     *)
TakeReply ==
  /\ stage = "pending" /\ ~job.on /\ res # "none"
  /\ IF Accepted
     THEN /\ stage' = "up"
          /\ workers' = workers \ Filed(Key(0, 0, 0))
          /\ UNCHANGED <<job, senders>>
     ELSE Fails
  /\ UNCHANGED <<app, filter, owner, untold, tasks, calls, res, bluez, conn>>

\* A bug of the kind the module must exclude: the path is served only once BlueZ has answered.
ServesWhenUp == ~job.on /\ stage = "up"

(* select finds no reply, and looks for a call.                             *)
Serves == ~job.on /\ stage \in Serving /\ (stage = "pending" => res = "none")

\* A bug of the kind the module must exclude: a call that is refused ends the wait.
RefusedFails(from) ==
  /\ ~Allowed(from)
  /\ Fails
  /\ bz' = IF bz = "fetching" /\ from = name THEN "denied" ELSE bz

(* handle_app: a call that is refused is answered at once, one of           *)
(* GetManagedObjects asks every attribute.                                  *)
RefusedCall(from) ==
  /\ ~Allowed(from)
  /\ bz' = IF bz = "fetching" /\ from = name THEN "denied" ELSE bz
  /\ UNCHANGED <<stage, workers, senders, job>>

(* handle_obj_mgr polls one future per attribute, and each sends at once,   *)
(* as the channels have room; one that finds its task ended makes them all  *)
(* fail, whichever have sent before it.                                     *)
AskAll(from) ==
  LET Requested(set) == chan' = [p \in places |->
                          IF p \in set THEN Append(chan[p], "ObjMgr") ELSE chan[p]]
      alive == {p \in senders : task[p] = "run"}
  IN \/ /\ alive = senders /\ Requested(senders)
        /\ job' = [from |-> from, on |-> TRUE, wait |-> senders, got |-> {}]
        /\ UNCHANGED <<stage, workers, senders>>
     \/ /\ alive # senders /\ \E set \in SUBSET alive : Requested(set)
        /\ Fails

(* A call let through that names no interface, or another one, panics: in   *)
(* the future of register, or in the task of the app worker.                *)
Unserved(c) == Allowed(c.from) /\ c.of = "other"
Panics ==
  /\ IsOver(IF stage = "up" THEN "dead" ELSE "panic")
  /\ failed' = failed \cup {AppPlace}

TakeCall ==
  /\ Serves /\ conn /\ calls # <<>>
  /\ calls' = Tail(calls)
  /\ LET c == Head(calls) IN
     \/ RefusedCall(c.from) /\ UNCHANGED <<chan, failed>>
     \/ Unserved(c) /\ Panics /\ UNCHANGED <<chan, bz>>
     \/ Allowed(c.from) /\ c.of = "objects" /\ AskAll(c.from) /\ UNCHANGED <<bz, failed>>
  /\ UNCHANGED <<app, filter, owner, untold, task, included>>
  /\ UNCHANGED <<res, name, running, known, askedAs, conn>>

(* All have answered; the reply is sent.                                    *)
Reply ==
  /\ job.on /\ job.wait = {}
  /\ IF conn
     THEN /\ job' = NoJob
          /\ IF running /\ job.from = name
             THEN /\ known' = job.got
                  /\ bz' = IF bz = "fetching" THEN "told" ELSE bz
             ELSE UNCHANGED <<known, bz>>
          /\ UNCHANGED <<stage, workers, senders>>
     ELSE Fails /\ UNCHANGED <<known, bz>>
  /\ UNCHANGED <<app, filter, owner, untold, tasks, calls, res, name, running, askedAs, conn>>

(* A lost connection is noticed where neither a reply nor a job is at hand. *)
Lost ==
  /\ Serves /\ ~conn
  /\ Fails
  /\ UNCHANGED <<app, filter, owner, untold, tasks, calls, res, bluez, conn>>

(* The user drops the future of register.                                   *)
Cancel ==
  /\ stage \in {"lookup", "start", "include", "pending"}
  /\ IsOver("gone")
  /\ UNCHANGED <<app, filter, owner, untold, tasks, calls, res, bluez, conn>>

Register == LookUp \/ Start \/ Include \/ Ask \/ TakeReply
Serve == TakeCall \/ Reply \/ Lost

-----------------------------------------------------------------------------
(* The attribute tasks.  A message is looked at before anything else.       *)
TaskIncludes(p) ==
  /\ task[p] = "run" /\ chan[p] # <<>> /\ Head(chan[p]) = "Includes"
  /\ chan' = [chan EXCEPT ![p] = Tail(@)]
  /\ included' = [included EXCEPT ![p] =
       {q \in places : q[2] = 0 /\ app[q[1]].id \in app[p[1]].includes}]
  /\ UNCHANGED <<ours, stage, task, failed, job, calls, res, bluez, conn>>

(* The answer.  When nobody waits for it, a service or a descriptor ends in *)
(* error, a characteristic does not look (.ok()).                           *)
TaskAnswers(p) ==
  /\ task[p] = "run" /\ chan[p] # <<>> /\ Head(chan[p]) = "ObjMgr"
  /\ chan' = [chan EXCEPT ![p] = Tail(@)]
  /\ IF p \in job.wait
     THEN /\ job' = [job EXCEPT !.wait = @ \ {p},
                                !.got = @ \cup {[at |-> p, includes |-> included[p]]}]
          /\ UNCHANGED task
     ELSE /\ task' = IF p[2] # 0 /\ p[3] = 0 THEN task
                     ELSE [task EXCEPT ![p] = "ended"]
          /\ UNCHANGED job
  /\ UNCHANGED <<ours, stage, included, failed, calls, res, bluez, conn>>

(* Every Sender is gone, or the connection is; a message that comes between *)
(* the look at the channel and that at the connection is left behind.       *)
TaskClosed(p) ==
  /\ task[p] = "run" /\ (~conn \/ (chan[p] = <<>> /\ ~Reachable(p)))
  /\ task' = [task EXCEPT ![p] = "ended"]
  /\ UNCHANGED <<ours, stage, chan, included, failed, job, calls, res, bluez, conn>>

(* A panic, or an error of its own.                                         *)
TaskFails(p) ==
  /\ task[p] = "run" /\ Cardinality(failed \cap places) < MaxFail
  /\ task' = [task EXCEPT ![p] = "ended"]
  /\ failed' = failed \cup {p}
  /\ UNCHANGED <<ours, stage, chan, included, job, calls, res, bluez, conn>>

Task(p) == TaskIncludes(p) \/ TaskAnswers(p) \/ TaskClosed(p)

-----------------------------------------------------------------------------
(* BlueZ.  It calls GetManagedObjects before it answers RegisterApplication *)
(* and may refuse what it is told.  Its reply reaches register if that is   *)
(* still waiting.                                                           *)
Answer(r) == res' = IF stage = "pending" THEN r ELSE res

BluezFetch ==
  /\ running /\ conn /\ bz = "asked"
  /\ bz' = "fetching" /\ calls' = Append(calls, [from |-> name, of |-> "objects"])
  /\ UNCHANGED <<ours, stage, tasks, job, res, name, running, known, askedAs, conn>>

BluezAccept ==
  /\ bz = "told" /\ bz' = "registered"
  /\ Answer("ok")
  /\ UNCHANGED <<ours, stage, tasks, job, calls, name, running, known, askedAs, conn>>

BluezRefuse ==
  /\ bz \in {"asked", "told", "denied"} /\ bz' = "idle" /\ known' = {}
  /\ Answer("err")
  /\ UNCHANGED <<ours, stage, tasks, job, calls, name, running, askedAs, conn>>

(* Others, and BlueZ again, call the application's path too.                *)
CallAgain ==
  /\ conn /\ Len(calls) < CallCap
  /\ \E from \in {Stranger, name}, of \in {"objects", "other"} :
       /\ from = name => bz = "registered"
       /\ calls' = Append(calls, [from |-> from, of |-> of])
  /\ UNCHANGED <<ours, stage, tasks, job, res, bluez, conn>>

(* BlueZ stops, its requests are answered by the bus with an error.         *)
BluezStop ==
  /\ running /\ running' = FALSE
  /\ bz' = "idle" /\ known' = {}
  /\ IF bz \in {"asked", "fetching", "told", "denied"} THEN Answer("err") ELSE UNCHANGED res
  /\ UNCHANGED <<ours, stage, tasks, job, calls, name, askedAs, conn>>

BluezStart ==
  /\ ~running /\ name < MaxName
  /\ running' = TRUE /\ name' = name + 1
  /\ UNCHANGED <<ours, stage, tasks, job, calls, res, bz, known, askedAs, conn>>

LoseConn ==
  /\ conn /\ conn' = FALSE
  /\ bz' = "idle" /\ known' = {}
  /\ UNCHANGED <<ours, stage, tasks, job, calls, res, name, running, askedAs>>

Bluez == BluezFetch \/ BluezAccept \/ BluezRefuse
World == CallAgain \/ BluezStop \/ BluezStart \/ LoseConn

Next ==
  \/ Register \/ Serve \/ Cancel
  \/ \E p \in places : Task(p) \/ TaskFails(p)
  \/ Bluez \/ World

(* register, the app worker's task and the attributes' tasks are polled;    *)
(* BlueZ goes on with what it was asked.                                    *)
Fairness ==
  /\ WF_vars(Register) /\ WF_vars(Serve)
  /\ WF_vars(\E p \in places : Task(p))
  /\ WF_vars(Bluez)

Spec == Init /\ [][Next]_vars /\ Fairness

-----------------------------------------------------------------------------
(* The attributes that keep a worker: one whose own UUID is 0 is filed      *)
(* under the key of the attribute above it, which then replaces it.         *)
Keeps(p) ==
  \/ p[2] = 0
  \/ p[3] = 0 /\ app[p[1]].chars[p[2]].id # 0
  \/ p[3] # 0 /\ app[p[1]].chars[p[2]].descs[p[3]].id # 0
Kept == {p \in places : Keeps(p)}
Declared(p) ==
  IF p[2] # 0 THEN {}
  ELSE {q \in places : q[2] = 0 /\ app[q[1]].id \in app[p[1]].includes}

(* BlueZ registers the whole application or nothing of it: when it accepts, *)
(* it was told of every attribute (with a UUID other than 0), of each       *)
(* service with all the services it includes; and the AppWorker then        *)
(* reaches all of them, but for a service with the UUID 0, whose key is     *)
(* that of the app worker (mod.rs:365).                                     *)
Told(set) == {[at |-> p, includes |-> Declared(p)] : p \in set}
RegisteredWhole ==
  /\ bz = "registered" => known = Told(Kept)
  /\ stage = "up" => workers = {p \in Kept : KeyOf(p) # Key(0, 0, 0)}

(* An AppWorker is only returned when BlueZ has the application; later      *)
(* BlueZ may have stopped, of which the AppWorker does not tell.            *)
Registered == bz = "registered" \/ ~conn \/ ~running \/ name # askedAs
UpMeansRegistered == stage = "up" => Registered

(* With the filter, the BlueZ that is told of the application is the one    *)
(* whose owner was looked up: should it have been replaced in between, the  *)
(* new one is refused and refuses in turn, and register returns an error.   *)
OneBluez == filter /\ bz \in {"told", "registered"} => askedAs = owner /\ name = owner

(* BlueZ is not left with an application nobody serves, unless the user     *)
(* dropped the future, an attribute's task failed, or a call was let        *)
(* through that handle_app panics on.                                       *)
NoOrphan == bz = "registered" => stage \in Serving \/ stage = "gone" \/ failed # {}

(* How far register is decides which workers there are: while they are      *)
(* started, those that no later one with the same key has replaced.         *)
Before == {"lookup", "start", "include"}
Started == {p \in places : task[p] # "none"}
WorkersInv ==
  /\ stage = "lookup" => Started = {}
  /\ stage \in {"lookup", "start"} =>
       /\ \A p \in Started : \A q \in places \ Started : StartsBefore(p, q)
       /\ workers = {p \in Started : \A q \in Started \ {p} :
                        KeyOf(p) = KeyOf(q) => StartsBefore(q, p)}
  /\ stage \in {"include", "pending"} => workers = Kept
  /\ stage \in {"include"} \cup Serving => Started = places
  /\ stage \in Serving => senders = Kept /\ untold = {}
  /\ stage = "up" => workers = {p \in Kept : KeyOf(p) # Key(0, 0, 0)}

(* A task that register or the app worker can reach ends only of itself.    *)
TasksInv ==
  stage \notin Over /\ conn => \A p \in workers \cup senders : task[p] = "run" \/ p \in failed

(* A channel holds at most what a service includes, then one request, whose *)
(* answer is waited for; what it includes has been, is or will be sent.     *)
Asked(p) == chan[p] \in {<<"ObjMgr">>, <<"Includes", "ObjMgr">>}
Includes(p) == chan[p] \in {<<"Includes">>, <<"Includes", "ObjMgr">>}
ChannelsInv ==
  \A p \in places :
    /\ chan[p] = <<>> \/ Asked(p) \/ Includes(p)
    /\ Includes(p) => p[2] = 0
    /\ p[2] = 0 /\ p[1] \in untold => chan[p] = <<>>
    /\ stage \in Before => ~Asked(p)
    /\ stage \in Serving => (Asked(p) => p \in job.wait)
    /\ stage \notin Over =>
         included[p] = Declared(p) \/ Includes(p) \/ (p[2] = 0 /\ p[1] \in untold)

(* What came of a call in hand is whole, and its caller was let through.    *)
JobInv ==
  /\ job.on => stage \in Serving /\ Allowed(job.from) /\ job.got = Told(senders \ job.wait)
  /\ ~job.on => job = NoJob

(* What BlueZ does about the application, and what it has answered.         *)
BluezInv ==
  /\ bz # "idle" =>
       /\ running /\ conn /\ askedAs = name
       /\ stage \notin Before /\ (stage \in Serving \cup {"gone"} \/ failed # {})
  /\ askedAs <= name
  /\ known = {} \/ known = Told(Kept)
  /\ bz \in {"told", "registered"} => known = Told(Kept) /\ (filter => owner = name)
  /\ stage = "pending" /\ res = "err" => bz = "idle"
  /\ stage = "pending" /\ res = "ok" => Registered
  /\ stage \in Before \/ bz = "asked" => Len(calls) <= CallCap
  /\ Len(calls) <= CallCap + 1

IInv == TypeOK /\ WorkersInv /\ TasksInv /\ ChannelsInv /\ JobInv /\ BluezInv /\ UpMeansRegistered

(* BlueZ and the application agree on whether it is registered.             *)
Agreed == IInv /\ OneBluez /\ NoOrphan

(* register fails, and the app worker dies, for a cause: BlueZ refused or   *)
(* was not there, the connection is lost, a task failed, a service that is  *)
(* not in the application is included, or the call it takes is one that was *)
(* let through and handle_app has no arm for (mod.rs:57, 61).  A call that  *)
(* the filter refuses never makes it fail, GetManagedObjects of a stranger  *)
(* not without the filter either.                                           *)
FailNeedsCause ==
  [][stage' # stage /\ stage' \in {"err", "panic", "dead"} =>
       \/ ~conn \/ res = "err" \/ failed # {}
       \/ calls # <<>> /\ Unserved(Head(calls))
       \/ stage = "lookup" /\ ~running
       \/ stage = "include" /\ \E i \in DOMAIN app :
            ~(app[i].includes \subseteq {app[j].id : j \in DOMAIN app})]_vars

(* The one way to wait for ever: a task ended with a request in its         *)
(* channel, which app data's own Sender keeps alive.                        *)
Hung == \E p \in job.wait : task[p] = "ended"

(* register ends: it answers BlueZ's questions while it waits for BlueZ.    *)
RegisterEnds == stage \notin Over \cup {"up"} ~> stage \in Over \cup {"up"} \/ Hung

(* A register that failed, or was dropped, leaves no task behind: those     *)
(* already started find their channels closed.                              *)
NoTaskLeaks == stage \in {"err", "panic", "gone"} ~> \A p \in places : task[p] # "run"
=============================================================================
