# A verification project for rustable

rustable (`src/`) is a Rust library for Bluetooth GATT on Linux. It talks to the
BlueZ daemon over D-Bus and uses `async-std` tasks, channels and one-time
channels inside. This directory holds TLA+ models of its core, the TLC
configurations that check them on small instances, and TLAPS proofs.

Source paths below are relative to the repository (`src/gatt/server/chrc.rs`,
...). Line numbers are those of the checked commit.

## 1. Inventory

| component | source | state | operations |
|---|---|---|---|
| one-time channel | `gatt/server/one_time.rs` | a mutex with an `Option`, a condvar, an `Arc` held by the receiver, a `Weak` held by the sender | `send` (spins on `try_lock`), `Drop` of the sender, `recv`, drop of the receiver |
| attribute values | `gatt/mod.rs` | 512 `MaybeUninit` bytes and a length | `new`, `resize`, `resize_with`, `update`, `push`, `extend_from_slice`, slices, `clone` |
| characteristic worker | `gatt/server/chrc.rs` | value, handle, flags, notify session, write socket | messages, notify callback, write socket, D-Bus calls |
| service and descriptor workers | `gatt/server/service.rs`, `descriptor.rs` | handle, includes; value, handle, flags | messages, D-Bus calls |
| registration | `gatt/server/mod.rs` 208-352 | owner of org.bluez, the workers and channels made on the way, the call under way | `register`: start the tasks, send the includes, RegisterApplication while answering GetManagedObjects, spawn the app task |
| application worker | `gatt/server/mod.rs` 37-101, 341-362 | senders to every attribute worker | GetManagedObjects, Introspect, Unregister |
| AppWorker | `gatt/server/mod.rs` 383-623 | map from (service, characteristic, descriptor) UUIDs to workers | `update_*`, `notify_char`, `get_*`, `char_notif*`, `unregister`, drop |
| Application (builder) | `gatt/server/mod.rs` 102-367 | vector of services, D-Bus name, filter | `add_*`, `remove_*`, `set_dbus_name` |
| properties | `properties.rs` | - | Get, Set, GetAll over the three kinds of attributes |
| introspection | `introspect.rs` | - | XML for Introspect; child names parsed from it |
| GATT client | `gatt/client.rs` | paths and UUIDs of remote objects, notify and write sockets | discovery, `get_includes`, read, write, acquire |
| advertising | `advertising.rs` | one task and one D-Bus path per advertisement, a channel of one message | `register`, `is_alive`, `release`, drop; BlueZ's Release, properties |
| Bluetooth service, adapter, device | `lib.rs` | D-Bus paths, UUID and MAC | `get_adapter`, `get_device(s)`, `get_service(s)`, single calls to BlueZ, conversions, error replies |
| interfaces | `interfaces.rs` | - | not compiled (no `mod` names it) |

How they interact. `Application::register` starts one task per service,
characteristic and descriptor and one for the application; each has a bounded
channel of `WorkerMsg` and a D-Bus call queue. The `AppWorker` owns the senders
and the join handles; the application task owns a clone of every attribute's
sender, because it answers GetManagedObjects by asking each attribute. Questions
carry the sending half of a one-time channel. A characteristic also owns one
end of up to two socket pairs whose other ends it hands to BlueZ. An
`Advertisement` becomes a task of its own with the D-Bus path it is served at;
its `AdWorker` talks to it through a channel. The client side has no tasks: each
operation is a future that introspects a path, asks every child for its UUID at
once, and gives the user objects that hold no more than a path and a UUID.

What is hard, and what correctness means there:

* *one-time channel*: two threads, a lock, a condvar without the lock held on
  `Drop`, and a reference count used as a signal. Correct: a stored value is
  delivered, "closed" is never reported for one, the spin ends.
* *attribute values*: unsafe slices. Correct: nothing unwritten and nothing
  stale is ever visible.
* *characteristic worker*: four event sources, two of which may change while a
  handler is suspended in `socket.send`. Correct: one notification session at a
  time, BlueZ has what it was granted, no write is dropped, `Unregister` and
  D-Bus calls are eventually served.
* *application*: concurrent fan-out from two places (`GetManagedObjects`,
  `unregister`) into the same queues, futures that can be dropped at any
  `.await`, workers that end in error. Correct: accepted messages are handled,
  `unregister` returns everything or an error, one user's cancelled future does
  not take an attribute down.
* *registration*: BlueZ calls back before it answers, and may refuse, restart or
  go away while tasks have already been started. Correct: BlueZ registers the
  whole application or nothing of it, register ends, fails only for a cause, and
  then leaves no task behind.
* *advertising*: BlueZ and the user may end an advertisement at the same time,
  and a path is used again. Correct: what BlueZ advertises is served, an
  advertisement that is served owns its path, either side can end it.
* *client*: objects come and go during a search. Correct: a search finds what was
  there throughout and nothing that never was, ends, and fails only for a cause;
  the end of notifications is reported after the last one.
* *tree*: taking an application apart and putting it together. Correct: keys
  are unique, the application that comes back is the one that was registered.

`PROJECT.json` lists the hazards line by line with the properties that cover
them, and those no property covers yet.

## 2. Modules

| module | what it is | run by | proved in |
|---|---|---|---|
| `OneShot` | abstract one-time channel | - | - |
| `OneTime` | `one_time.rs`, lock by lock; refines `OneShot` | `MCOneTime` | `OneTimeProofs` |
| `AttValue` | an attribute value as a byte sequence (operators) | - | - |
| `AttBuffer` | `struct AttValue` with its buffer; shows that `AttValue`'s operators are what it computes | `MCAttBuffer` | `AttrWorkerProofs` |
| `NotifySession` | abstract protocol of notification sessions | - | - |
| `ChrcWorker` | the task of one characteristic; uses `AttValue`, refines `NotifySession` | `MCChrcWorker` | `ChrcWorkerProofs` |
| `AttrWorker` | the task of one service or descriptor with its properties; uses `AttValue` | `MCAttrWorker` | `AttrWorkerProofs` |
| `GattApp` | a registered application: attribute tasks, app task, user futures, `unregister` | `MCGattApp` | `GattAppProofs` |
| `AppKeys` | the keys of attributes (operators) | - | - |
| `AppTree` | the tree: builder, keys, rebuild; uses `AppKeys` | `MCAppTree` | `AppTreeProofs` |
| `Registration` | `register`, the app task after it, BlueZ and its restarts; uses `AppKeys` | `MCRegistration` | `RegistrationProofs` |
| `Advertising` | the advertisements of one path, their tasks and their users | `MCAdvertising` | `AdvertisingProofs` |
| `Client` | the searches of the client side, BlueZ's objects, the notify socket | `MCClient` | `ClientProofs` |

The layers meet as follows. `GattApp` uses a request that carries the name of
the future waiting for it where the code passes a `OneSender`; what it assumes
of the channel (an answer reaches a receiver that is still there, a request
dropped unanswered may leave its receiver hanging) is what `OneTime` shows.
`ChrcWorker` and `AttrWorker` are the inside of `GattApp`'s attribute tasks. `AppTree`
covers what happens before `register` and after the last join of `unregister`,
`Registration` what happens in `register` up to the task it leaves behind, and
`GattApp` what happens in between. `Registration` keeps of the attribute tasks only
what `register` sees of them. `Advertising` and `Client` share with the rest only
the connection.

### OneTime

One step per atomic operation of the two halves. `lock` is the async mutex,
`waker` the receiver's entry in the condvar, `tx`/`rx` the program counters.
`WeakCount` is `Arc::weak_count`. `RecvCount` models `recv`'s test of the count
and `RecvPark` the first poll of `wait`, with the guard moved into the future
in between, so the lock is held across both (`one_time.rs:50-59`).
`DropNotify` and `DropWeak` are separate: `Drop::drop` runs before the fields
are dropped. `RecvCancel` is the drop of the future at any suspension point.
The spin's backoff is left out: it only delays.

### AttBuffer and AttValue

`buf` is indexed from 0 like the array, `val` is a history variable: the value
that the operators of `AttValue` give for the same sequence of operations. A
panic leaves the value as it is and ends the behaviour. Slices are enumerated
to one byte beyond the buffer, so that every range check is met from both sides.

### ChrcWorker

State: `ChrcData` (`value`, `handle`, `notify`, `write_fd`), the message and call
queues, both socket pairs with BlueZ's ends (`nPeer`, `nBuf`, `wPeer`, `wBuf`),
and where the task is: in `select`, suspended in `notify`, or about to send a
reply. A handler with an `.await` in it is split there and nowhere else:
`Msg*`, `NotifyCallback`, `SocketWrite` and `Call*` run up to the suspension,
`Notify*` and `SendReply` go on. `cur` is what is left on the stack (the call to
answer), `outVal` the value to notify, computed before the suspension
(`chrc.rs:248`). `out` is what the last step put out: it is read only by
properties and by the refinement mapping. A look at the write socket that brought
nothing is two steps, the `recv` and the poll of `is_hung_up` (`chrc.rs:187-214`), with
the task in "read" between them: BlueZ may write and close there. `unread` is the
history of what BlueZ wrote and `handle_write` was not called with. `SessionProps` is
what `get_inner` tells of the session; it goes to BlueZ with Get and GetAll and to
the application with ObjMgr. The errors of the OS other than a hang-up end the
task (`RecvFails`, `AcquireFails`).

The two-staged `select` polls messages before the callback, the callback before
the write socket and that before calls. As each source may become ready between
two polls, a step may take any ready source; the one promise used is that the
message channel is looked at first in each round (fairness below).
External, from how the code uses them: BlueZ (`Bluez*` actions), the D-Bus
connection (`LoseConn`), the user's callbacks (any value, notify or not).
Panics of the code (`GetHandle` without a handle, `WriteValue` beyond the value,
a call of an interface the worker does not have) end the task as `panicked`.

### AttrWorker

`kind` says whether the task is a service's or a descriptor's; the two loops
differ only in the messages and calls they know. `LookAtCalls` and the `Call*`
actions are separate because `select` looks at one future after the other: what
comes into the message channel in between waits for one call. `SendIncludes` is
the message `register` sends after it has started the worker (`mod.rs:299-312`),
`told` that it has been sent; only then does `register` call RegisterApplication,
and only then is there anybody who sends something else (`MayAsk`). The trait
`Properties` is `Listed`, `PropVal`, `AllProps` and the three calls; `SetIface` keeps
the interface each `set_inner` compares with. `own` is the `self.handle` the worker
was built with, `handle` the one BlueZ reads and sets.

### GattApp

One worker per element of `Attr`, with `Kind` fixed per attribute. `q[a]` is the
attribute's channel, `st[a]` the task's state, `obj[a]` the sub-future of
`handle_obj_mgr` for `a`, `leave[w]` that of `unregister` for worker `w`. Messages
are abstracted to what happens to their sender: "tell" (Update, Notify), "ask"
(Get, Notifying, ...), "handle" (GetHandle), "obj" (ObjMgr), "unreg". The
difference between the kinds of worker that matters here is what they do when
the receiver of an answer is gone: a characteristic ignores it (`.ok()`), a
service or descriptor returns an error (`?`). `ObjMgrStart` and `UnservedCall` are the
two ways through `handle_app`: a GetManagedObjects, and a call without an interface
or of an interface it has no arm for, which panics the app task (`mod.rs:57`, `:61`).
Introspect changes nothing and is left out.

Assumed of `async-channel`: messages in a channel stay there while a `Sender`
lives, even when the receiver is gone; `send` on a closed channel fails, on a full
one waits. `DropHandle` and `Unregister` take the `AppWorker` by value and so
require that no future borrows it (`NoUsers`). The D-Bus connection works;
`MayFail` names workers whose I/O may fail.

### AppTree

`newServ` and `newChrc` are the values the caller is building. `Register` takes
the tree apart; `Unregister` chooses an order the binary heap's array can have
(`heap.into_iter()` is not sorted), and `PutServ`, `PutChrc`, `PutDesc` are the arms of
the loop that follows. UUIDs are numbers, and `UUID(0)`, which the builder takes like
any other, is 0. `AppKeys` has the keys `register` files the workers under
(`mod.rs:275-298`): places in the tree to triples, with 0 for what a key leaves out,
and `StartsBefore`, the order in which it does. `Workers` is what is in the `AppWorker` at
the end: of two attributes with one key the later, and under the key of three zeros
the application's own worker.

### Registration

`stage` is where `register` is: "lookup" (the owner of org.bluez, `mod.rs:225-241`),
"start" (the tasks and their keys), "include" (the paths of included services),
"pending" (RegisterApplication sent; the loop of `mod.rs:317-340`), then "up": the
same actions `TakeCall`, `Panics` and `Reply` go on serving in the spawned task. `Start` is
one step per attribute (each has its `insert_call_path().await`), `Include` one per
service, `Ask` the call. `res` is the reply of BlueZ, looked at before the calls. `job` is one
GetManagedObjects: whom `handle_obj_mgr` still waits for and what came. `Allowed` is
the filter (`mod.rs:373`); a refused call gets an error reply and nothing else
(`RefusedCall`). A call that is let through is a GetManagedObjects (`TakeCall`) or one
that `handle_app` has no arm for, which panics `register` or the app task
(`Panics`; `AppPlace` in `failed` says so). `Cancel` drops the future of `register`.
External, from how the code uses them: BlueZ (`Bluez*`), which fetches the objects
once it is told of the application and then accepts or refuses it, may stop, and
come back under another bus name; callers without a name BlueZ has; the
connection; `TaskFails`, an attribute task that ends of itself.

### Advertising

Two advertisements take turns at one path. `st` is the place in the code: `register`
up to the reply ("reg", `advertising.rs:93-136`), the task's `select` ("run"), the wait
for the reply to UnregisterAdvertisement ("unreg"), behind the loop ("leave"). In
"reg" and "run" calls are handled by the same `HandleCall`: properties are
answered, a Release ends the loop, a call without an interface hits an `unwrap`. `user`
and `probe` are what the owner of the `AdWorker` does; `KnownEnded` is the only
way a second advertisement may follow at the path, and rests on what the code
tells. `released` and `strayed` are histories: they name the causes the properties
allow for. External: BlueZ, and other D-Bus clients, which may send the same
calls (`advertising.rs` does not look at the sender).

### Client

Objects are known by their paths, with a parent, a kind and a UUID (an index or an address for
adapters and devices); `present` is what BlueZ has now. A search is `Introspected`, one reply
whose XML `NamesIn` parses as `get_children` does (`Documents` has the children in every order,
with an interface that holds another element anywhere among them; `After` skips an element by
counting starts and ends, as `ignore_xml_tree` does; `get_devices` leaves out names without an
address), and then `LookedUp` for one child after the other in any order: one that is gone or
has no UUID is left out (`Missing`; `get_includes` fails for it), the rest is collected
(`Found`), and a `get_service` of one UUID stops at the one that fits. `get_adapter` and
`get_device` make a path of what they look for and ask that (`AddressTold`): of an adapter any
address will do, a device's must be the one asked for, and `Tells` are the addresses BlueZ may
tell, another one and none at all (`NoId`: a Variant of another type, or text that is no MAC)
included. `Garbled` are the services whose Includes come as something else than paths. `steady`
and `seen` are histories: the targets that were there all through the operation, and those that
were there at some time of it. The notify socket is a queue of datagrams; `recv_notification`
reads one (`Notified`), or reads nothing (`ReadNothing`) and then asks whether BlueZ has hung up
(`NotConnected`, or `NotifiedEmpty` with an empty value): two steps (`client.rs:289-290`), and
BlueZ may send and close between them. "Nothing read" is what an empty value looks like, too.
`reading` is the place between the two, `unread` the history of what BlueZ sent and nobody was
returned. The poll(2) in `is_hung_up` is taken not to fail.

## 3. Runs

| run | bounds | states | what it shows |
|---|---|---|---|
| `onetime` | 2 values | 103 | `IInv`, `NoMissedStore`; the spin of `send` ends and a dropped sender is noticed unless its notification came too early (`HalvesEnd`); refinement of `OneShot` with its liveness |
| `att_buffer` | 2 bytes, buffer of 4 | 258 | no unwritten cell and no stale byte is visible |
| `chrc_session` | queues of 1, sockets of 2, values of length 0 and 1, offsets that fit and that do not, callers filtered | 2,910,176 | `OutIsTrue`: grants are real, and what the application and BlueZ are told of a session, by message or as a property, errs only by a hang-up nobody has looked at (and by `chrc.rs:513`, section 4); refinement of `NotifySession` |
| `chrc_live` | queues and sockets of 1, values of length 0 and 1 | 298,584 | unless BlueZ leaves its notify socket full for good, `Unregister` ends the worker and calls are answered; no write is given up with the write socket, unless an empty datagram comes next |
| `attr_worker` | service (with and without includes) and descriptor, queues of 1, handles 0 and 1, values of length 0 and 1, one call for every way through the code | 488,584 | a message waits for one call at most; GetManagedObjects knows all includes; strangers change nothing; both queues are worked off |
| `app` | characteristic, and descriptor without a handle and with I/O errors; 1 user with any number of futures one after the other, channels of 2, 2 calls | 306,728 | accepted messages are handled; a characteristic survives cancelled futures and answers; `unregister` and GetManagedObjects end or were overtaken (`RequestsEnd`); success means complete; the app task panics only on a call it has no arm for, or without an `AppWorker` |
| `app_unregister` | 1 attribute, channel of 2 | - | **fails**: `unregister` can wait forever |
| `app_tree` | the UUID 0 and another for each kind, 7 attributes | 1,051,737 | siblings stay unique (`TreeInv`); the `AppWorker` reaches every attribute but those whose own UUID is 0 (`AppWorkerReaches`) |
| `app_tree_back` | 2 UUIDs of each kind, 5 attributes | - | **fails**: the application that comes back is not the one registered |
| `register` | 4 small applications (one usual, two with UUIDs of 0, one that includes what it has not), 2 bus names, 1 failing task, 1 waiting call | 334,428 | BlueZ and the application agree (`Agreed`), on the whole of it (`RegisteredWhole`); `register` fails only for a cause, ends, and leaves no task when it failed |
| `advert` | 2 advertisements at one path, 2 waiting calls | 480,718 | the path is held while served (`IInv`); what BlueZ advertises is served, strays and panics apart (`NoOrphan`); `release` loses the advertisement only for a cause; either side can end it (`ReleasesEnd`) |
| `client` | 10 objects in 6 levels, 2 addresses for two of them, one garbled Includes, sockets of 2 | 317,760 | what was found and what is still asked for covers what stays (`IInv`); a search is exact for what stayed, fails for a cause, and ends; no notification before the end is lost, unless an empty value comes next |

Why the bounds are enough. A channel of the code has room for 8 messages; what
matters is that it can be empty, hold something in front of a message, and be
full, and with capacities of 1 or 2 each of these is reached. Two values tell
an old from a new one; a cancelled future leaves its request in the channel, so
one user is enough to have an abandoned request in front of a live one; two calls let a
GetManagedObjects be in progress with another, or with a call nobody serves, waiting.
A heap of five keys has orders in which a child comes before its parent; seven
attributes with the UUID 0 among them share a key on every level, and beside others
that do not. Two advertisements are what it takes for one to find what the other left
behind at the path, and two waiting calls put a stray one before the one that
matters. Two bus names are one restart of BlueZ; the applications of `register` cover
an include in each direction, an include that is missing, and a UUID of 0 on each
level. The objects of `client` have every kind, a sibling on every level where
order matters, a kind that is no child, an id BlueZ does not give, an adapter and a
device whose address may be told wrongly. The safety properties
are also proved, for all values of these constants.

Deadlock is checked in `client`, where there is always something to do; every other
system ends (a worker that has returned, a channel with both halves gone), and
its cfg says so.

### Fairness

* `OneTime!Spec`: weak fairness of each half's own steps once it is inside `send`,
  `Drop` or a poll: executor threads keep running. Nothing makes a caller call
  `send`, or keep its receiver.
* `ChrcWorker!Spec`: weak fairness of the task (its waker is registered with every
  source), strong fairness of taking a message: every poll of the task asks the
  message channel first, so a message that is there when the loop comes round is
  taken, whatever else is ready. `UnregisterEnds` and `CallsAnswered` presume of
  BlueZ only that its notify socket does not stay full forever (`BluezReads`).
  No fairness between the other sources: `CallsAnswered` holds only once input
  stops, because a callback that is always ready comes before calls forever.
* `AttrWorker!Spec`: weak fairness of the task, as above. The order of the two looks
  makes fairness between messages and calls unnecessary: `MessageNotStarved` is a
  safety property. `Settles` holds once input stops.
* `GattApp!Spec`: weak fairness of each task, of a future in `send`, and of
  `unregister` (its caller keeps polling it). Nothing makes a lost request be
  noticed (section 4), nor a user give up. `QuietSpec` stops new work in the
  end, for `RequestsEnd` and `ChrcAnswers`.
* `Registration!Spec`: weak fairness of `register`, of the serving loop, of the attribute
  tasks together (each holds at most one request at a time, so one that waits keeps
  the group enabled until all are done), and of BlueZ going on with what it was asked.
  Nothing makes BlueZ start or stop, strangers call, or a task fail.
* `Advertising!Spec`: weak fairness of each task and of the futures of `register` and
  `release`, with calls on their own because each poll looks at them first; BlueZ
  answers its requests. `ReleaseEnds` holds once calls stop: calls come before messages.
* `Client!Spec`: weak fairness of the operation under way (its caller polls it and BlueZ
  answers) and of `recv`. Objects may come and go forever.

## 4. Disagreements with the documentation

Two have a run that fails; `PROJECT.json` lists them under `findings`:

1. `mod.rs:413` (`app_unregister`): `unregister` and GetManagedObjects race; an ObjMgr
   request behind an Unregister is never answered nor dropped, and both wait forever.
   (`unregister` also makes no UnregisterApplication call.)
2. `mod.rs:425` (`app_tree_back`): the last service, characteristic and descriptor are
   never put back, and the order of the heap decides below which parent the others land.

The rest was met while modelling and has no run. In the models these are the
exceptions the properties name (`MissedDrop`, `Overtaken`, `strayed`, `Hung`, ...) or
follow what the code does.

Server and channels:

* `one_time.rs:33`: `Drop` notifies before the `Weak` is dropped and without the lock, so
  a receiver can sleep past it and never see the `RecvError` of line 55 (`MissedDrop`).
* `service.rs:147`: "If this is not set then one will be requested from Bluez"
  (`service.rs:61`), but `get_serv_handle` (`mod.rs:510`) answers with what the user set:
  never with BlueZ's handle, and with a panic of the worker when nothing was set.
* `mod.rs:349`: "will continue to work even if this handle to it is dropped"
  (`mod.rs:385`): the app task unwraps the error of its closed channel.
* `chrc.rs:159`: `char_notify_acquired` is documented as "and it hasn't been closed yet"
  (`mod.rs:552`), but learns of a hang-up only at the next send or AcquireNotify.
* `chrc.rs:513`: the property NotifyAcquired is true in every session, a StartNotify
  session too; the message of that name (`chrc.rs:159`) is answered with what
  `char_notify_acquired` promises, "through a file descriptor" (`mod.rs:549`).
* `mod.rs:57`, `mod.rs:61`: a call at the application's path without an interface, or of
  an interface `handle_app` does not know, panics `register` or the app task. With the
  filter off anybody may send it.
* `mod.rs:275-298`: a service, characteristic or descriptor with the UUID 0, which the builder
  takes, has the key of what is above it, and its worker is replaced in the `AppWorker`.
* `descriptor.rs:192`: `set_inner` compares with the interface of characteristics, so BlueZ
  can never set a descriptor's handle.
* `chrc.rs:461`: the descriptor given to `UnixFd::new` is closed by the `UnixDatagram` too.
* `mod.rs:225`: the owner of org.bluez is looked up once; with the filter a restarted
  BlueZ is refused for good, and the `AppWorker` is not told.
* The object paths of an application are never given back to the connection.
* `set_dbus_name` and `set_dest` call ReleaseName with a path and an interface the bus does
  not have, so a name that was set can hardly be changed.

Advertising:

* `advertising.rs:186`: a Release is obeyed whoever sends it, and one left in the queue by
  an advertisement that ended in error ends the next one at that path (`strayed`).
* A Release of BlueZ that crosses our UnregisterAdvertisement makes that fail: the task
  ends in error, `release` loses the advertisement, the path stays claimed.
* A dropped `AdWorker`, or a dropped future of `register`, leaves BlueZ advertising.

Client:

* `get_powered` (`lib.rs:542-551`) and `flags` (`client.rs:268-278`) read a Variant as its
  content, and so always fail.
* `introspect.rs:158-160`: introspecting an object that has vanished panics.
* `introspect.rs:143`: an XML error inside the loops of `get_children` is documented as an
  error, and makes them spin.
* `client.rs:290`: an empty notification is taken for the end of notifications.
* Flags unknown to the library hit an `unreachable!()`; the write socket cuts a value at
  the mtu without saying so.

## 5. Proofs

All are from the named ASSUMEs of the modules. Nearly all of these only type the constants; a
UUID may be 0 everywhere, and BlueZ may tell any address (`TellsType`) and garble any Includes
(`GarbledType`). Three say more: `AppsType` of `Registration`, that the applications given to
`register` have no equal siblings, which is what `AppTree` shows of the builder; `RootType` of
`Client`, that BlueZ has finitely many objects; `IdType` of `Client`, that nobody looks for the
mark of an object without a UUID.

* `OneTimeProofs`. `IInv` fixes, for each pair of stages of the two halves, who holds the mutex
  and where the value is; it is inductive. `NoFalseClosed`, that `recv` never reports a closed
  channel for a stored value, follows from it. `NoMissedStore` is proved inductive relative to
  `IInv`. The refinement maps each step to one of `OneShot` or a stutter.
* `ChrcWorkerProofs`. `IInv` needs, besides types, that a suspended handler kept
  the right call (`SuspendInv`), that pairs live exactly as long as the worker's
  end (`PairInv`), and that a reply under way still has what it grants
  (`GrantInv`): without the last, the reply could be sent after the session had
  been taken away. `FdServed` follows: an open notify descriptor is the one
  notified through. `OutIsTrue` is a step property turned state property through
  `out`, `NoWriteLost` is an action property that needs `ReadInv`, what may have happened to the
  socket since a `recv` that brought nothing, and
  `RefinesNotifySession` gives the simulation step by step.
* `AttrWorkerProofs`. `IInv` says where the message with the included paths is
  (`IncludesInv`: nothing precedes it in the channel) and that a worker about to take
  a call has no message it passed over before (`WaitInv`); `MessageNotStarved` and
  `IncludesKnown` follow. `OnlyAdmitted` needs no invariant: it goes through every
  action. The buffer of a value is in the same module: its inductive invariant says
  that each cell below the length holds the byte of the history sequence, and both
  properties of `AttBuffer` follow.
* `GattAppProofs`. `IInv` adds to the types the stages of `unregister` (`Stages`),
  that a queued request belongs to one waiting future (`AskedOnce`), and that
  behind an Unregister there are only ObjMgr requests (`UnregIsLast`), which is what
  makes `TellsApplied` inductive. `ChrcSurvives` and `AppNeedsCause` need that the
  loss of all senders is final (`GoneForGood`); a panic that is not for that loss comes
  from `UnservedCall`.
* `AdvertisingProofs`. `IInv` says, besides the types, that at most one advertisement
  is at work and that what its user knows fits its stage (`Stages`), that it holds its
  path (`PathHeld`), that it asks BlueZ once, is answered while it waits, and that a
  Release of BlueZ ends the advertisement there (`Requested`), and that BlueZ keeps what
  it accepted unless it sent a Release itself (`Kept`). All of it is needed to be
  inductive: whether a message at the path is obeyed depends on who holds the path.
  `NoOrphan` is inductive relative to `IInv`; `LossNeedsCause`, an action property,
  follows from `Kept`.
* `AppTreeProofs`. `TreeInv` is inductive: each step of the user and of the rebuild
  puts one child into a vector or takes one out, and lemmas on `Put` and `Remove` say
  that this leaves siblings different, on each of the three levels. The order in which
  `unregister` finds them does not matter: it puts a child back through the same `Put`.
  `AppWorkerReaches`: an attribute whose UUID is not 0 shares its key only with attributes
  below it, which are started before it (`SharersAreBelow`, from siblings being different);
  one whose UUID is 0 has the key of what is above it, which is started later
  (`ZeroIsReplaced`). As the later replaces the earlier, those with another UUID are left
  (`WorkersAreNonZero`).
* `RegistrationProofs`. `IInv` follows the parts of the system. `WorkersInv` says, while the
  tasks are started, which of them have been and that of two with one key the later is kept;
  that this ends in `Kept` needs that the order of starting is strict (`BeforeIsStrict`) and
  `KeptIsLast`. `TasksInv` says that a task in reach of `register` or of the app worker ends
  only of itself, `ChannelsInv` what its channel may hold, and that what a service includes has
  been, is or will be sent. `JobInv`, that what came of a GetManagedObjects is the whole of the
  tasks that have answered, needs it. `BluezInv` gives from these what BlueZ knows; it is stated
  with the filter and the bus name, because a BlueZ that came back is refused. `Agreed` and
  `RegisteredWhole` follow; `FailNeedsCause` goes through the actions, and `TasksInv` excludes a
  failure of `Include` and of `TakeCall` for any other reason; a panic of `Panics` shows in
  `failed`, which `Agreed` and `FailNeedsCause` allow for, and ends `register` or the app task
  wherever it was (`PanicIsOver`).
* `ClientProofs`. First what `get_children` reads: a document is a sequence, and the
  loop's reads are described through the place it has come to. `AfterIs` gives the
  end of an element from the counts, `DocumentShape` where each element of a document
  begins, and `NamesAreChildren` concludes, by the smallest place from which the loop would read
  something else, that it finds the children and nothing more, wherever the interface
  stands. Then `IInv`: an operation waits only in its second half (`OpInv`), `steady` and
  `seen` frame what is there (`HistoryInv`), what is found was there, and what stays is
  found or still asked for (`FoundInv`). `QueueInv` relates the notify socket to `unread`: they
  are the same, but between a `recv` of nothing and the look at the hang-up the socket is
  closed and read to its end, or the head of `unread` is an empty value already taken out.
  The three action properties follow from it, one case per step that ends a search.

Only model-checked: every liveness property (`HalvesEnd`, the fairness of
`OneShot`, `UnregisterEnds`, `CallsAnswered`, `Settles`, `RequestsEnd`, `ChrcAnswers`,
`RegisterEnds`, `NoTaskLeaks`, `ReleasesEnd`, `SearchEnds`), because the prover does not
handle fairness. Every safety property of a passing run is proved.

## 6. Not modelled, and the plan

Not modelled: the properties of a characteristic that do not tell of its sessions one by one
(they are constants and data), D-Bus names, Introspect and the text it returns, the object paths
of an application, single calls of adapters and devices that pass an answer on, the agreed mtu,
ownership of descriptors inside the process, wording of errors, Marshal and Unmarshal,
conversions of UUIDs and MACs. `interfaces.rs` is dead code.

What comes next:

1. The conversions of UUIDs, MAC addresses and paths (`gatt/mod.rs`, `lib.rs`) as operators
   against a reference definition.
2. `GattApp` with the channel of `OneTime` in place of its abstraction, for one
   attribute and one future.
