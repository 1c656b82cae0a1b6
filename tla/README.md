# A formal model of the Edge protocol translator examples

This directory holds TLA+ modules that model the concurrent core of the
repository's examples, TLC configurations that check them on small instances,
and TLAPS proofs of what should hold on every instance.

## The system

The repository contains protocol translators: programs that sit between devices
(BLE, MQTT, simulated sensors) and Edge Core. All C examples share one shape. A
library, the *pt-client*, runs an event loop on a thread of its own, keeps the
connection to Edge Core, and answers every request with a callback on that
thread. The program's own thread drives the device side. The two meet in
globals, mutexes, condition variables, semaphores and queued messages, and that
is where the examples are hard to get right and hard to test.

### Inventory

| Component | State | Operations | Interaction | What is hard |
|---|---|---|---|---|
| BLE device life cycle (`blept-example/pt_ble.c`, `devices.c`) | list of device contexts: flags REGISTERED and CONNECTED, `services_resolved`, retry timer and counter, time of the last connection | D-Bus signals and replies (object added/removed, Connected, ServicesResolved, Connect, RemoveDevice, ReadValue), timers, the 5 s poll, Unix signals | glib main loop; calls into the pt-client; receives idle sources from the pt-client's thread | replies that come after the context changed, timers on freed contexts, crossing registrations, a shutdown that must wait for the last context |
| BLE translator, Edge side (`blept-example/pt_edge.c`) | connection id, `unregistering_devices`, `global_keep_running`, start mutex and condition | callbacks of the pt-client | `g_idle_add` to the main loop; start/stop hand-over with `main` | order of queued messages, mutex kept across functions, lost wake-ups |
| Translations (`pt_ble_translations.c`, `pt_ble_supported_translations.c`, `devices.c`) | buffer of each characteristic, translation contexts per service | decode and encode characteristic values | called on read and on write from Edge | one value in four forms, reads that cross writes, signs |
| pt-example (`client_example.c`) | run flags, shutdown condition, signal semaphore, the device's resources | start, main loop, shutdown, temperature update, firmware update | main thread, event loop, signal handler | waits without predicates, pointers into buffers that the other thread replaces, a device that is rebuilt under an update |
| IPSO objects (`examples-common-2`) | min, max and current value of a sensor | update, reset | writer thread and reset callback | read-modify-write across two threads |
| mqttpt-example (`mqttpt_example.c`) | started semaphore, device list, connection | MQTT messages, requests with asynchronous answers, shutdown | mosquitto thread and event loop | unlocked list, start by first message |
| c-api-stress-tester | device lists with registered flags, two mutexes per connection | random actions of many threads, callbacks, shutdown | test threads and event loops | lock discipline, waiting for the last unregistration |
| kaas device application (`main.rs`) | pending requests, write channel, database | HTTP handlers, reader task, reconnection | async tasks, socket, database | requests that are never answered, database and Edge diverging |

Not modelled: the docopt-generated parsers, the JavaScript
walk-throughs, the web portal, shell simulators and build files. They keep no
state that a property could be about. `PROJECT.json` lists each with its reason.

What makes each component correct:

* BLE: no handler runs on a freed or missing context; a device that should be
  connected is always being connected; the flags say what Edge and BlueZ said;
  a shutdown unregisters everything and ends.
* Start and stop of a translator: the client is never used before it exists, no
  wake-up is lost, a stop request ends the process.
* Reconnection: delays within their range, a device is unregistered only after
  the back-off, a context is not kept for ever.
* GATT values: a write from Edge changes the light it is for; whatever crosses,
  the device, the buffers and Edge come to agree.
* Measured values: minimum and maximum enclose what was measured since the
  reset; Edge comes to have the current value; a campaign ends with a device.
* MQTT: the translator is started once, requests are answered once and as they
  were reported, a signal ends the process.
* Stress tester: an answer finds its device, a connection is shut down only when
  its devices are gone, the shutdown ends.
* kaas: an answer reaches the request it is for, handlers return, database and
  Edge agree when nothing failed, also after a crash.

`PROJECT.json` "hazards" lists where each of these can go wrong, with line.

## Modules

| Module | Models | Run by |
|---|---|---|
| `BlePt` | device contexts between BlueZ and Edge, both threads, shutdown | `MCBlePt` |
| `MCBlePt` | device sets as model values, their symmetry | |
| `BlePtProofs` | theorems about `BlePt` | |
| `BleReconnect` | reconnection of one device with the real time constants | itself |
| `BleReconnectProofs` | theorems about `BleReconnect` | |
| `PtStart` | hand-over of the client at start and stop of blept-example | itself |
| `PtStartProofs` | theorems about `PtStart` | |
| `PtExample` | threads, start and shutdown of pt-example | itself |
| `Drain` | abstract: what an orderly shutdown promises | implemented by `BlePt` and `StressTester` |
| `BleGatt` | polls of a characteristic and writes from Edge | itself |
| `BleGattProofs` | theorems about `BleGatt` | |
| `PtSensor` | the temperature device of pt-example: updates, resets, firmware campaigns | itself |
| `PtSensorProofs` | theorems about `PtSensor`, and about `PtExample` as an instance | |
| `MqttPt` | the MQTT translator, both threads | itself |
| `MqttPtProofs` | theorems about `MqttPt` | |
| `StressTester` | test threads, event loops and shutdown of the stress tester | `MCStressTester` |
| `MCStressTester` | which thread uses which translator | |
| `StressTesterProofs` | theorems about `StressTester` | |
| `KaasPt` | the Kubernetes device application, its database and Edge | `MCKaasPt` |
| `MCKaasPt` | names and types of the rows | |
| `KaasPtProofs` | theorems about `KaasPt` | |

### BlePt

State. The context list is one set of devices per field: `tracked` (on the
list), `registered`, `connected`, `resolved`, `timerId` (`retry_timer_source`
is set), and `retries`, `age` as functions. `timerSrc` is the glib side: the
timeout sources that hold a context's pointer. BlueZ is `present`, `link`,
`gatt` (the properties the proxies cache) and the outstanding calls `connects`,
`removes`, `reads`. The pt-client is `conn`, `ptReg`, `ptdev` (device objects),
`res` (those with resources), `edgeReg` (Edge's last answer), and the
outstanding requests `regs`, `unregs`. `idle` is the FIFO of `g_idle_add`.

Actions. One per handler, named as in the code. The main loop runs one handler
at a time, so a handler is atomic with respect to other main-loop handlers; the
pt-client's callbacks touch only `conn`, `running` and the queue. The handlers'
helpers (`ble_start_reconnection_timer_or_unregister_device`,
`pt_edge_del_device`, `edge_register_device`, ...) are operators under the names
of their functions, and each is part of the action that calls it.
`ble_connect_done` is three actions: error reply, success, and success with
`pt_device_create` failing; the creation may fail in `pt_ble_pt_ready` too, for any
of the devices of its loop. `Signal` is SIGTERM or SIGINT, whose handler takes
itself off the main loop (`handled`): the second signal of a kind kills the process
(`SignalAgain`).

Abstractions. Addresses, UUIDs and values are left out; a device is a persistent
GATT server that passes discovery. The wall clock is the class of the time since
the last connection (recent, overdue, expired); the delays themselves are in
`BleReconnect`. One outstanding read stands for the reads of all
characteristics. The devices mutex is not modelled: it is held for the whole of
each handler that touches the list.

External assumptions. BlueZ answers each call, possibly with an error, and fails
outstanding reads of a device when its link or object goes; after a RemoveDevice
that failed they may be failed or still answered. The pt-client
answers each request it accepts. Idle sources are dispatched in order. On a lost
connection the pt-client may keep or drop its device objects; both are tried.

### BleReconnect

One context with the real constants (4 s, factor 2, 300 s, one day, 10000
retries). The link, the calls and the timer are independent, as in the code: BlueZ
signals a link of its own accord, which may come and go before Connect is
answered; a call may then fail or succeed while a timer runs, which
`ble_start_reconnection_timer_or_unregister_device` leaves alone
(`timer_already_running`), and a timer may go off with a call outstanding.
`timer` is the delay it was started with and `rest` what is left of it; a lost link
or a reply comes after some time, or just when the timer is due. `since` is the
time the code measures, from the last successful reply of Connect. `away` starts
later, when after such a reply the first link is lost or call fails (`reached` says
that this has not happened yet); keeping both is what shows where they part. Times beyond a day are
capped: the code compares with nothing larger. The properties compare what the
loop of `ble_back_off_time_in_ms` computes with the sequence that the macros
describe: `Delay[k]`, the first delay grown k times, and `Waited[k]`, how long the
first k delays last together. `MacroAssumption` is what the macros have to satisfy
for that; TLC evaluates it for the real ones.

### PtStart

The pt-client's thread locks `pt_api_start_wait_mutex`, creates and starts the
client, and keeps the mutex until a callback signals and unlocks; the main
thread locks it when `ble_start` has returned, waits if there is no client,
shuts the client down and joins. Callbacks of later connections and of failed
device registrations unlock the same mutex again; the model lets the unlock free
it whoever holds it, as a default pthread mutex does.

### PtExample

Both threads with `shutdown_and_cleanup` in steps, because it may run on either.
The semaphore, the flags and the condition variable are as in the code; the
unregistration callback is two steps, the signal and `pt_client_shutdown`. What
the main loop writes to the device is in `PtSensor`.

### Drain

Each owner is running, draining, aborted or stopped, and holds things. It takes
things on only while it runs, gives them back in any order, and stops with empty
hands unless it was aborted. `BlePt` implements it with one owner, the process,
that holds contexts (`Phase` and `D` are the refinement mapping); `StressTester`
with one owner per test thread, which holds the devices of its list.

### BleGatt

One readable and writable Automation IO characteristic: a byte with two bits per
light. The device holds it (`char`); the program keeps a buffer, the resource of
the service object, a light control per field, and what Edge was last sent;
`fresh` remembers whether the buffer was last set to what the device holds. The
poll starts reads that are served at any time between call and reply; a write from Edge runs on the
pt-client's thread, which holds the devices mutex during the synchronous
WriteValue, so no handler of the main loop runs meanwhile. The encode and decode
helpers of the translations are operators of the same names. External: BlueZ
answers reads in their order, a write's answer may be lost after the device
has obeyed, an error has a code other than 0; the pt-client may or
may not keep the value that Edge wrote to a light by itself, and both are tried.

### PtSensor

The main thread reads the temperature and updates the value, the minimum and
the maximum; the event loop resets the extremes or unregisters, rebuilds and
registers the device for a firmware campaign. Only the pt-client locks, so each
call of it is one step. It hands out pointers into its own buffers; if the other
thread has replaced a buffer before it is read, the model lets the read return
any value. Temperatures are small numbers, byte order is a pair of inverse
conversions (and the mutant that drops one is seen).

### MqttPt

The main thread runs `mosquitto_loop` and one message handler at a time; the
pt-client's thread runs callbacks. A message is one step up to its last call of
the pt-client or its last look at the device list, and one step for what
follows, since the other thread can act in between. What is published of a
request is recorded as the main thread's report and the other thread's answer.
Resources and values are left out. A message that lacks something is dropped
(`message_dropped`) or, where the code dereferences what is not there (a method or
a value that is not a string, a parameter of a request), ends in the state
`crashed`. A report is lost where the memory to build it is missing.

### StressTester

Each test thread loops over random actions on its own device list, then
unregisters everything and waits; each translator has an event loop with a FIFO
of outstanding requests. What runs under one device-list mutex is one step. The
shutdown may come from a signal, from the timer, from both, or on the event loop
itself, when Edge refuses the translator (`cleaning`) or its registration cannot be
sent (`connecting`: nothing tells the test threads to end then, and the connection
counts as made after the shutdown). External: answers come in the order of
the requests.

### KaasPt

A step runs from one `await` to the next. HTTP handlers change the database and
then ask Edge behind one mutex that is held until the answer; the reader task
routes answers and queues writes from the cloud in a bounded channel; the
consumer stores them. The database survives a crash, everything else starts
anew, and Edge drops the devices of a lost connection. A connection that is
refused, or breaks before the translator's own request is written, is tried again,
and the id of that request stays pending. A client may vanish at
any await, which drops its handler there with what it holds. `mixed` records the
names for which activities overlapped or a request failed: for these `Agreement`
claims nothing. `Recovered` is the set of rows whose name is the deviceId, or the deviceId with
spaces for underscores: only these are found again by a write from the cloud.

## Runs

| Run | Instance | Shows |
|---|---|---|
| `ble_one` | one device, links kept from before, creation may fail, two faults | `TypeOK`, `TimerOwned`, `NotForgotten`, `FlagFollowsEdge` |
| `ble_two` | two devices (symmetric), creation may fail, two faults | `Drains` |
| `ble_live` | one device, fairness, two faults | `ShutdownEnds`, `RegisteredPolled` |
| `reconnect` | real constants, links of 1 s, 300 s and a day, two lost links, two outstanding Connect calls, replies after 25 s or when a timer is due | `DelayInRange`, `StaysRegistered`, `GivenUp` |
| `start` | two faults of each kind: failing start, lost connection, user, spurious wake-up | `ClientReady`, `NoLostWakeup`, `StopPursued`, `ShutdownCompletes` |
| `example` | two signals, two faults of each kind: failing start, refusal, unsent request, lost connection, spurious wake-up | `StoppedBeforeJoin`, `GracefulStop`, `JoinReturns` |
| `gatt` | two lights, two writes, two reads, one change at the device, two faults, fairness | `OnlyItsField`, `Settles` |
| `sensor` | temperatures 0 and 1, two campaigns, a change, a reset and a fault, fairness | `Enclosed`, `CampaignPursued`, `ValueCatchesUp`, `CampaignEnds` |
| `mqtt` | one device, a request asked twice, two signals, two faults, fairness | `ThreadJoined`, `PublishedAgrees`, `ShutdownEnds`, `RequestsAnswered` |
| `stress` | two test threads on one translator, two device ids, at most one device each, one fault, fairness | `AnswersFindDevices`, `ShutDownDrained`, `Drains`, `ShutdownEnds` |
| `kaas` | two clients, two rows that share a name, channel of one, two requests, two writes, one fault, fairness | `AnswerComes`, `Agreement`, `HandlersReturn`, `StartEnds` |

The runs `mqtt`, `stress`, `kaas`, `sensor`, `gatt` and `ble_one` also check their module's
`TypeOK`.

`Drains` says all that the theorems `DrainedAtExit` and `NoContextsAfterShutdown`
say one by one. Two invariants are the safety side of a liveness property of the same
run: they say, state by state, that what is waited for is still to come, and so
fail at the step that loses it, with no fairness assumed. `StopPursued` (`start`)
says who may hold the mutex and why a thread ends; `CampaignPursued` (`sensor`)
that a device that was unregistered is being rebuilt, by one campaign.
`StoppedBeforeJoin` (`example`) follows the
main thread from its request to the join: at each place the client is told to stop,
or its callback is still to come and will tell it.

One run is expected to fail. `gatt_others` checks `OthersKept`, what a comment
in `ble_services_encode_2bit_bitfield_value` says: "Change only the 2 bits we're
working with". After a successful write to one light `device_write_characteristic`
stores the switch value that came from Edge, not the byte it sent, in the
buffer, from which the next write takes the other lights' bits. `OnlyItsField` is
what holds: it asks that a poll or a write to the service object set the buffer last.

The liveness properties name what they leave out. In `PtStart` and `PtExample`
`faults` records what has happened, and a property excepts the kinds of fault
that defeat it: a failed start and a wake-up without a signal for
`ShutdownCompletes`, a callback that waits on the event loop for
`GracefulStop` and `JoinReturns`, and a second signal (the semaphore is then 2,
and the main loop looks for 1) for `GracefulStop`. In `BlePt` constants do it:
`ble_live` sets `CreateMayFail` and `LinksKept` to FALSE. With the first TRUE a
shutdown can hang: when `devices_create_pt_device` fails for the last context,
`ble_connect_done` deletes it without `pt_edge_del_device` and nobody queues the
request to quit. With the second TRUE a device that was linked before it was
discovered is registered and never polled, because the CONNECTED flag follows
changes of the property only.
In the other modules the exceptions are written in the properties themselves:
`ShutdownEnds` of `MqttPt` starts in the mosquitto loop and counts a crash by a
missing parameter as an end; that of `StressTester` leaves out a device that
could not be unregistered, a mutex left locked, and a shutdown before the
connection exists; `CampaignEnds` leaves out a refusal by Edge; `HandlersReturn`
of `KaasPt` leaves out a task that waits when the reader has ended, `StartEnds` a
lost connection and a channel that is full before it has a consumer.

### Bounds

* `MaxFaults` bounds what the environment does to the program (lost links and
  connections, removed objects and adapters, signals, failing calls). Two
  faults reach each pair, such as a lost connection during a shutdown, a second
  signal, or a link lost while the answer to an earlier one is queued. In
  `PtStart` and `PtExample` it bounds each kind of fault separately.
* `MaxCalls = 1` (`BlePt`) outstanding call of a kind per device; Connect calls that
  overlap are in `BleReconnect`. A second registration of the
  same device is dropped by the bound, which the pt-client itself also does.
* `MaxIdle` bounds the queue for callbacks only; handlers may exceed it. Two
  messages suffice for a registration and the unregistration that crosses it.
* `ExpireRetries = MaxRetries = 2` reaches the back-off limit and the cap on the
  counter. `MaxAge` limits the classes of time; in `ble_two` and `ble_live`
  it is 0, because removal by age is covered by `ble_one`.
* The two-device run uses symmetry for safety properties only.
* `MaxWrites`, `MaxReads`, `MaxChanges` (`BleGatt`): two writes and two reads
  reach a read that was served before a write and returns after it, for either
  light. `Switch` has a value that is neither 0 nor 1, `Raw` one that sets both
  fields, `Held` what the device may hold before the first poll.
* `MaxAsked = 2` (`MqttPt`) repeats a request while the first is unanswered.
* `MinDevices = 0`, `MaxDevices = 1` (`StressTester`) put a list at both limits;
  two ids let an answer be about a device that the thread has replaced.
* `Capacity = 1` (`KaasPt`) stands for the channel's 32: two writes fill it.
* `MaxLosses = 2` links lost one after the other suffice to see that a new
  connection resets what the first loss counted. With `MaxCalls = 2`
  (`BleReconnect`) a timer that goes off overlaps the call that was open when it was
  started; D-Bus gives up a call after 25 s.

### Fairness

`BlePt`: glib dispatches ready sources and timers, D-Bus answers each call (its
own timeout makes an error), the pt-client answers each request. New devices,
faults and Edge's own events have no fairness. The answer to an unregistration
has strong fairness because the bound `MaxIdle` can disable it again and again.
`PtStart`: both threads run, the pt-client retries until Edge Core is there and
the registration is answered. `PtExample`: both threads run and each request is
answered; Edge Core need not be there. `BleReconnect`: timers go off and each
Connect is answered; the device need not be there.

`BleGatt`: the poll's timer, D-Bus and the callbacks; nobody owes a write.
`PtSensor`: both threads go on and registrations are answered. `MqttPt`: both
threads run (`mosquitto_loop` returns after a second) and accepted requests are
answered. `StressTester`: every thread runs and every request is answered; Edge
need not be there. `KaasPt`: tasks run when they can and a connected Edge
answers; the mutex has strong fairness, because tokio's is first come, first
served.

CHECK_DEADLOCK is off in all configurations: the programs end.

## Proofs

All theorems hold for any values of the constants that the named ASSUMEs of the
modules allow (sets, ranges and, in `KaasPt`, a finite and not empty set of rows,
since two rows of one name are counted; clients are not called "main" or
"none"; in `BleReconnect`, `MacroAssumption`), and are about the same `Spec` the runs
check. Each of the modules
`BlePt`, `BleGatt`, `PtSensor`, `MqttPt`, `StressTester` and `KaasPt` has a
`TypeCorrect`: one step per action, the helpers' types as lemmas.

### BlePt

* `TimersOwned`: `TimerOwned` is inductive by itself: every handler that frees a
  context stops the timer that `retry_timer_source` names, and a handler sets a
  timer only on a context that is listed and has none.
* `DrainedAtExit`: needs `QuitWhenDrained`, that a queued request to quit means a
  shutdown with no context left (unless the loop was told to stop at once), and
  `NoNewContexts` inside it: without the guard in `ble_new_device` a context
  could appear between the request and its dispatch.
* `NoContextsAfterShutdown`: an action property, by cases on the handlers.
* `OrderlyShutdown`: `BlePt` implements `Drain`, by a refinement mapping. The
  phase is read off the state of the loop and two flags, `running` and `abrupt`, and `PhaseInv` says
  which combinations occur; a step either leaves the flags alone or moves them
  one way (`FlagMoves`), and then the two theorems above give the rest.
* `FlagsFollowEdge`: needs `RegistrationInOrder`: a registration waiting in the
  queue is Edge's last answer, or an unregistration waits *behind* it. The FIFO
  order of idle sources is what makes this inductive.
* `NeverForgotten`: with `TimerOwned`, because a timer that is not owned by the
  context would not count; each handler that ends a call or a timer starts the
  next or the removal.
* `ShutdownGoesOn`: the safety part of `ShutdownEnds`. `ShutdownPursued` says that
  while the loop is still to run, a shutdown never waits for nothing: its request
  is in the idle queue, or every context left has a RemoveDevice call or an
  unregistration to be answered, or the request to quit is queued. The exception
  is a failing `pt_device_create`, after which the last context goes without the
  test for the last. It is inductive with `TypeOK` and "only a translator that stops
  unregisters its devices".
* `LinksAreFlagged`: the safety part of `RegisteredPolled`. `LinkFlagged` says that, with
  `LinksKept` FALSE, every linked device on the list has the CONNECTED flag that the
  poll looks at. A new context has no flag, so its device must have no link; that is
  because a link goes with BlueZ's object of the device (`LinkInv`).

### BleReconnect

* `DelaysInRange`: the delay of a timer is `Sleep` of its retry (`TimerSleeps`), and
  every `Sleep` is a `Delay` with nothing but delays within the maximum before it
  (`SleepIsDelay`); the range follows from `MacroAssumption`.
* `StaysLong`: `AwayLong` says that, when the running timer goes off, the device will
  have been away for the delays of all the retries that are counted. A link
  that is lost and a call that fails while it runs count no retry, so neither
  can bring the next delay earlier. When the code gives up, the delay of the current
  retry is beyond the maximum, so every delay within it has been waited for. That
  the code compares the time since the last *connection*, which may be much longer,
  does not matter: it compares the delay as well, and that decides
  (`WaitedInTime`, `BeyondAll`).
* `AlwaysPursued`: the safety part of `GivenUp`: a context on the list has a link, a
  Connect call or a timer (`Pursued`). It may have two or all of them, after a link
  that was lost before its Connect call was answered, and none of them goes
  without leaving another: a reply that fails, and a lost link, start a timer or
  find one running.

These need facts about `Delay`, `Waited` and `Sleep` for every index. The library's
induction rules take an operator as a parameter, so `Least`, `Induction` and
`Iteration` state what is needed about *sets* of numbers and *functions*: a set of
numbers has a least element, because < on the naturals is well-founded (`WFMin`),
and there is a function on 0..n that applies a given step at each index, so that
the recursive definitions have their equations.

### PtStart and PtExample

* `ClientIsReady` and `WakeupsKept` (`PtStart`): the first excepts a
  `pthread_cond_wait` that returned without a signal and rests on
  `ClientCreated`, the second excepts nothing and rests on `StartOwned`, who
  holds the mutex while there is no client.
* `ShutdownGoesOn` (`PtStart`): the safety part of `ShutdownCompletes`. `StopPursued` is
  inductive with `StartOwned`, `ClientCreated`, `NoLostWakeup` and `HandedOver`:
  once the main thread has had the mutex the pt-client's thread does not hold it
  again, and the client that the main thread stops exists.
* `StopsBeforeJoin` (`PtExample`): again except after a spurious wake-up. The property
  is inductive with the types of the places and counts; `PtSensorProofs` proves it
  of an instance of `PtExample`, over variables of its own.

### PtSensor

* `ExtremesEnclose`: `Enclosed` speaks of finished updates only. `Progress` says,
  for each place where the update can be interrupted, which extreme already
  encloses the value; `Undisturbed` says that a device under an update that is
  still trusted exists with all its resources.
* `EdgeKnowsTheDevice`: what Edge has registered is the device that exists, complete
  and of that version. `CampaignsGoOn`: the safety part of `CampaignEnds`. `Whole`
  says that a device which Edge knows or is asked to know is complete and not being
  rebuilt, and that one being rebuilt has what the steps before have built.

### BleGatt

* `LightSwitchesAlone`: an action property. `ByteEncoded` carries it: from the
  encoding to the WriteValue the byte under way stays the encoding of the light
  into the buffer, because whatever sets the buffer needs the devices mutex. That
  the encoding changes two bits only is arithmetic about four weights, in lemmas.
* `FormsAgree`: `ShowsDevice`, that a buffer last set to what the device holds is shown
  so by the service object and by every light. It is inductive with the same invariant, `WriteInv`: a
  fresh buffer holds what the device holds (`FreshIsHeld`), and each handler that
  sets the buffer sets the other forms from it before it lets go of the mutex.

### MqttPt

* `StartedOnceAndJoined`: `Threads` relates the count of starts, the places of
  both threads and the crash.
* `ReportsAgree`: `RequestInv` says, per request, which logs can stand together
  with what is pending and with what the main thread is about to publish, unless the
  memory for a report was missing (one of the faults). While
  this was proved, `PublishedAgrees` turned out to need no exception for a process
  that is over, and lost it.
* `ShutdownGoesOn`: the safety part of `ShutdownEnds`. When the main thread joins the other
  one, that was never started, has ended, or has a client that is shut down or an answer
  still to come that shuts it down (`ShutdownPursued`, with `Threads`).
* `AnswersCanCome`: the safety part of `RequestsAnswered`. `Served` says that a request
  that waits for its answer, and the unregistration that the main thread waits for, have a
  thread that brings it; `NeverLinked`, that nothing waits before there was a connection.
* `TypeCorrect` bounds the entries that a device can have in the list; for this
  `Counts` counts registrations about to be sent, unanswered, and about to be
  listed.

### StressTester

* `DevicesAreFound`: `Tracked` says that until a call is refused Edge's devices, and
  those it is asked to register, are on the list of their thread, that none is
  asked for twice, and that the translator is connected.
* `DrainedBeforeShutdown`: `Ending` and `Tracked`.
* `ThreadsDrain`: `StressTester` implements `Drain` with one owner per test thread;
  `Orderly` says what a step can do to a thread's phase and list.
* `ListsAgreeWithEdge` and `ThreadsWaitForAnswers`: the safety part of
  `ShutdownEnds`. As long as no registration, unregistration or call failed and no
  connection was lost (`Smooth`), a device is on the list of its thread exactly
  when Edge has it or its registration is to be answered, and a thread that waits
  for its list to empty waits only for devices with an unregistration outstanding,
  behind that registration. `WaitInv` carries both; that one request per listed
  device is queued rests on `SetToSeqComplete`.

### KaasPt

* `AnswersArrive`: ids only grow (`Ids`: each is on the way once at most, as a
  request or as its answer), the mutex has one owner (`Locks`), and a request that
  is waited for stays pending (`Awaited`). A request that was left behind has another id.
* `MutexNeverLeft`: the safety part of `HandlersReturn`. A client owns the mutex
  exactly while its request of Edge is under way or its result unread, and main
  exactly until it serves, so nobody waits for an owner that is gone, however
  handlers end.
* `RestAgrees`: `Agreement` speaks of a name at rest and has to be carried through
  everything that can happen to it. The invariant is one per name, `NameInv`:
  one row and one task at most (`OneRow`, `Sole`); while the connection lives, no
  task and no write from the cloud at the same time (`Apart`); a task that works on
  the name has changed the row and, depending on whether Edge has handled its
  request, the device (`Carries`); and without a task, row and device exist
  together and are going to have the same value (`Settled`). "Going to": the last
  confirmation on its way to Edge and the last event on its way to the consumer
  say the same (`Meet`), although the two queues are emptied at different times.
  Around it: before main is answered nothing is known to Edge (`Quiet`), a first
  start announces rows that are not there (`FirstRows`), a request fails only over a
  lost connection (`Fails`), and a request on its way belongs to the task that
  waits for its id or to a name that is given up (`Owners`). `Frame` is the lemma
  that most steps use for the names they do not touch. TLC checked the whole
  invariant on the instance of the run before it was proved.

### Only model-checked

* Liveness, here and in every module: `ShutdownEnds`, `RegisteredPolled`,
  `ShutdownCompletes`, `GracefulStop`, `JoinReturns`, `Settles`, `ValueCatchesUp`,
  `CampaignEnds`, `RequestsAnswered`, `HandlersReturn`, `StartEnds`, `GivenUp`. The prover
  has neither fairness nor ENABLED. What is proved of them is their safety part,
  where the sections above name one: that something is left that can bring them about.
* That the constants of the runs satisfy the ASSUMEs, `MacroAssumption` among them.

## Behaviours met while modelling

These are in the models as the code has them, and the properties above name them
as exceptions or do not depend on them; no run is about them.

* Devices of the list are registered at Edge before their services are resolved
  (`pt_edge.c:423`).
* After a link of a day, a context is removed minutes after the link is lost: the
  time is measured from the last connection (`pt_ble.c:720`).
* A value read late is stored through a context that is gone (`pt_ble.c:2228`;
  `crashed` in `BlePt`).
* The start mutex stays locked after a failed `pt_client_start` (`pt_edge.c:597`).
* In pt-example the main thread waits to be connected also when the start has
  failed, and waits for an unregistration that was signalled before
  (`client_example.c:119`, `:194`).
* After a reset the minimum and the maximum stay unset until the temperature
  changes (`client_example.c:537`).
* A signal between `setup_signals` and `sem_init` is lost in the MQTT translator
  (`mqttpt_example.c:1771`).
* The kaas reader task ends with "Break and let caller recreate connection", and
  nobody does. Writes to a device whose name has other replaced characters
  than spaces are confirmed and lost (`main.rs:578`).
* The stress tester returns with a device-list mutex locked when Edge writes to a
  resource the device lacks (`stress_tester.c:635`), and waits for ever for a
  device whose unregistration fails (`:512`).
* Signed 16-bit characteristics are decoded as unsigned
  (`pt_ble_supported_translations.c:472`); no module has these formats.

## Not modelled

* Notifications of characteristics (their handler logs), the clearing of the
  BlueZ cache at start, a failing proxy of the adapter in `ble_remove_device`.
* The sensors' number formats: conversions of one value at a time without state,
  better covered by unit tests.
* `ipso_update_min_max_fields`, which the BLE example calls on one thread; the
  same logic beside a second thread is in `PtSensor`.
* Crypto and certificate demonstration requests, whose callbacks log.
* JavaScript walk-throughs, web portal, generated parsers, shell scripts.

## Plan

Every safety invariant and action property that a passing run checks is proved, and so are
the safety parts of the liveness properties `ShutdownEnds` (BLE translator, MQTT
translator, stress tester), `ShutdownCompletes`, `JoinReturns`, `GivenUp`, `CampaignEnds`,
`RegisteredPolled`, `RequestsAnswered` and `HandlersReturn`. What is left:

1. The same for `Settles` (a poll that is still to come will show what the device
   holds), `ValueCatchesUp` and `StartEnds`.
2. Hazards without a property (`PROJECT.json`) wait for a model of the signed
   number formats and of a second registration of the translator.
