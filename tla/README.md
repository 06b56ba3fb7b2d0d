# Verification of kemcio-backend

TLA+ models of the backend of a smart-home system (NestJS micro-services over
RabbitMQ and MongoDB), the TLC instances that check them and TLAPS proofs of
their main invariants. Paths such as `devices.service.ts:97` are those of the
repository (`apps/<service>/src/...`).

## 1. Inventory

One node process per service; services talk through RabbitMQ, devices (Tasmota
firmware) through its MQTT plug-in on the exchange `amq.topic`.

| component | state it keeps | operations | interacts by |
|---|---|---|---|
| New-device wizard (devices) | `pendingNewDevices`, collection devices, `sensorsIntervals` | addDevice, confirmNewDevice, abortNewDevice | RPC on `devices-new` from the websocket gateway |
| Sampling and device changes (devices) | `sensorsIntervals` with their `ready` flags, collections devices and data | sensorsHandler, updateDevice, removeDevice, timers | `tele.#.SENSOR`, RPC on `devices-update`, `devices-remove` |
| Device messages (devices) | `elements` and `online` of a device | devicesOnlineHandler, handleDeviceResults, saveMessage, replaceMesage | `tele.#.LWT`, `tele.#.STATE` |
| Device queries (devices) | temporary queues, consumers, timers | listenElement, listenWiFi | RPC on `devices-elements`, `devices-wifi`, `stat.#` |
| Observers, events | list of observer ids (devices), list of event streams (gateway) | addObserver, removeObserver, EventsService | queues `devices-observer`, `devices-observers`, SSE |
| Data queries (devices) | collection data | saveDataMessage, removeData, getData | RPC on `devices-elements`, aggregation |
| Workflow scheduler (workflows) | collection workflows, one cron registry per context | newWorkflow, updateWorkflow, removeWorkflow, runWorkflows | RPC from the gateway |
| Workflow compiler (workflows) | none | getWorkflowTasks, tasks.ts | called by the scheduler |
| Flow execution (workflows) | none | resolvers.ts, package flowed | HTTP to the gateway |
| Authentication (auth, gateway guards) | collection tokens, cookie and access token of a browser | generateTokens, saveToken, verify..., AuthGuard, AdminGuard | RPC, HTTP |
| Users (users) | collection users | login, create, updateById, removeById | RPC, HTTP |
| Gateway plumbing | none | routes, exception filter | HTTP |

Behaviours that are hard to get right here:

* every handler is a node callback: what runs between two awaits is atomic,
  and anything may run during an await;
* the default error handler of golevelup puts the message of a handler that
  throws back into the queue, so that every handler may be run again on the same
  message (only `devices-elements` and `devices-wifi` acknowledge instead);
* RPC queues are `autoDelete` and not durable: calls are lost with the service,
  whereas readings wait in the durable queue `devices-sensors`;
* several pieces of state exist twice, in memory and in MongoDB;
* tokens, documents, cookies and accounts end at different times, and a call
  carries what one service has read to the next;
* times are stored in UTC and cut into hours, days, weeks and months of another
  zone.

The properties that make the components correct, and the lines where they could
go wrong, are the `hazards` of PROJECT.json.

## 2. Plan

What is modelled first is what can silently go wrong between two awaits, and
what a restart leaves behind. Done:

1. `NewDevice` with its abstract specification `NewDeviceSpec`, and its proofs.
2. `Sampling` (readings, updates and removals of sensors), and its proofs.
3. `WorkflowScheduler`, and its proofs.
4. `DeviceState` with `DeviceBoard`, and its proofs.
5. `DeviceQueries`, and its proofs.
6. `WorkflowFlow`: compiler and execution of a workflow, and its proofs.
7. `Observers`: event streams, observers, status reports, and its proofs.
8. `EverythingReachedRuns` for every well-drawn workflow (the second invariant of
   `WorkflowFlow_proofs`).
9. `Sessions`: tokens, guards and users, and its proofs.
10. `ElementData`: rows and `getData`, against a reference definition, and its proofs.
11. Foreign topics in `Observers`, whose LWT messages are requeued for ever.

What is left, in this order:

12. Reports of STATE and of readings in `Observers` (of a list only the first
    element is sent, `events.service.ts:54`).
13. The values of readings in `WorkflowFlow`: an element is read at the start of a
    flow and compared behind a delay (`tasks.ts:3`).
14. Commands to the device in `updateDevice` and `removeDevice`.
15. A composition of `Sampling` and `Observers`: `observed` of the first is
    `observers # {}` of the second.

## 3. The modules

All modules share these conventions. One action is what node runs between two
awaits; a message in a queue, a request on its way to the database and its reply
that is not yet read are phases of the message. `up` (or `devices`, `gateway`,
`server`) tells if the process runs; `Crash` takes the memory and the autoDelete
queues with it. A handler that throws puts its message back, as the default
error handler of golevelup does: if nothing else changes, the action is
`UNCHANGED vars` and stands for the delivery that fails. Variables marked
*history* are not in the code; they state the situations a property excludes.
Definitions whose comment begins with "Mutant" are not part of a specification:
each changes one definition the way a plausible bug would, and shows that a
property notices.

**NewDevice** (`devices.service.ts:60-107`, the gateway's `device.gateway.ts`).
`pending` is the key set of `pendingNewDevices`, `stored` the collection,
`intervals[c]` how many `SensorInterval`s the device of a client has. `dto` holds
the three attributes of the input that decide anything. `phase` of a
'flashed' passes `saving` (in `await save`) and `inserted` (saved, handler not
resumed). `RejectParallelSave` is mongoose's ParallelSaveError. The refinement
mapping `stage` maps it to **NewDeviceSpec**, which knows no messages: a device is
offered, committed, stored or withdrawn.

**Sampling** (`devices.controller.ts:224-243`, `sensors-intervals.ts`,
`devices.service.ts:113-150, 296-311`). `listed`, `period` and `ready` are the
`SensorInterval`s; `fresh[r]` tells if the object the handler of reading `r` holds
is still the listed one; `stored`, `dbPeriod` and `vended` are the devices
collection: its members, their interval, and whether their `device` names a sensor of
`vendors.json`; `rows` is the data collection. `ResetInterval` precedes `UpdateStore`
as in the code. What throws each time is part of the model: a reading of an unknown
sensor that somebody watches, one without the values of a DHT11 (`Garbled`) that is
due or watched (`Throws`), a call whose device is gone or whose `device` no vendor has
(`Finds`), and an update with a field that mongoose cannot cast (`castable`), since
no DTO is validated. An uncastable interval leaves a timer in memory all the same;
its value is one of `Period`.

**WorkflowScheduler** (`workflows.service.ts:39-115, 265-285`, `main.ts`).
`db` is the collection, `job[x][w]` the cron job of a workflow in the registry of
context `x`; `main.ts` creates two contexts and closes none, and only the first
consumes messages. `snapshot` is the document in the database's reply. A call that
throws each time is `Hopeless`; one that mongoose cannot cast changes nothing and
stands among those whose workflow is missing.

**DeviceState** (`devices.controller.ts:203-270`, `devices.service.ts:201-242`,
`device.repository.ts:35, 67-105`). `queue` and `handling` are the three durable
queues, `writes` the requests on their way to the database; `rest` of a request is
what its bulk has yet to update, since a bulk is one atomic update per element.
`Replace` is the `$reduce` of `replaceMesage`, a recursive function of the index whose
step is `Keep`. `board` maps it to
**DeviceBoard**: one field of one device changes at a time.

**DeviceQueries** (`devices.controller.ts:153-201`, `devices.service.ts:244-321`).
`queues` and `box` are the temporary queues, `Listeners` their bindings, `open` the
commands on their way to devices. The device that answers or not is external. A
lookup that is refused is acknowledged without a reply (`RejectDevice`, phase
`dropped`). `handleSensorElements` knows the DHT only: the answer of another device
makes the consumer throw (`DeliverThrows`; the others are `Readable`), at which amqplib
closes the connection. `up` therefore means running and connected, and `Boot` is a
start or a reconnect.

**WorkflowFlow** (`workflows.service.ts:106-286`, `tasks.ts`, `resolvers.ts`).
`stack` holds the calls of `getWorkflowTasks` (the loop and its recursion for false
branches), one step of the loop being `MakeTask` or `MakeCondition` (the switch)
and `Link` (what follows it). `requires` is what the tasks require of each other;
parameters, which are there before the flow starts, are left out. The package
flowed is external: it starts a task as soon as all it requires is provided.
`drawing` ranges over graphs, so that the compiler and the run are checked on all
graphs of a size.

**Observers** (`observers.service.ts`, `events.service.ts`, `devicesStatus` of the
gateway, `devicesOnlineHandler`). `events` and `observers` are the two lists, as
sets: ids are random and announced once. `announced` and `reports` are the two
queues between the services. A client may end its socket (`End`) or lose it
(`Break`), which the code does not notice.

Messages of devices whose topic is no ObjectId are `Foreign`: mongoose cannot cast
the topic, so that the handler throws at every delivery. A message that is requeued
returns to its old place: `ahead` tells which ones came before a message, and only
the first that waits is delivered.

**Sessions** (`auth.service.ts`, `users.service.ts`, the routes `/auth` and `/users`
of the gateway, `auth.guard.ts`, `admin.guard.ts`, `rpc-exception.filter.ts`).
`account` and the `doc` of a `token` are the two collections, `cookie` and
`bearer` what a browser holds. A call passes the services in the order of the
code: a login `find` (UsersService.login), `tokens`, `save`, `answer`; a refresh
`verify`, `lookup`, `answer`; a guarded call `verify`, `role`, `operate`. The document
of a token is `saving` until the database has it, since `saveToken` does not wait.
Time passes in units: the lifetime of a refresh token is `Lifetime`, the TTL of its
document `TTL`, which the settings give in milliseconds and seconds (604800000
and 604800). An error of the database has no HTTP code; the exception filter
passes the word `'error'` to `response.status`, which throws and ends the gateway
(`DatabaseFails`). That the frontend keeps the access token until it expires is
external; the id of a refresh token is reserved when the login comes in, which
only keeps the number of ids small.

**ElementData** (`data.repository.ts`, `saveDataMessage`, `removeData` and the
route of the gateway). `rows` is the data collection, `chart` the answer of the
last step. `DateTrunc`, `Average` and `Group` are the stages of the aggregation,
`ToUTC` the conversion from London time. The filter on the topic is an object and
so true of every row, whatever the device (`Match`); a period that is no case of
the switch leaves the rows ungrouped (`Ungrouped`); for a zone that MongoDB does
not know the call is acknowledged and never answered.

Its names are not those of `DeviceQueries` (`Sensor`, `Null`, `DataInit`, `DataNext`,
`DataSpec`, `DataTypeOK`): `Queries_proofs` extends both.

`Queries_proofs` holds the theorems of `ElementData` and `DeviceQueries`, every other
`*_proofs` those of the module it is named after, and `MC*` the instances for TLC.

## 4. Runs

| run | instance | asks |
|---|---|---|
| `wizard` | 1 client, 3 copies of every status, all inputs, fair; 36 k states | types; intervals in memory match the store whatever duplicates, aborts, failed saves and restarts came before; 'added' is the truth unless the document was dropped; it implements `NewDeviceSpec`; every 'flashed' of a valid device is answered or lost with a restart |
| `sampling` | 1 sensor, 4 readings (2 without values) and 3 calls, of which at most three are sent, 2 intervals, prefetch 2, fair; 53 k states | a sensor is sampled at most prefetch times per tick, and not again once one of the samples is done; the interval in memory is the stored one outside three named situations; a removed sensor is not sampled after a restart; readings are acknowledged and calls answered, except the ones that are requeued for ever and the ones that wait behind `Prefetch` of those (all named) |
| `workflows` | 1 workflow, 3 calls, 1 graph, prefetch 2, fair; 96 k states | a settled workflow has exactly the job its document asks for; calls are answered; the service comes up |
| `workflows_removed` | as above | **violated**: a removed workflow has no job in the process |
| `state` | 1 device, 3 messages, at most 2 deliveries each, prefetch 2; symmetry; 290 k states | one entry per element; the last value is shown unless one of three named accidents happened to the field; `DeviceBoard` |
| `state_row` | 1 message | **violated**: the row of a reading holds the values of the reading |
| `queries` | 2 devices (one a DHT), 2 queries, 1 other command, prefetch 1, fair; 140 k states | answers to element queries fit; no temporary queue is left; who is answered |
| `queries_wifi` | 1 device, 1 query, 1 other command | **violated**: a WiFi query is answered with the WiFi |
| `flow` | every acyclic drawing of 3 nodes, every drawing of 2, 2 comparisons, 1 reading, fair; 6205 drawings, 43 k states | nothing runs that the drawing does not reach; what a well-drawn workflow reaches does run; the compiler ends on drawings without cycles |
| `observers` | 2 streams, 2 messages of a device and 2 foreign ones, of which at most three are sent, prefetch 2, fair; 137 k states | the lists agree unless a restart cut them apart; streams follow the stored status unless two writes overtook each other; listed streams are shown every message, except those with `Prefetch` foreign ones ahead |
| `sessions` | 2 accounts, 1 password, 1 browser, 2 calls, 1 refresh token, lifetimes of 1 unit, fair; 281 k states | what is granted rests on the account as it was at some moment of the call; documents outlive their tokens; calls end; a removed user is signed out in the end |
| `element_data` | 2 devices, 3 rows, 2 zones, 6 units of time; 455 k states | an answer divides the current day, week or month of the zone; its points lie within the numbers they stand for; the answers for different periods agree |

The bounds. Every hazard of these components needs at most two handlers at
once and one message that comes after them: two copies that collide in `save`
and a third that comes late, two readings in flight and one that sees the
cleared flag, an update and a removal of the same device, two workflow updates whose
replies overtake each other and a removal, two writes of one element and a
redelivery. Restarts are not bounded, except by the number of messages they can
hit; deliveries of a message of `DeviceState` are (`MaxTry`), since a message can fail
for ever. Clients, sensors and workflows do not interact within their component;
queries do, and have two devices. Where liveness is checked TLC cannot reduce by
symmetry: `sampling` and `observers` send their messages in order instead, and
three of them at most: two readings and a call, one reading and two calls, two
readings without values and one with them, two calls that cannot be cast and one
that can, two foreign messages and one that is not. The last three fill all
deliveries with messages that throw each time; with the exceptions `Held`, `Clogged`
and `Starved` taken out of the properties TLC finds the message that is never
delivered. `MCFairness` of these two is implied by `Fairness`: it asks for weak
fairness of deliveries that nothing in the instance competes with, since strong
fairness costs TLC much time. In `sessions` two calls are enough for a login or an
operation that meets the removal or the demotion of its account, and the second
account is made and removed by the first; a login that meets a change of password
needs two passwords and is covered by the proof only. `element_data` has days of two
hours, weeks of two days and months of three, so that neither of the latter
divides the other, three rows, so that an average has one number, two, or is
next to one, and two zones an hour apart on a clock that starts inside all
periods. In `flow` the stack of node is `MaxDepth` calls, more than an acyclic drawing
of three nodes needs, so that only a cycle through a false branch overflows it.

What the runs found, with the line of the repository that says otherwise (see
`findings` in PROJECT.json):

* `main.ts:6`: the first context is not closed, unlike in the services auth and
  users, so that both contexts schedule each stored workflow, and a job of the
  second one survives its removal.
* `devices.service.ts:228`: the row of a reading stores the temperature as the
  humidity.
* `devices.service.ts:274`: `listenWiFi` returns the first message on RESULT, which
  may answer another command.

Deadlock is checked except in `flow`, where a finished flow, and a compiler that
threw, really stop.

## 5. Fairness

Safety is checked without any. For liveness:

* *weak fairness of what node does by itself*: a reply that has arrived resumes
  its handler, timers fire, a queued message is delivered to a consumer that has a
  free slot (the event loop and the broker both serve in order);
* *strong fairness of deliveries that compete* for the prefetch slots of a
  consumer (`Receive`, `StartSample`, ...): a slot may be taken each time by another
  message, but a queue is served in order. A message that is requeued goes back to
  its old place in front, so that `Prefetch` messages that throw each time can take
  all deliveries, and nothing behind them is promised: the fairness of `Sampling` and
  `WorkflowScheduler` leaves out what is `Clogged` or `Held`, `Observers` delivers the
  first waiting message only, and the properties name the exception. `DeviceState`
  has no liveness property. In `NewDevice` the messages of clients whose document
  cannot be saved would do the same to those of others; the instance has one client,
  and the property is about its valid document;
* *strong fairness of database operations that may fail* (`DbInsert`, `InsertRow`,
  `UpdateStore`, `SetStatus`, ...): the handler is tried again after every
  failure, and the database is assumed not to refuse for ever;
* in `Sampling`, steps of one message that follow each other share a conjunct
  (`InsertRow \/ FinishSample`), which assumes no more than fairness of each of
  them: one of the steps is taken, if one of them can be taken again and again;
* in `Sessions`, *weak fairness of `Serve`* (the services and the gateway go on with
  every call), of `Stored`, of the clock and of the expiry of cookies and access
  tokens; documents need never be dropped;
* *weak fairness of the cast error* of a foreign message: mongoose does not ask the
  database;
* *weak fairness of `Boot`*: something restarts a process that ended, as the
  compose file's containers are restarted;
* in `WorkflowFlow`, the compiler is a loop without awaits, and requests and
  delays of a task end.

Nothing is assumed of users, browsers, devices, timers of sensors, failures or
crashes. Where a property needs the service to stay up in the end it says so:
`<>[]up => ...`.

## 6. Proofs

The theorems hold for every value of the constants under the assumptions
declared in the modules: the prefetch count is at least one, and the values
that stand for "nothing" are not values. Each rests on an inductive invariant
`IInv`, shown by one lemma per action (or per group of actions) and combined in
`Invariance == Spec => []IInv`.

* `NewDevice_proofs`: `TypeCorrect`, `SamplesExactlyTheStore`
  (`IntervalsMatchStore`), `AddedIsHonest` (`AddedMeansStoredUnlessDropped`) and
  `Implementation` (`Spec => ImplementsWizard`). `IntervalsMatchStore` is not
  inductive: a second save of a document would count its device twice. `IInv` adds
  that a document is saved by one handler at a time, and that a stored device has no
  entry left unless a handler is about to delete it; that a stopped service holds
  nothing is part of `TypeOK`. The refinement shows for each action to which step of `NewDeviceSpec` it
  maps, or that `stage` stutters.
* `DeviceState_proofs`: `TypeCorrect`, `OneEntryEach` (`NamesUnique`), `LastValueShown`
  (`LatestUnlessInDoubt`) and `Implementation` (`Spec => ImplementsBoard`), for any
  number of devices and messages, any lists of fields and any prefetch count. All of
  them rest on `ReplaceProperties`, what the `$reduce` makes of a list of any length.
  That is an induction, and the library's theorems for it take an operator, which the
  provers cannot instantiate; `InductionOnSet` states it for a *set* of numbers
  instead, and follows from `WFMin`: the set of the counterexamples would have a
  least member. It gives both that the recursive function exists
  (`ReductionExists`) and what it computes. `LatestUnlessInDoubt` speaks of fields at
  rest; its invariant `FreshInv` says of every field that is not in doubt how it gets
  there: the message published last is the last one waiting in the queue
  (`InOrder`); when none waits, all requests on their way are requests of that
  message; when there are none either, it is shown. The order of a queue survives a
  redelivery because an older message that comes back puts its fields in doubt, and
  that `doubt` is ever lifted is sound because a message that is last, and alone in
  waiting, meets no other request.
* `Sampling_proofs`: `TypeCorrect`, `SamplesBounded` (`SampleBound`), `ThrottleAgrees`
  (`ThrottleFollowsStore`), `ForgottenNotSampled` (`NoSampleOfForgotten`). The bound
  on the samples follows from `ReadyWindow`: as long as the flag is set, every sample
  begun since the last tick is still in flight, and at most `Prefetch` are (the second
  half of `SampleBound` is that fact).
  `ThrottleAgrees` needs that the interval of a call in `writing` is the one in memory.
* `WorkflowScheduler_proofs`: `TypeCorrect`, `JobsAgree` (`JobFollowsStore`), from the
  fact that the snapshot of the call that changed a document last is that document.
  `RemovedStopsInFirst` says how far `RemovedStops`, which the code violates, does
  hold: as long as the second context is not up. With one context only there would be
  no other way for a job to stay.
* `Queries_proofs`, on `DeviceQueries`: `TypeCorrect`, `QueuesGo` (`NoQueueLeft`),
  `ElementAnswersAreTheirs` (`ElementAnswersFit`), from what a temporary queue may
  contain: answers of the right device and topic. `WiFiMisledByCommandsOnly` says how far
  `WiFiAnswersFit`, which the code violates, does hold: a WiFi query is answered with
  the WiFi of its device unless somebody sent that device another command. Its
  invariant `SentFits` says that every other command on the way was sent by a query, on
  the topic of its answers.
* `Queries_proofs`, on `ElementData`: `DataTypeCorrect`, `AnswersDivide` (`ChartDivides`),
  `AnswersWithin` (`ChartWithin`), `AnswersAgree` (`ViewsAgree`), for every calendar and
  zone, any values and any finite number of rows. The invariant `DataIInv` is short: there
  are finitely many rows, and an answer is the one that `GetData` gives to them
  (`ChartAnswers`). The rest is arithmetic and induction over finite sets
  (`SubsetInduction`, for a set of subsets, as above). `SortedPoints`: a finite set
  of points with different dates has exactly one order, built from the rank of each
  point. `Coarser`: two times in the same hour are in the same day, and so on, because
  one length divides the other; without that a point would stand for rows that `$match`
  leaves out. `TotalWithout` and `TotalOfBoth`: the fold that adds up a set gives
  the same total whichever member it picks. `Rounding` states the comparison of a
  rounded mean with a number as the sign of a term that is linear in total and
  count, so that it holds of a set if it holds of its parts (`PartsAddUp`): that
  is why the value of today lies between those of its hours although each of them is
  rounded by itself, to the even one of two. The parts are single rows for
  `ChartWithin`, and hours for `ViewsAgree`.
* `WorkflowFlow_proofs`: `TypeCorrect`, `NothingElse` (`NothingElseRuns`) and
  `EverythingReached` (`EverythingReachedRuns`), for every drawing, cycles and joins
  included in the first two. `NothingElseRuns` speaks of the run, the
  strengthening of the compiler: `Supported` says that a node that has its task is
  about to be linked by a call on the stack, or its task requires the result of a
  node in front of it; `FramesFit` that a call follows an edge of the drawing
  whose source has its task. When the stack is empty only the second is left, and a
  task starts when what it requires is there. The converse has an invariant of its
  own, `CInv`, on top of the first and for well-drawn workflows: `Complete` says
  that behind every task each node has its task or is `Pending`, about to be visited
  by a call on the stack or by the one that links the node in front of it;
  `RequiresFit` that a task requires nothing but what its predecessors and its
  readings provide; `ValuesFit` that values come from tasks that ended. At rest
  nothing is pending, so that a reached node has its task, and all it requires.
  `AcyclicCompiles`, on a third invariant (`DInv`), is the safety half of
  `CompilerEnds`: along any ranking of the nodes by the edges (`Acyclic` says that
  there is one within `MaxDepth`), every call on the stack is at a node that ranks
  above the node of the call that made it (`Deep`), so that there is always room
  for a false branch, and the compiler throws only for a drawing that lacks its
  first node or a comparison. On a drawing with a cycle the overflow is reachable.
* `Observers_proofs`: `TypeCorrect`, `ListsFollow` (`ListsAgree`), `StreamsFollow`
  (`StreamsFollowStatus`). The lists are kept by messages, so that `IInv` speaks of
  the messages on their way: the last announcement of a stream tells whether the
  gateway has it (`LastTells`), and a stream is added once. For the status it names
  what a stream will show once the reports on their way have arrived
  (`ExpectsStatus`).
* `Sessions_proofs`: `TypeCorrect`, `GrantsRestOnAccounts` (`GrantsEntitled`),
  `SessionsKept` (`SessionsStored`). `IInv` adds that a call has what its step needs
  (`StepsFit`), that whoever is entitled now is on record as such (`EntitledSoFar`),
  that a login has its token to itself (`OwnToken`), and that a document is no older
  than its token (`DocumentsDated`): it is dated when it is saved, the token when it
  is signed, and `Lifetime <= TTL` does the rest.

The assumptions on constants that `WorkflowFlow` adds: the ids of nodes, comparisons and
readings differ, as they begin with the kind of the node, and no node of the control
flow is the trigger (`NamesAssumption`); a drawing has the shape of the schema (`DrawingAssumption`). The one that
`DeviceState` adds: a STATE and a reading have no element in common, and none is
called as the status (`FieldsAssumption`); `handleDeviceResults` lets three names
through, and `saveDataMessage` writes two others.

The ones of `ElementData`: a day is a whole number of hours, and a week and a month of
days (`CalendarAssumption`); a zone has a distance to UTC, a whole number of slots,
and the one of the service is a zone (`ZoneAssumption`); values are numbers, in tenths
of a degree as `$round` leaves them, and the absent one is none (`ValueAssumption`); the
bounds are numbers (`DataBoundsAssumption`).

Only model-checked: everything about liveness (`FlashedAnswered`, `ReadingsDrain`,
`CallsAnswered`, `ComesUp`, `QueriesAnswered`, `StreamsHear`, `CallsEnd`,
`RemovedSignedOut`, and the half of `CompilerEnds` that it ends). Every invariant of a
passing run has a theorem.

## 7. What is not modelled

* The calendar of MongoDB: in `ElementData` months are equally long, a zone keeps
  its distance to UTC, in whole hours in the run, and averages are rounded without
  the error of binary fractions. Summer time is in the conversion from London time.
* Names of users and hashes of passwords; calls without header or cookie, which are
  refused at once; that a call which a gateway has lost is repeated.
* `POST /devices`: the gateway sends the pattern 'add-device', which no handler knows
  (`gateway/src/controllers/devices.controller.ts:134`): the call changes nothing
  and is never answered.
* Commands to a device in `updateDevice` and `removeDevice` (Reset, Topic, WiFi
  settings): a device that is told something changes no state of the services.
* Updates that change the `type` of a device, which decides whether the next start
  lists it.
* Vendors, elements and other constant tables; `getDevices` and other handlers
  that only read.
* Gateway routes, validation pipes, the exception filter, dependency injection,
  connection settings, firmware files: wiring without state.
* The connection to RabbitMQ and MongoDB is taken to last as long as the process:
  a lost connection has the effect of a restart on queues, but not on memory. Only
  `DeviceQueries`, which keeps no memory, has the break that a throwing consumer
  causes; handlers left over from before the break, which can no longer answer, are
  left out, and so is what the break does to the other consumers of the service.
* The prefetch count is the library's default, not a setting of the repository: the
  models take any number but 0, the runs a small one.
* Writes are taken to happen at most once per request (the driver's retryable
  writes), and a write that a restart cuts off either happens before the service
  is up again (`Observers`), at any later time (`DeviceState`), or not at all.
