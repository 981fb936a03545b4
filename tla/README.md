# Shingo in TLA+

Shingo moves bins between storage and production lines with a fleet of robots.
*Edge* (`src/shingo-edge`) runs at a line: it counts parts through PLCs, keeps
the line's stock, and orders material. *Core* (`src/shingo-core`) serves all
edges: it turns their orders into fleet orders, reserves bins, follows the
robots, and reports back. They talk over Kafka with the messages of
`src/protocol`.

This directory holds TLA+ models of that program, the TLC configurations that
check them on small instances, and proofs that hold for every instance.

    tlc -workers 2 -config CoreClaims.cfg MCCoreDispatch
    tlc -workers 2 -config Services.cfg MCServices
    tlapm CoreDispatchProofs.tla
    tlapm LineStockProofs.tla

## The system

| part | state it keeps | operations | works with |
|---|---|---|---|
| core dispatcher (`dispatch/`) | rows of `orders`, `payloads.claimed_by` | five message handlers, on the Kafka reader's goroutine | calls the fleet over HTTP; enqueues replies; emits events the engine handles at once |
| fleet poller (`rds/poller.go`) | `active`: last state seen of each fleet order | track; a poll cycle over all tracked orders | asks the fleet; emits status changes to the engine |
| engine (`engine/wiring.go`, `engine.go`) | none of its own | subscribers on a synchronous bus; reload of the poller at start | writes `orders`, moves payloads, enqueues messages |
| stock (`store/payloads.go`) | payloads: node, claim, delivery time | FIFO source, storage destination, claim, move | called by dispatcher, engine and web |
| node state cache (`nodestate/`) | Redis copies of SQL rows | refresh after a move; read with fallback to SQL | several goroutines refresh one node |
| scene sync (`engine.go`) | `nodes` | create and delete nodes to match the fleet's map | runs beside orders that name those nodes |
| core web (`www/`) | none | terminate, priority, payload and node edits | every request on its own goroutine |
| outboxes (both sides) | rows not yet sent, retry counts | drain every few seconds, acknowledge, dead-letter, purge | Kafka |
| data channel (`core_handler.go`) | `edge_registry`, demand counters | register, heartbeat, stale sweep, production report | edge heartbeats and reporter |
| protocol (`protocol/`) | none | expiry, filter, dispatch by type | both sides |
| edge orders (`orders/manager.go`) | the edge's orders and their history | create, submit, abort, redirect, confirm, handle a reply | web, auto-reorder and Kafka reader, concurrently |
| edge stock (`engine/wiring.go`) | remaining parts and status per payload | apply a counter delta, reorder, refill at order end | PLC polling, order events |
| PLC manager (`plc/`) | tag cache, connection, last counts | poll or SSE feed, counter deltas, anomalies | WarLink |
| changeover (`changeover/`) | state per line, and a log | start, advance, cancel, restore | web |
| point setup (`www/handlers_api.go`, `warlink_tags.go`) | reporting points, job styles | create, update, delete; publish and withdraw tags | WarLink; the PLC manager's tag cache |
| production reporter | counts per category | record, flush each minute | edge outbox, core demand counters |
| heartbeater (`messaging/heartbeat.go`) | none | register, beat, ask for the node list | core's data channel |
| Kafka client (`messaging/client.go`) | writer, readers, handlers | connect, subscribe, reconfigure | main, the settings page, every drainer |
| event bus and browser hub (both sides) | subscribers; open pages and their queues | emit, fan out, come and go | every part that emits |
| manifests (`www/handlers_corrections.go`) | manifest items, corrections log | correct, log, plain edits | the auditor's page |
| debug log (`debuglog/`) | a ring of entries | log, show | every goroutine of core, the hub |

Behaviours that are hard to get right:

* Three goroutines of core write the same order with no transaction and no
  check of what is there: the dispatcher, the poller with the engine, and web
  requests. Each reads, calls the fleet or computes, and writes.
* The fleet's HTTP calls sit in the middle of handlers. They fail, and they
  time out although the fleet did what was asked.
* Core stops between any two statements; only the tables survive.
* Messages are repeated (publish, then acknowledge), lost (Kafka offsets are
  committed before the handler runs, and core's writer asks the broker for no
  acknowledgement), reordered (a failed publish is skipped), or dropped when they
  have waited too long. Core's reader ends for good with its first error.
* Edge transitions check and write in two statements, from the web, the counter
  loop and the Kafka reader.
* Links are lost, settings are saved while a link is being made, and what was
  read from the other end before is kept in a cache (PLC tags, Redis, the scene,
  the node list).

What makes each part correct, in short: a bin belongs to at most one order and
is fetched by at most one robot; a claim ends with its order; stock is booked
where the robot took it; every order is answered, every end of a fleet order
reaches its order and the edge; an order that is over stays over on both sides;
nothing is counted twice or lost between a PLC counter and the line's stock.

## Modules

| module | what it is |
|---|---|
| `CoreDispatch` | the order life cycle of core: dispatcher, poller, engine, stock reservations, terminate, crash and restart |
| `CoreDispatchProofs` | types, claims and what the poller follows in `CoreDispatch` |
| `CoreReservationProofs` | robots, bookings and leaked claims in `CoreDispatch` |
| `CoreAnswerProofs` | what `CoreDispatch` tells the edges |
| `OrderLifecycle` | the abstract edge order: a status machine, and which message each status calls for |
| `EdgeOrders` | the edge's order manager, statement by statement, and its concurrent callers |
| `LineStock` | `EdgeOrders` with counter deltas, reorders, refills and operators' edits |
| `OrderProtocol` | `EdgeOrders` with both outboxes, the topics, expiry, and core as an edge sees it |
| `EdgeOrderProofs` | lemmas about `EdgeOrders`: which statements can stand in which order |
| `LineStockProofs` | types, reorders and the life cycle in `LineStock` |
| `OrderProtocolProofs` | types, what an edge may believe, and aborts in `OrderProtocol` |
| `PartCounting` | from the PLC's counter to the hourly counts, the reporter, core's log and demand page |
| `Changeover` | a line's changeover in memory, its log, and the registry of machines |
| `EdgeSetup` | reporting points and job styles against the tags WarLink publishes |
| `EdgeRegistry` | registration, heartbeats, the stale sweep, node lists |
| `WarLinkFeed` | the PLC manager's cache, filled by polls or the event stream |
| `NodeState` | the Redis copy of nodes, and the rows it copies |
| `SceneSync` | nodes and scene points against the fleet's scene |
| `Manifest` | corrections of manifests and the log auditors read |
| `KafkaClient` | core's connection to Kafka: connect, subscribe, reconfigure |
| `EventHub` | the event bus and the browser hub of both sides |
| `DebugLog` | core's debug log: ring, callback, file |
| `LinkProofs` | the registry, the feed, the Kafka client and the hubs |
| `ServiceProofs` | counting, changeovers, setup, Redis copy, scene, manifests, debug log; all of them together |
| `MCCoreDispatch`, `MCLineStock`, `MCOrderProtocol` | constants of the TLC runs |
| `MCServices`, `MCLinks` | several modules that share no variable, checked together |

`LineStock` and `OrderProtocol` extend `EdgeOrders`: the first takes core's
replies as they come, in any order, the second takes them out of the topic.
`OrderLifecycle` is instantiated in `LineStock` (`Abstract`), with the status of
every row as its `status`; `Lifecycle` says that `LineStock` implements it.

### How CoreDispatch corresponds to the code

State: `orders` are the rows of the orders table by id; `claimedBy` and
`location` are the two columns of `payloads` that orders change; `active` is
`Poller.active`; `outbox` keeps, per order UUID, the kinds of messages enqueued
for the edge; `fleetOrders` is the fleet (external), with the cargo and
destination each robot was sent for. `dispatcher`, `poller` and `web` are the
local variables of the three goroutines.

An action is a stretch of code with no point at which another goroutine, the
fleet or a crash makes a difference the properties see. The cuts are

* at each HTTP call to the fleet: `HandleOrderRequest` ends where
  `CreateTransportOrder` begins; `HandleOrderCancel`, `HandleOrderRedirect` and
  `TerminateOrder` end with the fleet's answer, and `CancelOrder`,
  `RedirectOrder` and `TerminateWrite` do the rest;
* between `CreateTransportOrder`, `RecordDispatch` and `SendAck`: the robot
  exists before its id is stored, and the poller may speak before the ack;
* in the poller: `PollObserve` (which already forgets a finished order),
  `PollResolve`, `PollSnapshot` (the one read of the order), `PollWrite` and
  `PollSettle` (the writes computed from that copy);
* between a receipt's status and the booking: `HandleOrderReceipt`,
  `CompleteOrder`.

`HandleOrderRequest(m)` covers every early return: unknown payload type or
node, no source, no unclaimed payload, no storage, unknown type. `Untrack` has
no action: its only caller compares the new id with the row that
`UpdateOrderVendor` has just overwritten (`engine/wiring.go:22`,
`dispatch/dispatcher.go:257`), so the branch never runs and a former fleet order
stays tracked. Names ending in a remark "Deviation" are not the code: they are
the plausible mistakes each property is tried against.

Taken as given: SQL statements succeed; the statements between two cuts are not
split further by a crash; which eligible payload or storage node the `ORDER BY`
prefers does not matter to these properties, so any may be chosen; a terminate
request is served one at a time; payload types have names, so `handleMove`
always filters; an edge sends a receipt only after it was told of a delivery,
and a request is repeated only with what it said before.

### The edge's orders

`work[c]` is what goroutine `c` still has to do, as a sequence of statements;
each SQL statement is a step, since the database has one connection.
`TransitionOrder` is two of them, `check` and `write`; a failed check drops the
rest. The `...Steps` operators are the operations of `orders/manager.go` in the
order in which the code runs them: `RequestSteps` enqueues the request before
the transition, `ConfirmSteps` the receipt, `AbortSteps` the cancel after it.
A crash (`OrderProtocol`) drops all of `work`.

`LineStock` adds the loop of `handleCounterDelta`: one read of all rows, then
per row a write and, at the reorder point, the status and the order
(`line` is its local copy). `OrderProtocol` adds, per side, the outbox rows that
are posted, their retries, the drainer's batch, the topic and what was read. A batch
(`drain`) is a set of row numbers of which the lowest goes first, which is the
`ORDER BY id` of `ListPendingOutbox`.
Core is reduced to what an edge can notice: rows with a status and a robot;
`CoreDispatch` is the inside of the same handlers. Core's Kafka client is reduced
to `link`: "up"; "deaf" when the goroutine of its reader has returned
(`ReaderExits`), which leaves the writer at work; "down" when there was no broker
at the start or at a save of the settings, so that the drainer does nothing
(`Connected`) but count a failed attempt for the rest of a batch it had begun
(`PublishUnconnected`). A save of the settings (`Reconfigure`) or a restart
(`Crash("core")`) mends it, and nobody need do either. Core is connected at first; that
it starts without a broker is its first restart.
`KafkaClient` is the inside of that. `unkept` are the rows core published without
an error that no broker kept (`PublishUnkept`): its writer sets no `RequiredAcks`.
The edge's client needs neither: it asks for an acknowledgement, and its loop
connects again after every error.

### Counting, changeovers, setup

`PartCounting` runs one poll of one point as four steps (snapshot, last count,
hourly count, reporter) between which the process may stop; `Rollovers` is
`tryRollover` with the two widths as constants. `Jumps` wait for an operator,
and the code applies their delta in no case: the property carries them as a term
of their own. `MakeParts` leaves out what no poll loop can tell: a full turn of
the counter between two polls, and a 32-bit counter that is last seen in the
16-bit range and passes its end before the next poll (four billion parts).
`Changeover` has one step per locked method and two for the lookup
with double check in `Engine.ChangeoverMachine`; a machine that is made and
cannot read its log starts fresh (`Makes`). `EdgeSetup` runs the form
handlers as programs of statements and calls to WarLink, over a tag cache that
lags behind (`RefreshCache`).

### Links

`EdgeRegistry` counts time in minutes: within one the edge beats, core reads and
sweeps, unless a fault delays it; the sweep's SELECT and UPDATE are two steps.
`listening` is whether core has a reader. When it has none, minutes pass with
messages unread, and those that wait too long expire (`Expire`), until somebody
saves the settings or restarts core (`Resubscribe`).
`WarLinkFeed` has the loop goroutine in its two modes (`poll`, `sse`), the
stream with the events under way, and the goroutine of a settings page that
stops one loop and starts the other. `KafkaClient` has the goroutines of readers
by number and, for every thread that saves the settings, the separate critical
sections of `Reconfigure`. `EventHub` has both hubs, by `side`: they differ in
how they close a browser's channel and how they stop.

### Core's copies and logs

`NodeState` cuts `refreshNodeRedis` at the list and at each Redis write, and the
callers before it at each SQL statement; a node id is never used twice, as SQL
hands out ids. `SceneSync` runs `SceneSync` and the
page's two unguarded buttons statement by statement; a run carries `calm`,
whether somebody else wrote nodes since it began. `Manifest` cuts a correction
between the change and its log row. `DebugLog` cuts `Log` at the end of its
critical section, before the callback and before the file.

### Runs of core's orders

All of them have one type of bin, two bins in the first of two stores, and a line.
`MaxInputs` bounds messages, clicks and crashes together; the fleet's states
only go forward, so nothing else needs a bound.

| run | question | instance |
|---|---|---|
| `core_reservations` | can two orders disturb each other's claims, with repeats and redirects? | 2 UUIDs, retrieve and move, 3 inputs |
| `core_claims` | one robot per bin, truthful bookings, no leaked claim | 2 UUIDs, 4 inputs, fleet rejects and fails |
| `core_restart` | does the poller follow what it must, and does every end arrive? | 1 UUID repeated, crash, terminate, rejected and lost create calls, 3 inputs, fair |
| `core_answers` | is the edge told, truthfully and at last? | every request and waybill, redirect to known and unknown nodes, 2 inputs, fair |

Two bins and two orders are the least for which a claim can be taken from
another order or a bin be fetched twice; four inputs reach request, delivery,
receipt and a new request for the same bin. Both bins start in the same store,
so that they compete, and the second store holds one bin, so that it fills up.
Orders and bins are interchangeable, and the two larger safety runs use that
symmetry; the runs with liveness do not.

`CHECK_DEADLOCK FALSE`: when the inputs are spent and the fleet is done, the
instance stops, as it should.

Fairness (`FairSpec`): each goroutine that has begun a handler goes on; the poll
cycle comes round to every tracked order again and again, whatever the others do
(strong fairness per order, since the poller is busy with another one in
between: `poll` is a loop over all ids on a ticker); a stopped process is
started again. Nothing is assumed of the fleet, of messages or of people.

### Runs of the edge and of the services

| run | question | instance |
|---|---|---|
| `edge_line` | do orders keep to the life cycle, and is a payload that shows as on order on order once? | 1 payload of 3 parts, reorder at 1 or 2, steps of 2 parts, 2 orders, 2 messages, 1 edit by hand; operations on one order or one payload do not overlap |
| `order_delivery` | does what one side says arrive, and is it true there? | 1 move order, overlapping operations, 2 messages out, 3 back, batches of 2, 2 attempts, 1 fault of any of ten kinds, fair |
| `services` | counting, changeovers, setup, Redis, scene, manifests, debug log | see below |
| `links` | registry, WarLink feed, Kafka client, browser hub | see below, fair |
| `feed_finding_stall` | does a stalled stream reconnect? | violated |

`services` and `links` put modules together that share no variable: `focus`
picks one at the start, which alone moves. The states are those of separate
runs, and nothing is lost, for no property relates two of them. The bounds:

* counting: counters that wrap at 2 and at 4, jumps from 2 on, bursts of 1 and
  3 parts, 3 parts, one report, one fault of seven kinds. The widths matter only
  through wrapping, the threshold through the burst that reaches it; for what
  more parts could do there is a proof.
* changeover: two styles, two clerks, one restart, one failed access to the log.
* setup: two tags, one style, two admins, two points, three requests, one fault.
* Redis: two nodes, two payloads, two moves, one form, one outage.
* scene: two locations in two areas, two runs (guarded or not), one change of
  the scene, one form; a form leaves the zone empty.
* manifests: two clients, two items, two quantities, three corrections, one
  plain edit, one failed log row.
* debug log: a ring of 2 and 5 entries, so that it wraps twice; two goroutines,
  two subsystems, no file, a file, a filtered file.
* registry: stale after 2 minutes, 2 tries, 3 faults of seven kinds, one change of
  the nodes, one request by an operator, two messages on the wire. Three minutes
  of silence take three faults, or a stopped edge.
* feed: one PLC, two changes, two faults of five kinds, one save.
* Kafka: two threads that save, three saves, the broker away and back.
* hub: two browsers, two emitters, three events, buffers of one, so that they
  overflow.

What each property sets aside is part of its statement: `recounted` payloads
(an operator's count sets "replenishing" without an order), `logErrors` (rows of
the changeover log that were not written, reads of it that failed), `unkept`
messages, a core that is not `listening` or whose `link` is not up,
`spoilt` setups (a lagging cache, a failed call, two admins at one point),
`unfresh` nodes, runs that are not `calm`, `disputed` items, `mishaps` of the
Kafka client. Each of these names a way in which the code does lose the
property; TLC finds it when the exception is dropped.

Fairness. `ProtocolFairness`: the drainers tick (`Drainer`), the readers read and
handle; nothing of operators, robots, faults. The edge's reader connects again
after every error (`shingo-edge/messaging/client.go:94`), so it can be relied on;
core's can only as long as there is one, for its goroutine returns with the first
error (`shingo-core/messaging/client.go:157`). Fairness on reading is therefore
weak on an action that a `link` that is not up disables, and nothing makes
anybody save the settings. `SentIsRead` says what then remains: a message is read,
or its ten attempts failed, or no broker kept it, or core is cut off from
some point on. `RegistryFairness`: a stopped edge comes back, its goroutine sends,
core reads while it listens, and its ticker ticks. `KnownEdgeRecovers` holds unless core
stays without a reader; when one comes back, so does the edge. `FeedFairness`: the
scheduler runs the loop and a request that waits for it. In `links` fairness is
asked of the module in focus only. `services` has no liveness property.

`CHECK_DEADLOCK FALSE` there too: bounded inputs come to an end.

### What the runs found

* `core_finding_release`: when the *fleet* fails or stops an order, core never
  releases the claim. `OnlyFleetFailureLeaks` shows that, short of crashes,
  redirects and terminations, nothing else leaks one.
* `core_finding_redirect`: a redirect is never written to the order, so a
  receipt books the bin at the old node.
* `core_finding_two_robots`: a repeated request makes a second order under the
  same UUID; the receipt for the first confirms the second: its bin is booked as
  if it had arrived (`BookedWhereDelivered` fails too), and while it is under way
  it is sourced again.

* `feed_finding_stall`: the stall timer of the WarLink stream
  (`plc/sse.go:145`, "reconnecting") cancels the context, `sseConnect` takes that
  for a clean stop, and `sseLoop` returns: nobody reconnects, and WarLink stays
  shown as connected until the settings are saved. `LostIsRetried` shows that
  every other loss is retried.

Other ways to lose an invariant of core's orders, each tried with TLC by
widening `Inputs` or `Faults` in a configuration: `terminate` (the web request
reads the row before the fleet id is recorded, writes cancelled over dispatched,
and a later cancel then skips the fleet but releases the claim) and
`cancel_error` both break `OneRobotPerPayload`; two redirects around a poll
break it too, since the poller writes the former fleet id back; a redirect
breaks `DispatchedIsTracked` the same way; a create call whose answer is lost
(`create_reply_lost`) or a `crash` breaks `OneRobotPerPayload`; `crash`,
`terminate`, `redirect` and a fleet that stops an order by itself break
`OnlyFleetFailureLeaks`; `crash` breaks `DeliveryIsTold`. Also to note: the edge
sends retrieve and move requests without a payload type
(`shingo-edge/orders/manager.go:70`), `wire-protocol.md:369` calls that field
optional, and `dispatcher.go:63` rejects such a request.

### What reading and modelling found besides

Tried with TLC by widening a configuration or dropping an exception, or read in
the code while it was modelled:

* Edge orders. With overlapping operations (`Overlaps = {"order"}`) `Lifecycle`
  fails: a reply and an abort both pass their check, and a cancelled order comes
  back. The request is enqueued before `submitted` is written, so a quick ack is
  refused and the order stays. A crash between insert and enqueue leaves a
  pending order nobody sends. Two web requests that work on one order at once
  can put its cancel into the outbox before its request: between the insert of
  the order and the row of its request the other one aborts it, core ignores
  the cancel of an order it does not know, and then serves the request, so that
  a robot runs for an order the edge shows as cancelled. `AbortStopsRobot` holds
  in `order_delivery` because its one goroutine of the web is not in two
  requests at a time. `order.update` changes nothing on the edge; an
  error reply to a redirect fails an order core goes on with.
* Stock. With `Overlaps = {"slot"}` a refill is lost to the counter loop's older
  copy. Any end of a retrieve order refills, which `engine/wiring.go:117` says
  only a confirmed one does.
* Counting. The delta of a jump is never applied, confirmed or not. A burst that
  passes the counter's end by more than the threshold is taken for a reset.
  `tryRollover` tries 16 bits first (`plc/counter.go:35`), so a 32-bit counter
  that wraps unseen from the 16-bit range is counted as a 16-bit one; the proof
  of `NoPartLost` asked for it, and TLC shows it with 7 parts on a counter of 6.
  A `last_count` that cannot be written counts twice. The reporter empties its
  accumulator before the report is queued.
* Messages. Core's writer sets no `RequiredAcks`
  (`messaging/client.go:78`): an outbox row may be acknowledged that no broker
  kept. Nothing keeps the order `docs/wire-protocol.md:37` asks for: messages
  carry no key, and a failed publish is skipped. Core's outbox has no limit of
  attempts, and a message's lifetime runs from its creation.
* Registry. Registering keeps the old `last_heartbeat`; an edge that never beat is
  never stale; a registration is given up after three attempts, and core then
  ignores that edge's heartbeats.
* WarLink. The backoff's shift overflows from attempt 35 on and the loop runs hot
  (`plc/sse.go:306`); an event older than the bootstrap poll is applied after it;
  a `Stop` between the check and the assignment of `sseCancel` is lost.
* Setup. A stale tag cache makes the edge believe that a tag is published; a
  style's update ignores a refused row; deleting a style leaves its points' tags.
* Changeover. Two operators who advance at once skip a state. `Restore` takes a
  log it cannot read for one without history (`changeover/machine.go:39`), so a
  restart, or the first look at a line, can forget a changeover in progress.
* Redis and scene. The driver of SQLite, the default, does not know
  `_foreign_keys` of the data source name (`store/store.go:32`), so a node is
  deleted under the payloads that refer to it; on Postgres it is not, and
  `engine.go:309` drops the error. Payload forms, claims, zone updates and node deletion do not
  refresh the copy, and nothing resynchronises when Redis comes back. An empty
  scene deletes every node, hand-made ones too. Zones are written back from an
  older list.
* Manifests. The change comes first and the log row second; a correction of a
  missing item is logged though nothing changed.
* Core's Kafka client. A reader's goroutine ends for good with its first error
  while `IsConnected` stays true, so that nothing shows it; a core that finds no
  broker when it starts (`cmd/shingocore/main.go:153`) has neither reader nor writer
  until somebody saves the settings. Until then the edges' messages wait unread and
  the edges go stale: without the exceptions of `SentIsRead` and
  `KnownEdgeRecovers` TLC shows both. Two saves at once leave a second reader.

## Proofs

Every theorem holds for all values of the constants that satisfy the module's
assumptions: any numbers of orders, bins, nodes, goroutines, messages, faults.
Each rests on an inductive invariant. Where a theorem
has a hypothesis, it leaves out something that the code allows and that breaks
the property; what breaks it is said with it.

### Core's orders

`CoreDispatchProofs`, with no hypothesis unless one is named:

* `TypeCorrect`: `TypeOK` is inductive; it says that every id points at an
  existing row or fleet order.
* `OneClaim` and `ClaimsNotStolen`: every action changes claims in one of three
  ways (`ClaimMove`): it releases an order's claims, it lets a *new* order claim
  one unclaimed payload, or it changes nothing. A new order's id is larger than
  any id in `claimedBy`, which is why `TypeOK` is the strengthening needed.
* `TrackedUnlessRedirected` (no redirects): `DispatchedIsTracked` is not
  inductive, for it would let a fleet order be recorded after the poller forgot
  it, or two orders share one. `FollowInv` adds what the code relies on: an
  order in the dispatcher's hand has no fleet order until it is recorded, fleet
  ids belong to one order each, the poller's copy agrees with the row as long as
  nobody redirects, a stopped process holds nothing.

`CoreReservationProofs`: each theorem excludes just what breaks it in the code,
which TLC showed one input or fault at a time (`core_finding_two_robots`,
`core_finding_redirect`, *What the runs found*). Orders, cancels and receipts
come as they like, and the fleet may reject, fail or finish what it wants.

* `OneRobot`, for a *calm* plant (`Calm`: requests are not repeated, redirected
  or terminated, core does not crash, no create answer gets lost, no cancel call
  fails): `OneRobotPerPayload` follows from `CargoInv`: what a robot under
  way fetches is claimed by the order it was sent for. To keep it, one must know
  that a claim ends only when its robot has stopped: `EndInv` says that an order
  that is over, or that the dispatcher cancels, has a fleet order that is over.
* `BookedRight`, without repeats and redirects, but with crashes, terminations
  and every failing call: the action property `BookedWhereDelivered`. `BookInv`
  says that a UUID has one row (`UuidInv`), that its robot goes where the row says
  (`RouteInv`), that a delivery was told, and a receipt taken, only when that
  robot arrived, and that what the poller has seen the end of has ended so.
* `FailureLeaks`, without redirects, terminations and crashes and with a fleet
  that stops no order of its own accord, but with repeats and every failing call
  (`Undisturbed`): `OnlyFleetFailureLeaks`. `LeakInv` tells apart how an order
  came to its end, wherever the poller stands meanwhile.

`CoreAnswerProofs`, without crashes (a crash loses the answer a handler was about
to give, and the end the poller had in hand); repeats, redirects, terminations
and lost calls are all in:

* `OrdersAnswered`: every row is answered or in the dispatcher's hand
  (`AnswerInv`), and a dispatch that has begun is not interrupted.
* `DeliveriesTrue`: `DeliveredIsTrue` counts messages. `TellInv` compares the
  deliveries told for a UUID with the arrived fleet orders that nobody watches,
  holds or is about to watch any more: telling one makes the poller let go of
  one. The counts are cardinalities, so that no recursive sum is needed.

### The edge

`EdgeOrderProofs` has the lemmas. A goroutine's `work` is the rest of one
operation, and `Program` says which statements can follow which; the operations
of `orders/manager.go` are programs, a program without its head is one, so each
goroutine works on one order (`WorkInv`). If operations on one order do not
overlap, the head's statement also fits that order's status and what was sent
of it (`OrderInv`).

`LineStockProofs`:

* `LineTyped`: types, whatever overlaps.
* `ReplenishingOrdered` (edits of one payload do not overlap): what the counter
  loop read of a row it has not written yet is still what the row holds
  (`Fresh`). The code does not ensure that, and a refill gets lost without it.
* `OrderedOnce` (nor operations on one order, and nobody orders a refill by
  hand): an active payload has no open order (`ActiveFree`), nor has the one the
  counter loop is about to order (`HandFree`, `Held`).
* `FollowsLifecycle` (operations on one order do not overlap): the refinement
  `LineSpec => Lifecycle`. Every step maps to a step of `OrderLifecycle` or to a
  stutter: a write to a transition, an enqueue to a message that its status
  calls for, everything else to nothing. With overlaps the code does not
  implement it (see above).

`OrderProtocolProofs`; the first three theorems have no hypothesis: any overlap,
loss, repetition, reordering and crash.

* `ProtocolTyped`: types of both sides, of the channels between them and of core's
  connection to Kafka (`LinkTypes`).
* `DeliveredReal`, `ReceiptFirst`: `RealInv` carries the reason along the
  statements: whoever is about to write "delivered" has read core's word
  (`HeadReal`), and whoever is about to write "confirmed" has enqueued the
  receipt. Both facts are stable: what was read stays read, what was enqueued
  stays in the outbox.
* `AbortHeeded`: `AbortStopsRobot`, if two requests of the web do not work on one
  order at a time (`InTurn`; with overlaps a cancel can precede its request, see
  *What reading and modelling found besides*). The property itself speaks of runs
  in which nothing failed, so the invariant `AbortInv` does too; as long as nothing
  has failed, core's link is up. Its parts: rows
  are published and read in the order they were enqueued (`Fifo`: what was read,
  what was posted and the drainer's batch are three stretches of one line); until
  core is asked for an order, the goroutine that creates it is the only one that
  can speak of it (`Unheard`); from then on nobody asks again, as a second
  submission of a store order fails its check (`AskedOnce`); core has at most one
  row of an order, and only of one it has read the request of, so the cancel finds
  it and its robot stops for good (`InCore`). Core's answers may overlap with
  everything: they are about orders that were asked for (`Heeded`).

### Links and services

`LinkProofs`:

* `HubToOpen`: whom the hub still has to reach is in the map, and a page in the
  map reads its channel, since both sides take it out under the write lock
  before they close it.
* `StaleSilent`: inductive with the types; only `UpdateStale` writes "stale".
* `ReadsOnce`: `OneReader`. Until a mishap at most one thread is between
  `Reconfigure`'s sections, and what it has done so far determines whether there
  is a connection and a reader (`Stage`).
* `FeedTells`: `EventsTellStatus`; listeners and manager agree in every state,
  except of WarLink itself while a poll's result is applied, where the listeners
  know what the loop read before (`Agreed`).
* `FeedIsCurrent`: `CacheIsCurrent` speaks of a stream read to its end. Its
  invariant follows each field of each PLC through the four places it can be in:
  the last event under way that tells it says the truth (`StreamRight`); if none
  does, the poll's list does (`ListRight`), and then the cache (`CacheRight`).

`ServiceProofs`, each about its component's own specification and with no
hypothesis beyond what the property sets aside:

* `ProducedLogged`, `NothingInvented`: `LoggedInv` and `CountedInv` add what a
  poll in hand has already counted and still has to count.
* `PartsKept`: `NoPartLost`. `DeltaExact` says that what `CalculateDelta` finds
  is what was made, unless it finds a reset: the smaller of two widths explains
  a wrap only if it is the counter's own. That is the half of `Kept` which the
  property lacks: a 32-bit counter seen in the 16-bit range has not passed its
  end since. The rest is arithmetic of remainders (`TurnedBy`).
* `TalliesMeet`: `TalliesAgree`. Each step takes parts from one term of the sum
  to the next, along both routes at once.
* Both speak of sums over sequences of any length, recorded jumps and reports
  under way. `SumOf` is a recursive function; that its partial sums exist and are
  determined is shown by the least length at which they would not be
  (`SumsExist`, `SumReached`), from which follow the sum of one more
  (`SumAppend`) and of one less (`SumTail`).
* `LogRemembers`, `LogTold`: `ChangeoverInv` covers both: the machine in memory
  is at the phase of the log's last row, so the next row continues it.
* `ManifestLogged`: `ManifestInv`; until an item is disputed at most one client
  is between its change and its log row.
* `PointsTagged`, `TagsWithdrawn`: `SetupInv`. The request under way accounts
  for what is not yet as it shall be: a point without its tag is about to get it
  (`Prepares`), a tag without its point is about to be withdrawn (`Withdraws`).
* `MovesCopied`: `CopyInv` says which writes to Redis the move under way has
  still to do (`ItemsToCome`, `CountToCome`); every other node's copy is right.
* `NodesSynced`: `SyncedNodes`. `Brought` says how far a calm guarded run has come:
  before it deletes, every location of its scene has its node or is on its list;
  before it writes zones, no other node is left; from then on every node has its
  zone or is on the list, and the list is what the table holds. Another guarded
  run cannot come between (`OneGuarded`), nor do the others touch a calm run's
  nodes; whoever does takes its calm (`NodesWritten`, `CalmLost`).
* `ServicesApart`: the run's specification implies the specification of each
  service (`FocusMoves`), so that the theorems above are about the run too.
  `ServicesTyped`: `ServicesTypeOK`, part by part from the invariants; that no node
  counts more payloads than there are takes an injection of its list into them
  (`CountsBounded`).
* `RingTold`: `RingInv`. Counted back from `pos`, place `k` of the ring holds the
  `k`-th last entry, with one turn's modulus spelled out (`PlaceBack`).

### What TLC alone says

Liveness (`FleetEndReachesOrder`, `DeliveryIsTold`, `SentIsRead`,
`KnownEdgeRecovers`, `LostIsRetried`): liveness under fairness is beyond the
prover. Every invariant and every action property of a run that finds no error
is proved, and so is the refinement `Lifecycle`.

## Plan

The models cover what was planned, and the proofs cover every safety property of
the runs, under hypotheses that the code needs. What would be of use next: the
liveness properties with a prover that knows ENABLED.

## Not modelled

* Postgres: what its foreign keys refuse, and statements of two connections at a
  time. The models are of SQLite, the default.
* HTTP and JSON wrappers of the fleet, SQL dialects, schemas and row scanning,
  HTML, templates and sessions, configuration files and process start. They keep
  no concurrent state of their own, or only present what the modelled parts keep.
* The bench tool for test orders (`www/handlers_test_orders.go`): its direct
  orders bypass the dispatcher, its robot commands have a table of their own.
* Where stock is put: any eligible node may be chosen in `CoreDispatch`, so how
  full a node gets (`store/payloads.go:180` counts what is there, not what is on
  its way) has no counterpart.
* Creating and deleting a line's payloads and their multiplier; health alerts;
  two saves of the WarLink settings at once; the length of the backoff; core's
  connection flags (`checkConnectionStatus`), which two goroutines write without
  a lock.
* The purge of outbox rows that are sent or given up: nothing reads them again.
