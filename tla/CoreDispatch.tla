---------------------------- MODULE CoreDispatch ----------------------------
(***************************************************************************)
(* The order life cycle of shingo-core: the dispatcher that turns edge     *)
(* messages into fleet orders and payload reservations, the poller that    *)
(* follows the fleet, the engine that folds fleet events into the orders   *)
(* table, and the web terminate button.                                    *)
(*                                                                         *)
(* Three goroutines touch the same rows without a transaction around them: *)
(*   - the Kafka reader runs one dispatcher handler at a time,             *)
(*   - the poller runs one poll cycle at a time and calls the engine       *)
(*     synchronously through the event bus,                                *)
(*   - every web request runs on its own.                                  *)
(* A handler is cut into several actions at the fleet's HTTP calls, between *)
(* the poller's read of an order and the writes it computes from it, and   *)
(* between writing an order's end and acting on it: there the others see a *)
(* half-done job, and there a crash leaves one.                            *)
(***************************************************************************)
EXTENDS Naturals, Sequences, FiniteSets

CONSTANTS
    Uuids,         \* order UUIDs the edges generate
    Types,         \* payload types registered in core
    Payloads,      \* rows of the payloads table
    TypeOf,        \* [Payloads -> Types], payload_type_id
    Available,     \* the payloads whose status is 'available'
    Names,         \* every node name a message may carry
    NoName,        \* the empty name
    Nodes,         \* the names that are rows of the nodes table
    Storage,       \* enabled nodes of type 'storage'
    Capacity,      \* [Storage -> Nat]
    StartAt,       \* [Payloads -> Nodes], where the payloads are at first
    Requests,      \* order.request messages the edges may send
    Waybills,      \* order.storage_waybill messages the edges may send
    NewDests,      \* destinations an order.redirect may name
    Inputs,        \* the kinds of stimuli that happen in this instance
    FleetStates,   \* the states the fleet may report in this instance
    Faults,        \* the faults of the fleet API that happen
    MaxInputs      \* bound on messages, clicks and crashes

FleetState == {"CREATED", "TOBEDISPATCHED", "RUNNING", "WAITING",
               "FINISHED", "FAILED", "STOPPED"}

Status == {"pending", "sourcing", "dispatched", "in_transit", "delivered",
           "confirmed", "failed", "cancelled"}

TerminalStatus == {"confirmed", "failed", "cancelled"}

\* OrderRequest and OrderStorageWaybill
Request == [uuid: Uuids, type: STRING, code: STRING, pickup: Names, dest: Names]

ASSUME CoreAssumption ==
    /\ MaxInputs \in Nat
    /\ NoName \in Names
    /\ Nodes \subseteq Names \ {NoName}
    /\ Storage \subseteq Nodes
    /\ Capacity \in [Storage -> Nat]
    /\ TypeOf \in [Payloads -> Types]
    /\ StartAt \in [Payloads -> Nodes]
    /\ Available \subseteq Payloads
    /\ NewDests \subseteq Names
    /\ FleetStates \subseteq FleetState
    /\ Inputs \subseteq {"request", "storage_waybill", "repeat", "cancel",
                         "receipt", "redirect", "terminate", "crash"}
    /\ Faults \subseteq {"create_rejected", "create_reply_lost", "cancel_error"}
    /\ \A m \in Requests \cup Waybills : m \in Request

VARIABLES
    orders,        \* rows of the orders table, by id
    claimedBy,     \* payloads.claimed_by, 0 for NULL
    location,      \* payloads.node_id
    fleetOrders,   \* the transport orders the fleet knows, by number
    active,        \* Poller.active: last state seen, by fleet order
    dispatcher,    \* where the Kafka reader's goroutine stands
    poller,        \* where the poller's goroutine stands
    web,           \* the order whose terminate request is being served, or 0
    outbox,        \* per order UUID, the kinds of messages enqueued for its edge
    up,            \* whether the core process runs
    inputs         \* stimuli so far, bounded by MaxInputs

vars == <<orders, claimedBy, location, fleetOrders, active, dispatcher,
          poller, web, outbox, up, inputs>>

stock == <<claimedBy, location>>

-----------------------------------------------------------------------------
(* The fleet's states and what core makes of them.                         *)

IsTerminal(s) == s \in {"FINISHED", "FAILED", "STOPPED"}

\* Deviation: a stopped order is taken for a finished one.
MapStateStopIsEnd(s) ==
    CASE s = "RUNNING"                 -> "in_transit"
      [] s \in {"FINISHED", "STOPPED"} -> "delivered"
      [] s = "FAILED"                  -> "failed"
      [] OTHER                         -> "dispatched"

MapState(s) ==
    CASE s = "RUNNING"  -> "in_transit"
      [] s = "FINISHED" -> "delivered"
      [] s = "FAILED"   -> "failed"
      [] s = "STOPPED"  -> "cancelled"
      [] OTHER          -> "dispatched"

\* The order in which the fleet goes through its states: never back.
Rank == [s \in FleetState |->
            CASE s = "CREATED" -> 0 [] s = "TOBEDISPATCHED" -> 1
              [] s = "RUNNING" -> 2 [] s = "WAITING" -> 3 [] OTHER -> 4]

-----------------------------------------------------------------------------
Idle == [pc |-> "idle", order |-> 0, src |-> NoName, dst |-> NoName,
         vendor |-> 0]

PollIdle == [pc |-> "idle", vendor |-> 0, state |-> "CREATED",
             vehicle |-> FALSE, order |-> 0, status |-> "pending",
             robot |-> FALSE, snapVendor |-> 0]

Init ==
    /\ orders = <<>>
    /\ claimedBy = [p \in Payloads |-> 0]
    /\ location = StartAt
    /\ fleetOrders = <<>>
    /\ active = [v \in {} |-> "CREATED"]
    /\ dispatcher = Idle
    /\ poller = PollIdle
    /\ web = 0
    /\ outbox = [u \in Uuids |-> <<>>]
    /\ up = TRUE
    /\ inputs = 0

TakeInput(kind) ==
    /\ kind \in Inputs
    /\ inputs < MaxInputs
    /\ inputs' = inputs + 1

\* A handler starts when the Kafka reader is free.
Receive(kind) == up /\ dispatcher.pc = "idle" /\ TakeInput(kind)

Enqueue(u, kinds) == outbox' = [outbox EXCEPT ![u] = @ \o kinds]

\* GetOrderByUUID: the newest row, since edge_uuid is not unique.
ByUuid(u) == {o \in DOMAIN orders :
                /\ orders[o].uuid = u
                /\ \A q \in DOMAIN orders : orders[q].uuid = u => q <= o}

NewOrder(m, status, pickup, dest) ==
    [uuid |-> m.uuid, type |-> m.type, status |-> status, pickup |-> pickup,
     dest |-> dest, vendor |-> 0, robot |-> FALSE]

\* unclaimOrderPayloads
Unclaimed(o) == [p \in Payloads |-> IF claimedBy[p] = o THEN 0 ELSE claimedBy[p]]

\* The fleet after a terminate call: a finished order stays as it is, and
\* the call itself may fail, which every caller only logs or ignores.
TerminatedNever(v) == {fleetOrders}  \* Deviation: the call is forgotten.

Terminated(v) ==
    {[w \in DOMAIN fleetOrders |->
        IF w = v /\ ~IsTerminal(fleetOrders[w].state)
        THEN [fleetOrders[w] EXCEPT !.state = "STOPPED"]
        ELSE fleetOrders[w]]}
      \cup (IF "cancel_error" \in Faults THEN {fleetOrders} ELSE {})

-----------------------------------------------------------------------------
(* HandleOrderRequest, up to the call that creates the fleet order.        *)

\* sendError before any row exists: unknown payload type or delivery node.
RejectRequest(m) ==
    /\ \/ m.code \notin Types
       \/ m.dest # NoName /\ m.dest \notin Nodes
    /\ Enqueue(m.uuid, <<"error">>)
    /\ UNCHANGED <<orders, stock, dispatcher>>

\* failOrder on an order that has no fleet order yet.
FailNew(m, pickup, dest) ==
    /\ orders' = Append(orders, NewOrder(m, "failed", pickup, dest))
    /\ Enqueue(m.uuid, <<"error">>)
    /\ UNCHANGED <<stock, dispatcher>>

\* The order is in "sourcing", its payload is claimed, the fleet call is next.
SourceNew(m, pickup, dest, claimed) ==
    LET id == Len(orders) + 1 IN
    /\ orders' = Append(orders, NewOrder(m, "sourcing", pickup, dest))
    /\ claimedBy' = [p \in Payloads |-> IF p \in claimed THEN id ELSE claimedBy[p]]
    /\ dispatcher' = [pc |-> "create", order |-> id, src |-> pickup,
                      dst |-> dest, vendor |-> 0]
    /\ UNCHANGED <<location, outbox>>

\* FindSourcePayloadFIFO: which of the eligible payloads is the oldest is data.
RetrieveSources(code) ==
    {p \in Available : /\ TypeOf[p] = code
                       /\ location[p] \in Storage
                       /\ claimedBy[p] = 0}

HandleRetrieve(m) ==
    \/ RetrieveSources(m.code) = {} /\ FailNew(m, m.pickup, m.dest)
    \/ \E p \in RetrieveSources(m.code) :
         IF m.dest \in Nodes
         THEN SourceNew(m, location[p], m.dest, {p})
         ELSE FailNew(m, location[p], m.dest)

\* Deviation: the claim of another order is not looked at.
MoveSourcesAny(m) ==
    {p \in Payloads : TypeOf[p] = m.code /\ location[p] = m.pickup}

MoveSources(m) ==
    {p \in Payloads : /\ TypeOf[p] = m.code
                      /\ location[p] = m.pickup
                      /\ claimedBy[p] = 0}

\* The loop stops at the first payload it has claimed.
ClaimEvery(S) == {S} \ {{}}   \* Deviation: the loop has no break.

ClaimFirst(S) == {{p} : p \in S}

HandleMove(m) ==
    \/ /\ m.pickup \notin Nodes \/ MoveSources(m) = {}
       /\ FailNew(m, m.pickup, m.dest)
    \/ /\ m.pickup \in Nodes
       /\ \E claimed \in ClaimFirst(MoveSources(m)) :
            IF m.dest \in Nodes
            THEN SourceNew(m, m.pickup, m.dest, claimed)
            ELSE FailNew(m, m.pickup, m.dest)

\* FindStorageDestinationForPayload: only payloads that are already there
\* count against the capacity.
StorageDestinations ==
    {n \in Storage : Cardinality({p \in Payloads : location[p] = n}) < Capacity[n]}

\* A store order claims nothing; without a pickup it starts at its own
\* destination, which has been overwritten by then.
HandleStore(m) ==
    \/ StorageDestinations = {} /\ FailNew(m, m.pickup, m.dest)
    \/ \E n \in StorageDestinations :
         CASE m.pickup = NoName     -> SourceNew(m, n, n, {})
           [] m.pickup \in Nodes    -> SourceNew(m, m.pickup, n, {})
           [] OTHER                 -> FailNew(m, m.pickup, n)

AcceptRequest(m) ==
    /\ m.code \in Types
    /\ m.dest = NoName \/ m.dest \in Nodes
    /\ \/ m.type = "retrieve" /\ HandleRetrieve(m)
       \/ m.type = "move" /\ HandleMove(m)
       \/ m.type = "store" /\ HandleStore(m)
       \/ m.type \notin {"retrieve", "move", "store"}
          /\ FailNew(m, m.pickup, m.dest)

\* An edge sends each request once; its outbox and the broker may repeat it.
NewOrRepeated(m) ==
    \/ ByUuid(m.uuid) = {}
    \/ /\ "repeat" \in Inputs
       /\ \E o \in ByUuid(m.uuid) :
            /\ orders[o].type = m.type
            /\ m.type = "store" \/ orders[o].dest = m.dest

HandleOrderRequest(m) ==
    /\ Receive("request")
    /\ NewOrRepeated(m)
    /\ RejectRequest(m) \/ AcceptRequest(m)
    /\ UNCHANGED <<fleetOrders, active, poller, web, up>>

HandleOrderStorageWaybill(m) ==
    /\ Receive("storage_waybill")
    /\ NewOrRepeated(m)
    /\ HandleStore(m)
    /\ UNCHANGED <<fleetOrders, active, poller, web, up>>

-----------------------------------------------------------------------------
(* dispatchToFleet: the HTTP call, the two writes and the tracker, the ack. *)

\* The payload that stands reserved for the order when its robot is sent:
\* what the robot will fetch.
Cargo(o) == {p \in Payloads : claimedBy[p] = o}

FleetOrder == [state |-> "CREATED", vehicle |-> FALSE,
               to |-> dispatcher.dst, cargo |-> Cargo(dispatcher.order)]

\* Deviation: the edge is not told.
FailOrderSilently(o) ==
    /\ orders' = [orders EXCEPT ![o].status = "failed"]
    /\ claimedBy' = Unclaimed(o)
    /\ dispatcher' = Idle
    /\ UNCHANGED outbox

FailOrder(o) ==
    /\ orders' = [orders EXCEPT ![o].status = "failed"]
    /\ claimedBy' = Unclaimed(o)
    /\ Enqueue(orders[o].uuid, <<"error">>)
    /\ dispatcher' = Idle

CreateTransportOrder ==
    /\ up /\ dispatcher.pc = "create"
    /\ \/ /\ fleetOrders' = Append(fleetOrders, FleetOrder)
          /\ dispatcher' = [dispatcher EXCEPT !.pc = "record",
                                              !.vendor = Len(fleetOrders) + 1]
          /\ UNCHANGED <<orders, claimedBy, outbox>>
       \/ /\ "create_rejected" \in Faults
          /\ FailOrder(dispatcher.order)
          /\ UNCHANGED fleetOrders
       \* the fleet accepted the order, the answer timed out
       \/ /\ "create_reply_lost" \in Faults
          /\ FailOrder(dispatcher.order)
          /\ fleetOrders' = Append(fleetOrders, FleetOrder)
    /\ UNCHANGED <<location, active, poller, web, up, inputs>>

\* Poller.Track keeps the state of an id that is already there.
Track(ids) == active' = [v \in DOMAIN active \cup ids |->
                            IF v \in DOMAIN active THEN active[v] ELSE "CREATED"]

\* UpdateOrderVendor, UpdateOrderStatus and EmitOrderDispatched. The engine's
\* subscriber means to untrack a redirected order's old fleet order, but reads
\* the row after UpdateOrderVendor and finds the new one there.
RecordDispatch ==
    /\ up /\ dispatcher.pc = "record"
    /\ orders' = [orders EXCEPT ![dispatcher.order].vendor = dispatcher.vendor,
                                ![dispatcher.order].robot = FALSE,
                                ![dispatcher.order].status = "dispatched"]
    /\ Track({dispatcher.vendor})
    /\ dispatcher' = [dispatcher EXCEPT !.pc = "ack"]
    /\ UNCHANGED <<stock, fleetOrders, poller, web, outbox, up, inputs>>

SendAck ==
    /\ up /\ dispatcher.pc = "ack"
    /\ Enqueue(orders[dispatcher.order].uuid, <<"ack">>)
    /\ dispatcher' = Idle
    /\ UNCHANGED <<orders, stock, fleetOrders, active, poller, web, up, inputs>>

-----------------------------------------------------------------------------
(* The other dispatcher handlers.                                          *)

\* A message about an order core does not know is logged and dropped.
DropUnknown(kind, u) ==
    /\ Receive(kind)
    /\ ByUuid(u) = {}
    /\ UNCHANGED <<orders, stock, fleetOrders, active, dispatcher, poller, web,
                   outbox, up>>

\* The fleet is told first...
HandleOrderCancel(u) ==
    /\ Receive("cancel")
    /\ \E o \in ByUuid(u) :
         /\ IF orders[o].vendor # 0 /\ orders[o].status \notin TerminalStatus
            THEN fleetOrders' \in Terminated(orders[o].vendor)
            ELSE UNCHANGED fleetOrders
         /\ dispatcher' = [Idle EXCEPT !.pc = "cancel", !.order = o]
    /\ UNCHANGED <<orders, stock, active, poller, web, outbox, up>>

\* ...then the claim goes, whatever became of the order meanwhile.
CancelOrder ==
    /\ up /\ dispatcher.pc = "cancel"
    /\ claimedBy' = Unclaimed(dispatcher.order)
    /\ orders' = [orders EXCEPT ![dispatcher.order].status = "cancelled"]
    /\ Enqueue(orders[dispatcher.order].uuid, <<"cancelled">>)
    /\ dispatcher' = Idle
    /\ UNCHANGED <<location, fleetOrders, active, poller, web, up, inputs>>

\* handleOrderCompleted: the claimed payloads are booked at the order's
\* delivery node and released.
HandleOrderCompletedKeep(o) ==  \* Deviation: the claim is kept.
    /\ location' = [p \in Payloads |->
                       IF claimedBy[p] = o THEN orders[o].dest ELSE location[p]]
    /\ UNCHANGED claimedBy

HandleOrderCompletedAll(o) ==  \* Deviation: every claimed payload is booked.
    /\ location' = [p \in Payloads |->
                       IF claimedBy[p] # 0 THEN orders[o].dest ELSE location[p]]
    /\ claimedBy' = Unclaimed(o)

HandleOrderCompleted(o) ==
    IF orders[o].pickup = NoName \/ orders[o].dest \notin Nodes
    THEN UNCHANGED stock
    ELSE /\ location' = [p \in Payloads |->
                            IF claimedBy[p] = o THEN orders[o].dest ELSE location[p]]
         /\ claimedBy' = Unclaimed(o)

\* An edge confirms an order only after it was told of the delivery.
HandleOrderReceipt(u) ==
    /\ \E i \in DOMAIN outbox[u] : outbox[u][i] = "delivered"
    /\ Receive("receipt")
    /\ \E o \in ByUuid(u) :
         /\ orders' = [orders EXCEPT ![o].status = "confirmed"]
         /\ dispatcher' = [Idle EXCEPT !.pc = "receipt", !.order = o]
    /\ UNCHANGED <<stock, fleetOrders, active, poller, web, outbox, up>>

CompleteOrder ==
    /\ up /\ dispatcher.pc = "receipt"
    /\ HandleOrderCompleted(dispatcher.order)
    /\ dispatcher' = Idle
    /\ UNCHANGED <<orders, fleetOrders, active, poller, web, outbox, up, inputs>>

\* The fleet order is terminated before the destination is looked up...
HandleOrderRedirect(u, newDest) ==
    /\ Receive("redirect")
    /\ \E o \in ByUuid(u) :
         /\ IF orders[o].vendor # 0
            THEN fleetOrders' \in Terminated(orders[o].vendor)
            ELSE UNCHANGED fleetOrders
         /\ dispatcher' = [Idle EXCEPT !.pc = "redirect", !.order = o, !.dst = newDest]
    /\ UNCHANGED <<orders, stock, active, poller, web, outbox, up>>

\* ...and the new destination goes to the fleet but never to the orders table.
RedirectOrder ==
    /\ up /\ dispatcher.pc = "redirect"
    /\ LET o == dispatcher.order IN
         IF dispatcher.dst \in Nodes /\ orders[o].pickup \in Nodes
         THEN /\ orders' = [orders EXCEPT ![o].status = "sourcing"]
              /\ dispatcher' = [dispatcher EXCEPT !.pc = "create",
                                                  !.src = orders[o].pickup]
              /\ UNCHANGED outbox
         ELSE /\ Enqueue(orders[o].uuid, <<"error">>)
              /\ dispatcher' = Idle
              /\ UNCHANGED orders
    /\ UNCHANGED <<stock, fleetOrders, active, poller, web, up, inputs>>

\* The terminate button of the order page (apiTerminateOrder), for any order,
\* on the goroutine of its web request.
TerminateOrder(o) ==
    /\ up /\ web = 0
    /\ TakeInput("terminate")
    /\ IF orders[o].vendor # 0
       THEN fleetOrders' \in Terminated(orders[o].vendor)
       ELSE UNCHANGED fleetOrders
    /\ web' = o
    /\ UNCHANGED <<orders, stock, active, dispatcher, poller, outbox, up>>

TerminateWrite ==
    /\ up /\ web # 0
    /\ orders' = [orders EXCEPT ![web].status = "cancelled"]
    /\ web' = 0
    /\ UNCHANGED <<stock, fleetOrders, active, dispatcher, poller, outbox, up, inputs>>

-----------------------------------------------------------------------------
(* The fleet (external) and the poller.                                    *)

\* A robot is assigned, and the order goes on; moving takes a robot.
FleetProgress(v) ==
    /\ ~IsTerminal(fleetOrders[v].state)
    /\ \E s \in FleetStates, robot \in BOOLEAN :
         /\ Rank[s] > Rank[fleetOrders[v].state]
         /\ fleetOrders[v].vehicle => robot
         /\ s \in {"RUNNING", "WAITING", "FINISHED"} => robot
         /\ fleetOrders' = [fleetOrders EXCEPT ![v].state = s, ![v].vehicle = robot]
    /\ UNCHANGED <<orders, stock, active, dispatcher, poller, web, outbox, up, inputs>>

\* poll(): a state that differs from the last one seen. The poller forgets a
\* finished order here, before anyone has acted on the news.
WithoutFinishedNever(v) == [active EXCEPT ![v] = fleetOrders[v].state] \* Deviation

WithoutFinished(v) ==
    IF IsTerminal(fleetOrders[v].state)
    THEN [w \in DOMAIN active \ {v} |-> active[w]]
    ELSE [active EXCEPT ![v] = fleetOrders[v].state]

PollObserve(v) ==
    /\ up /\ poller.pc = "idle"
    /\ v \in DOMAIN active
    /\ fleetOrders[v].state # active[v]
    /\ active' = WithoutFinished(v)
    /\ poller' = [PollIdle EXCEPT !.pc = "resolve", !.vendor = v,
                                  !.state = fleetOrders[v].state,
                                  !.vehicle = fleetOrders[v].vehicle]
    /\ UNCHANGED <<orders, stock, fleetOrders, dispatcher, web, outbox, up,
                   inputs>>

\* ResolveRDSOrderID: an order that no longer carries this id loses the event.
PollResolve ==
    /\ up /\ poller.pc = "resolve"
    /\ \/ /\ \A o \in DOMAIN orders : orders[o].vendor # poller.vendor
          /\ poller' = PollIdle
       \/ \E o \in DOMAIN orders :
            /\ orders[o].vendor = poller.vendor
            /\ poller' = [poller EXCEPT !.pc = "snapshot", !.order = o]
    /\ UNCHANGED <<orders, stock, fleetOrders, active, dispatcher, web, outbox,
                   up, inputs>>

\* handleVendorStatusChange reads the order once...
PollSnapshot ==
    /\ up /\ poller.pc = "snapshot"
    /\ poller' = [poller EXCEPT !.pc = "write",
                                !.status = orders[poller.order].status,
                                !.robot = orders[poller.order].robot,
                                !.snapVendor = orders[poller.order].vendor]
    /\ UNCHANGED <<orders, stock, fleetOrders, active, dispatcher, web, outbox,
                   up, inputs>>

NewRobot == poller.vehicle /\ ~poller.robot

StatusChanged == MapState(poller.state) # poller.status

SettlesUnhappy == StatusChanged /\ poller.state \in {"FAILED", "STOPPED"} \* Deviation

Settles == StatusChanged /\ IsTerminal(poller.state)

\* ...and writes what it computed from that copy, whatever the row says now.
PollWrite ==
    /\ up /\ poller.pc = "write"
    /\ Enqueue(orders[poller.order].uuid,
               (IF NewRobot THEN <<"waybill">> ELSE <<>>)
                 \o (IF StatusChanged THEN <<"update">> ELSE <<>>))
    /\ orders' = IF StatusChanged
                 THEN [orders EXCEPT ![poller.order].status = MapState(poller.state),
                                     ![poller.order].vendor = poller.snapVendor,
                                     ![poller.order].robot = poller.vehicle]
                 ELSE IF NewRobot
                 THEN [orders EXCEPT ![poller.order].vendor = poller.snapVendor,
                                     ![poller.order].robot = TRUE]
                 ELSE orders
    /\ poller' = IF Settles
                 THEN [poller EXCEPT !.pc = "settle"]
                 ELSE PollIdle
    /\ UNCHANGED <<stock, fleetOrders, active, dispatcher, web, up, inputs>>

\* The terminal branch writes the status once more; only a delivery is told to
\* the edge, and no claim is released.
PollSettle ==
    /\ up /\ poller.pc = "settle"
    /\ orders' = [orders EXCEPT ![poller.order].status = MapState(poller.state)]
    /\ Enqueue(orders[poller.order].uuid,
               IF MapState(poller.state) = "delivered" THEN <<"delivered">> ELSE <<>>)
    /\ poller' = PollIdle
    /\ UNCHANGED <<stock, fleetOrders, active, dispatcher, web, up, inputs>>

-----------------------------------------------------------------------------
(* The process dies, with the memory of its goroutines, and starts again.  *)

Crash ==
    /\ up /\ TakeInput("crash")
    /\ up' = FALSE
    /\ dispatcher' = Idle
    /\ poller' = PollIdle
    /\ web' = 0
    /\ active' = [v \in {} |-> "CREATED"]
    /\ UNCHANGED <<orders, stock, fleetOrders, outbox>>

\* loadActiveOrders tracks what ListDispatchedVendorOrderIDs returns.
VendorIdsOf(statuses) ==
    {orders[o].vendor : o \in {q \in DOMAIN orders : /\ orders[q].vendor # 0
                                                    /\ orders[q].status \in statuses}}

DispatchedVendorIDsNew == VendorIdsOf({"dispatched"})  \* Deviation: not in_transit.

DispatchedVendorIDs == VendorIdsOf({"dispatched", "in_transit"})

Start ==
    /\ ~up
    /\ up' = TRUE
    /\ Track(DispatchedVendorIDs)
    /\ UNCHANGED <<orders, stock, fleetOrders, dispatcher, poller, web, outbox, inputs>>

-----------------------------------------------------------------------------
Next ==
    \/ \E m \in Requests : HandleOrderRequest(m)
    \/ \E m \in Waybills : HandleOrderStorageWaybill(m)
    \/ CreateTransportOrder
    \/ RecordDispatch
    \/ SendAck
    \/ CancelOrder
    \/ CompleteOrder
    \/ RedirectOrder
    \/ \E u \in Uuids :
         \/ HandleOrderCancel(u)
         \/ HandleOrderReceipt(u)
         \/ \E d \in NewDests : HandleOrderRedirect(u, d)
         \/ \E kind \in {"cancel", "receipt", "redirect"} : DropUnknown(kind, u)
    \/ \E o \in DOMAIN orders : TerminateOrder(o)
    \/ TerminateWrite
    \/ \E v \in DOMAIN fleetOrders : FleetProgress(v) \/ PollObserve(v)
    \/ PollResolve
    \/ PollSnapshot
    \/ PollWrite
    \/ PollSettle
    \/ Crash
    \/ Start

Spec == Init /\ [][Next]_vars

(***************************************************************************)
(* The goroutines are scheduled: a handler that has begun runs on, the     *)
(* poll cycle visits every tracked order again and again, and the process  *)
(* is started again.  Nothing is assumed of messages, people or the fleet. *)
(***************************************************************************)
FairSpec ==
    /\ Spec
    /\ WF_vars(CreateTransportOrder) /\ WF_vars(RecordDispatch) /\ WF_vars(SendAck)
    /\ WF_vars(CancelOrder) /\ WF_vars(CompleteOrder) /\ WF_vars(RedirectOrder)
    /\ WF_vars(TerminateWrite)
    /\ \A v \in 1..MaxInputs : SF_vars(v \in DOMAIN fleetOrders /\ PollObserve(v))
    /\ WF_vars(PollResolve) /\ WF_vars(PollSnapshot)
    /\ WF_vars(PollWrite) /\ WF_vars(PollSettle)
    /\ WF_vars(Start)

-----------------------------------------------------------------------------
(* Types.                                                                  *)

Order == [uuid: Uuids, type: STRING, status: Status, pickup: Names,
          dest: Names, vendor: Nat, robot: BOOLEAN]

Transport == [state: FleetState, vehicle: BOOLEAN, to: Names,
              cargo: SUBSET Payloads]

MessageKind == {"ack", "waybill", "update", "delivered", "error", "cancelled"}

OrdersOK ==
    /\ orders \in Seq(Order)
    /\ \A o \in DOMAIN orders : orders[o].vendor \in 0 .. Len(fleetOrders)

StockOK ==
    /\ claimedBy \in [Payloads -> 0 .. Len(orders)]
    /\ location \in [Payloads -> Nodes]

FleetOK ==
    /\ fleetOrders \in Seq(Transport)
    /\ DOMAIN active \subseteq DOMAIN fleetOrders
    /\ active \in [DOMAIN active -> {s \in FleetState : ~IsTerminal(s)}]

DispatcherPc == {"idle", "create", "record", "ack", "cancel", "receipt", "redirect"}

DispatcherOK ==
    /\ dispatcher \in [pc: DispatcherPc, order: Nat, src: Names, dst: Names,
                       vendor: Nat]
    /\ dispatcher.pc # "idle" => dispatcher.order \in DOMAIN orders
    /\ dispatcher.pc = "record" => dispatcher.vendor \in DOMAIN fleetOrders

PollerOK ==
    /\ poller \in [pc: {"idle", "resolve", "snapshot", "write", "settle"},
                   vendor: Nat, state: FleetState, vehicle: BOOLEAN,
                   order: Nat, status: Status, robot: BOOLEAN, snapVendor: Nat]
    /\ poller.pc \in {"snapshot", "write", "settle"} => poller.order \in DOMAIN orders
    /\ poller.snapVendor \in 0 .. Len(fleetOrders)

\* Every row, every goroutine and the fleet hold values of their types, no id
\* points at a row that was never inserted, and the poller never watches an
\* order whose end it has seen.
TypeOK ==
    /\ OrdersOK
    /\ StockOK
    /\ FleetOK
    /\ DispatcherOK
    /\ PollerOK
    /\ web \in {0} \cup DOMAIN orders
    /\ outbox \in [Uuids -> Seq(MessageKind)]
    /\ up \in BOOLEAN
    /\ inputs \in 0 .. MaxInputs

-----------------------------------------------------------------------------
(* Reservations.                                                           *)

\* The dispatcher is at work on an order.
InHand(o) == dispatcher.pc # "idle" /\ dispatcher.order = o

\* No order ever holds two payloads: not when its request is sent twice, not
\* when it is redirected, not when its order is sourced while another fails.
OneClaimPerOrder ==
    \A p, q \in Payloads : claimedBy[p] = claimedBy[q] /\ claimedBy[p] # 0 => p = q

\* A reservation passes from one order to another only through a release:
\* ClaimPayload overwrites whatever claim is there, so this rests on every
\* sourcing path filtering on claimed_by.
ClaimNotStolen ==
    [][\A p \in Payloads : claimedBy[p] # 0 => claimedBy'[p] \in {0, claimedBy[p]}]_claimedBy

\* Two robots are never on their way for the same payload, whatever requests,
\* cancellations, terminations and fleet failures happen: what ClaimPayload is
\* for, "to prevent double-dispatch".
OneRobotPerPayload ==
    \A v, w \in DOMAIN fleetOrders :
        /\ v # w
        /\ ~IsTerminal(fleetOrders[v].state) /\ ~IsTerminal(fleetOrders[w].state)
        => fleetOrders[v].cargo \cap fleetOrders[w].cargo = {}

\* An order that is over, and that the dispatcher is done with, holds no payload,
\* so that its payload can be sourced again.
Released(o) == orders[o].status \in TerminalStatus => Cargo(o) = {} \/ InHand(o)

ClaimReleased == \A o \in DOMAIN orders : Released(o)

\* Cancellations, receipts and failed dispatches do release their claims: what
\* leaks one is the fleet giving an order up, and nothing else in this run.
FleetGaveUp(o) == /\ orders[o].vendor # 0
                  /\ fleetOrders[orders[o].vendor].state = "FAILED"

OnlyFleetFailureLeaks == \A o \in DOMAIN orders : Released(o) \/ FleetGaveUp(o)

\* When a receipt books a payload at its new node, that is the node to which
\* the fleet took it: the robot of the order that claims it has arrived there.
BookedWhereDelivered ==
    [][\A p \in Payloads :
          location'[p] # location[p] =>
            LET o == claimedBy[p] IN
            /\ o \in DOMAIN orders /\ orders[o].vendor # 0
            /\ fleetOrders[orders[o].vendor].state = "FINISHED"
            /\ location'[p] = fleetOrders[orders[o].vendor].to]_location

-----------------------------------------------------------------------------
(* What the edge is told.                                                  *)

Count(u, kind) == Cardinality({i \in DOMAIN outbox[u] : outbox[u][i] = kind})

\* Every order that is not being dispatched right now has been answered, with
\* an ack or with an error: no path out of a handler forgets the edge.
EveryOrderAnswered ==
    \A o \in DOMAIN orders :
        \/ InHand(o)
        \/ Count(orders[o].uuid, "ack") + Count(orders[o].uuid, "error") > 0

\* The edge is told of a delivery at most once for every transport that did
\* arrive, however polling, redirects and repeated requests interleave.
DeliveredIsTrue ==
    \A u \in Uuids :
        Count(u, "delivered") <=
            Cardinality({v \in DOMAIN fleetOrders : fleetOrders[v].state = "FINISHED"})

\* The edge learns of every delivery (the poller writes the status before it
\* enqueues the message).
DeliveryIsTold ==
    \A o \in 1..MaxInputs :
        (o \in DOMAIN orders /\ orders[o].status = "delivered")
        ~> (o \in DOMAIN orders /\ Count(orders[o].uuid, "delivered") > 0)

-----------------------------------------------------------------------------
(* Following the fleet.                                                    *)

WithFleet(o) == orders[o].vendor # 0 /\ orders[o].status \in {"dispatched", "in_transit"}

\* The poller watches the fleet order of every order that core believes to be
\* with the fleet, or has just seen its end and is about to act on it.
DispatchedIsTracked ==
    up => \A o \in DOMAIN orders : WithFleet(o) =>
             \/ orders[o].vendor \in DOMAIN active
             \/ poller.pc # "idle" /\ poller.vendor = orders[o].vendor

\* The end of a fleet order reaches the order it was made for, across crashes
\* that lose what the poller had in hand.
FleetEndReachesOrder ==
    \A v \in 1..MaxInputs :
        (v \in DOMAIN fleetOrders /\ IsTerminal(fleetOrders[v].state))
        ~> (\A o \in DOMAIN orders : orders[o].vendor = v => ~WithFleet(o))
=============================================================================
