------------------------ MODULE CoreReservationProofs ------------------------
(***************************************************************************)
(* What a reservation is worth, for every plant and every set of requests: *)
(* no two robots fetch one payload, a payload is booked where it was taken, *)
(* and a claim outlives its order only when the fleet gives the order up.  *)
(***************************************************************************)
EXTENDS CoreDispatchProofs, FiniteSetTheorems, WellFoundedInduction

-----------------------------------------------------------------------------
(* What a step never does.                                                 *)

\* A row keeps what its request said.
RouteKept(q) == /\ orders'[q].uuid = orders[q].uuid
                /\ orders'[q].pickup = orders[q].pickup
                /\ orders'[q].dest = orders[q].dest

\* A step that inserts no row writes only status, vendor id and robot.
RowsWritten == /\ DOMAIN orders' = DOMAIN orders
               /\ \A q \in DOMAIN orders : RouteKept(q)

\* A row that is replaced by one with the same route.
LEMMA RouteWritten ==
    ASSUME orders \in Seq(Order), NEW o \in DOMAIN orders, NEW row \in Order,
           row.uuid = orders[o].uuid, row.pickup = orders[o].pickup,
           row.dest = orders[o].dest, orders' = [orders EXCEPT ![o] = row]
    PROVE  RowsWritten
BY RowReplaced DEF RowsWritten, RouteKept

\* A write of the status column leaves the route of every row alone.
LEMMA RouteStatus ==
    ASSUME orders \in Seq(Order), NEW o \in DOMAIN orders, NEW st \in Status,
           orders' = [orders EXCEPT ![o].status = st]
    PROVE  RowsWritten
<1> DEFINE row == [orders[o] EXCEPT !.status = st]
<1>1. orders[o] \in Order
  BY OrderRow
<1>2. /\ row \in Order /\ row.uuid = orders[o].uuid /\ row.pickup = orders[o].pickup
      /\ row.dest = orders[o].dest
  BY <1>1 DEF Order
<1>3. orders' = [orders EXCEPT ![o] = row]
  OBVIOUS
<1> HIDE DEF row
<1>4. QED
  BY <1>2, <1>3, RouteWritten

\* What a request or a waybill comes to: it is turned down, with a failed row or
\* with none, or it is sourced, with one free payload between two nodes or with
\* no payload at all.
Refused(m) == \/ RejectRequest(m)
              \/ \E pickup, dest \in Names : FailNew(m, pickup, dest)

Sourced(m) ==
    \E pickup, dest \in Names : \E claimed :
        /\ SourceNew(m, pickup, dest, claimed)
        /\ \/ claimed = {}
           \/ /\ pickup \in Nodes /\ dest \in Nodes
              /\ \E p \in Payloads : claimedBy[p] = 0 /\ claimed = {p}

RequestMove(m) ==
    /\ up /\ dispatcher.pc = "idle" /\ NewOrRepeated(m)
    /\ Refused(m) \/ Sourced(m)
    /\ UNCHANGED <<fleetOrders, active, poller, web, up>>

\* A store request or storage waybill either fails or is sourced, with no claim.
LEMMA StoreEffect ==
    ASSUME NEW m \in Request, HandleStore(m)
    PROVE  Refused(m) \/ Sourced(m)
<1>1. m.pickup \in Names /\ m.dest \in Names
  BY DEF Request
<1>2. CASE FailNew(m, m.pickup, m.dest)
  BY <1>1, <1>2 DEF Refused
<1>3. ASSUME NEW n \in StorageDestinations,
             \/ SourceNew(m, n, n, {})
             \/ SourceNew(m, m.pickup, n, {})
             \/ FailNew(m, m.pickup, n)
      PROVE  Refused(m) \/ Sourced(m)
  <2>1. n \in Names
    BY CoreAssumption DEF StorageDestinations
  <2>2. QED
    BY <1>1, <1>3, <2>1 DEF Refused, Sourced
<1>4. QED
  BY <1>2, <1>3 DEF HandleStore

\* A retrieve request either fails or claims one free payload.
LEMMA RetrieveEffect ==
    ASSUME TypeOK, NEW m \in Request, HandleRetrieve(m)
    PROVE  Refused(m) \/ Sourced(m)
<1>1. m.pickup \in Names /\ m.dest \in Names
  BY DEF Request
<1>2. CASE FailNew(m, m.pickup, m.dest)
  BY <1>1, <1>2 DEF Refused
<1>3. ASSUME NEW p \in RetrieveSources(m.code),
             \/ m.dest \in Nodes /\ SourceNew(m, location[p], m.dest, {p})
             \/ FailNew(m, location[p], m.dest)
      PROVE  Refused(m) \/ Sourced(m)
  <2>1. /\ p \in Payloads /\ claimedBy[p] = 0 /\ location[p] \in Nodes
        /\ location[p] \in Names
    BY CoreAssumption DEF RetrieveSources
  <2>2. CASE FailNew(m, location[p], m.dest)
    BY <1>1, <2>1, <2>2 DEF Refused
  <2>3. CASE m.dest \in Nodes /\ SourceNew(m, location[p], m.dest, {p})
    BY <1>1, <2>1, <2>3 DEF Sourced
  <2>4. QED
    BY <1>3, <2>2, <2>3
<1>4. QED
  BY <1>2, <1>3 DEF HandleRetrieve

\* A move request either fails or claims one free payload.
LEMMA MoveEffect ==
    ASSUME TypeOK, NEW m \in Request, HandleMove(m)
    PROVE  Refused(m) \/ Sourced(m)
<1>1. m.pickup \in Names /\ m.dest \in Names
  BY DEF Request
<1>2. CASE FailNew(m, m.pickup, m.dest)
  BY <1>1, <1>2 DEF Refused
<1>3. ASSUME m.pickup \in Nodes, m.dest \in Nodes,
             NEW claimed \in ClaimFirst(MoveSources(m)),
             SourceNew(m, m.pickup, m.dest, claimed)
      PROVE  Sourced(m)
  <2>1. \E p \in Payloads : claimedBy[p] = 0 /\ claimed = {p}
    BY DEF ClaimFirst, MoveSources
  <2>2. QED
    BY <1>1, <1>3, <2>1 DEF Sourced
<1>4. QED
  BY <1>2, <1>3 DEF HandleMove

\* What any request does, whatever its type: the cases the other lemmas need.
LEMMA RequestEffect ==
    ASSUME TypeOK, NEW m \in Request,
           HandleOrderRequest(m) \/ HandleOrderStorageWaybill(m)
    PROVE  RequestMove(m)
<1>1. m.pickup \in Names /\ m.dest \in Names
  BY DEF Request
<1>2. CASE RejectRequest(m) \/ FailNew(m, m.pickup, m.dest)
  BY <1>1, <1>2 DEF Refused, RequestMove, HandleOrderRequest,
     HandleOrderStorageWaybill, Receive
<1>3. CASE HandleRetrieve(m) \/ HandleMove(m) \/ HandleStore(m)
  BY <1>3, RetrieveEffect, MoveEffect, StoreEffect DEF RequestMove,
     HandleOrderRequest, HandleOrderStorageWaybill, Receive
<1>4. QED
  BY <1>2, <1>3 DEF HandleOrderRequest, AcceptRequest, HandleOrderStorageWaybill

\* The row it leaves.
RowInserted(m) == \E st \in {"failed", "sourcing"} : \E pickup, dest \in Names :
                    orders' = Append(orders, NewOrder(m, st, pickup, dest))

\* A request inserts at most one row, failed or in sourcing.
LEMMA RowFromRequest ==
    ASSUME NEW m, RequestMove(m)
    PROVE  UNCHANGED orders \/ RowInserted(m)
BY DEF RequestMove, Refused, Sourced, RejectRequest, FailNew, SourceNew, RowInserted

\* What the poller writes leaves the route of the order alone.
LEMMA RouteByPoller ==
    ASSUME TypeOK, PollWrite
    PROVE  RowsWritten
<1> DEFINE o == poller.order
<1>1. o \in DOMAIN orders /\ orders \in Seq(Order) /\ orders[o] \in Order
  BY OrderRow DEF TypeOK, OrdersOK, PollerOK, PollWrite
<1>2. /\ poller.snapVendor \in Nat /\ poller.vehicle \in BOOLEAN
      /\ MapState(poller.state) \in Status
  BY MapStateTyped DEF TypeOK, PollerOK
<1>3. CASE StatusChanged
  <2> DEFINE row == [orders[o] EXCEPT !.status = MapState(poller.state),
                                      !.vendor = poller.snapVendor,
                                      !.robot = poller.vehicle]
  <2>1. /\ row \in Order /\ row.uuid = orders[o].uuid
        /\ row.pickup = orders[o].pickup /\ row.dest = orders[o].dest
    BY <1>1, <1>2 DEF Order
  <2>2. orders' = [orders EXCEPT ![o] = row]
    BY <1>3 DEF PollWrite
  <2> HIDE DEF row
  <2>3. QED
    BY <1>1, <2>1, <2>2, RouteWritten
<1>4. CASE ~StatusChanged /\ NewRobot
  <2> DEFINE row == [orders[o] EXCEPT !.vendor = poller.snapVendor, !.robot = TRUE]
  <2>1. /\ row \in Order /\ row.uuid = orders[o].uuid
        /\ row.pickup = orders[o].pickup /\ row.dest = orders[o].dest
    BY <1>1, <1>2 DEF Order
  <2>2. orders' = [orders EXCEPT ![o] = row]
    BY <1>4 DEF PollWrite
  <2> HIDE DEF row
  <2>3. QED
    BY <1>1, <2>1, <2>2, RouteWritten
<1>5. CASE ~StatusChanged /\ ~NewRobot
  BY <1>5 DEF PollWrite, RowsWritten, RouteKept
<1>6. QED
  BY <1>3, <1>4, <1>5

\* RecordDispatch leaves the route of every row alone.
LEMMA RouteByRecord ==
    ASSUME TypeOK, RecordDispatch
    PROVE  RowsWritten
<1> DEFINE o == dispatcher.order
           v == dispatcher.vendor
           row == [orders[o] EXCEPT !.vendor = v, !.robot = FALSE, !.status = "dispatched"]
<1>1. o \in DOMAIN orders /\ v \in Nat /\ orders \in Seq(Order) /\ orders[o] \in Order
  BY OrderRow DEF TypeOK, OrdersOK, DispatcherOK, RecordDispatch
<1>2. /\ row \in Order /\ row.uuid = orders[o].uuid
      /\ row.pickup = orders[o].pickup /\ row.dest = orders[o].dest
  BY <1>1 DEF Order, Status
<1>3. orders' = [orders EXCEPT ![o] = row]
  BY DEF RecordDispatch
<1> HIDE DEF row
<1>4. QED
  BY <1>1, <1>2, <1>3, RouteWritten

\* Every step serves a request, or inserts no row and keeps the routes.
LEMMA RowsStep ==
    ASSUME TypeOK, [Next]_vars
    PROVE  RowsWritten \/ \E m \in Request : RequestMove(m)
<1>1. ASSUME UNCHANGED orders PROVE RowsWritten
  BY <1>1 DEF RowsWritten, RouteKept
<1>2. ASSUME NEW m \in Requests, HandleOrderRequest(m)
      PROVE  \E w \in Request : RequestMove(w)
  BY <1>2, RequestEffect, CoreAssumption
<1>3. ASSUME NEW m \in Waybills, HandleOrderStorageWaybill(m)
      PROVE  \E w \in Request : RequestMove(w)
  BY <1>3, RequestEffect, CoreAssumption
<1>4. ASSUME NEW o \in DOMAIN orders, NEW st \in Status,
             orders' = [orders EXCEPT ![o].status = st]
      PROVE  RowsWritten
  BY <1>4, RouteStatus DEF TypeOK, OrdersOK
<1>5. /\ "failed" \in Status /\ "cancelled" \in Status /\ "confirmed" \in Status
      /\ "sourcing" \in Status
  BY DEF Status
<1>6. CASE CreateTransportOrder
  BY <1>1, <1>4, <1>5, <1>6 DEF CreateTransportOrder, FailOrder, TypeOK, DispatcherOK
<1>7. CASE CancelOrder \/ RedirectOrder
  BY <1>1, <1>4, <1>5, <1>7 DEF CancelOrder, RedirectOrder, TypeOK, DispatcherOK
<1>8. CASE TerminateWrite
  BY <1>4, <1>5, <1>8 DEF TerminateWrite, TypeOK
<1>9. ASSUME NEW u \in Uuids,
             \/ HandleOrderCancel(u)
             \/ HandleOrderReceipt(u)
             \/ \E d \in NewDests : HandleOrderRedirect(u, d)
             \/ \E kind \in {"cancel", "receipt", "redirect"} : DropUnknown(kind, u)
      PROVE  RowsWritten
  <2>1. CASE HandleOrderReceipt(u)
    BY <1>4, <1>5, <2>1 DEF HandleOrderReceipt, ByUuid
  <2>2. CASE UNCHANGED orders
    BY <1>1, <2>2
  <2>3. QED
    BY <1>9, <2>1, <2>2 DEF HandleOrderCancel, HandleOrderRedirect, DropUnknown
<1>10. CASE PollSettle
  BY <1>4, <1>10, MapStateTyped DEF PollSettle, TypeOK, PollerOK
<1>11. CASE \/ SendAck \/ CompleteOrder \/ PollResolve \/ PollSnapshot \/ Crash
            \/ Start \/ UNCHANGED vars
  BY <1>1, <1>11 DEF SendAck, CompleteOrder, PollResolve, PollSnapshot, Crash,
                     Start, vars
<1>12. ASSUME NEW o \in DOMAIN orders, TerminateOrder(o) PROVE RowsWritten
  BY <1>1, <1>12 DEF TerminateOrder
<1>13. ASSUME NEW v \in DOMAIN fleetOrders, FleetProgress(v) \/ PollObserve(v)
       PROVE  RowsWritten
  BY <1>1, <1>13 DEF FleetProgress, PollObserve
<1>14. QED
  BY <1>1, <1>2, <1>3, <1>6, <1>7, <1>8, <1>9, <1>10, <1>11, <1>12, <1>13,
     RouteByPoller, RouteByRecord DEF Next

\* The rows that were there still are, with their routes; a row that is new was
\* asked for by a message.
LEMMA RowsStay ==
    ASSUME TypeOK, [Next]_vars
    PROVE  /\ \A q \in DOMAIN orders : q \in DOMAIN orders' /\ RouteKept(q)
           /\ \A q \in DOMAIN orders' \ DOMAIN orders :
                q = Len(orders) + 1 /\ DOMAIN orders = 1 .. Len(orders)
<1>1. CASE RowsWritten
  BY <1>1 DEF RowsWritten
<1>2. ASSUME NEW row, orders' = Append(orders, row)
      PROVE  /\ \A q \in DOMAIN orders : q \in DOMAIN orders' /\ RouteKept(q)
             /\ \A q \in DOMAIN orders' \ DOMAIN orders :
                  q = Len(orders) + 1 /\ DOMAIN orders = 1 .. Len(orders)
  BY <1>2, LenProperties DEF TypeOK, OrdersOK, RouteKept
<1>3. CASE UNCHANGED orders
  BY <1>1, <1>3 DEF RowsWritten, RouteKept
<1>4. QED
  BY <1>1, <1>2, <1>3, RowsStep, RowFromRequest DEF RowInserted

\* A transport keeps its destination and its cargo, and its end is its end.
TransportKept(v) ==
    /\ fleetOrders'[v].to = fleetOrders[v].to
    /\ fleetOrders'[v].cargo = fleetOrders[v].cargo
    /\ IsTerminal(fleetOrders[v].state) =>
         fleetOrders'[v].state = fleetOrders[v].state

FleetKept == /\ DOMAIN fleetOrders \subseteq DOMAIN fleetOrders'
             /\ \A v \in DOMAIN fleetOrders : TransportKept(v)

\* A transport of the fleet is typed.
LEMMA TransportRow ==
    ASSUME fleetOrders \in Seq(Transport), NEW v \in DOMAIN fleetOrders
    PROVE  fleetOrders[v] \in Transport
BY ElementOfSeq, LenProperties

\* A call that stops a fleet order.
LEMMA FleetKeptStopped ==
    ASSUME TypeOK, NEW v, fleetOrders' \in Terminated(v)
    PROVE  /\ FleetKept
           /\ DOMAIN fleetOrders' = DOMAIN fleetOrders
           /\ \A w \in DOMAIN fleetOrders :
                \/ fleetOrders'[w].state = fleetOrders[w].state
                \/ w = v /\ fleetOrders'[w].state = "STOPPED"
<1>1. \A w \in DOMAIN fleetOrders : fleetOrders[w] \in Transport
  BY TransportRow DEF TypeOK, FleetOK
<1> DEFINE e(w) == IF w = v /\ ~IsTerminal(fleetOrders[w].state)
                   THEN [fleetOrders[w] EXCEPT !.state = "STOPPED"]
                   ELSE fleetOrders[w]
<1>2. CASE fleetOrders' = [w \in DOMAIN fleetOrders |-> e(w)]
  <2>1. ASSUME NEW w \in DOMAIN fleetOrders
        PROVE  /\ e(w).to = fleetOrders[w].to
               /\ e(w).cargo = fleetOrders[w].cargo
               /\ IsTerminal(fleetOrders[w].state) => e(w).state = fleetOrders[w].state
               /\ \/ e(w).state = fleetOrders[w].state
                  \/ w = v /\ e(w).state = "STOPPED"
    <3>1. fleetOrders[w] \in Transport
      BY <1>1
    <3>2. CASE w = v /\ ~IsTerminal(fleetOrders[w].state)
      BY <3>1, <3>2 DEF Transport
    <3>3. CASE ~(w = v /\ ~IsTerminal(fleetOrders[w].state))
      BY <3>3
    <3>4. QED
      BY <3>2, <3>3
  <2> HIDE DEF e
  <2>2. QED
    BY <1>2, <2>1 DEF FleetKept, TransportKept
<1>3. CASE fleetOrders' = fleetOrders
  BY <1>3 DEF FleetKept, TransportKept
<1>4. QED
  BY <1>2, <1>3 DEF Terminated

\* The fleet goes on.
LEMMA FleetKeptProgress ==
    ASSUME TypeOK, NEW v \in DOMAIN fleetOrders, FleetProgress(v)
    PROVE  /\ FleetKept
           /\ DOMAIN fleetOrders' = DOMAIN fleetOrders
           /\ \A w \in DOMAIN fleetOrders :
                \/ fleetOrders'[w].state = fleetOrders[w].state
                \/ w = v /\ fleetOrders'[w].state \in FleetStates
<1>1. PICK s \in FleetStates, robot \in BOOLEAN :
         fleetOrders' = [fleetOrders EXCEPT ![v] =
                           [fleetOrders[v] EXCEPT !.state = s, !.vehicle = robot]]
  BY DEF FleetProgress
<1> DEFINE e == [fleetOrders[v] EXCEPT !.state = s, !.vehicle = robot]
<1>2. /\ fleetOrders \in Seq(Transport) /\ fleetOrders[v] \in Transport
  BY TransportRow DEF TypeOK, FleetOK
<1>3. /\ e \in Transport /\ e.to = fleetOrders[v].to /\ e.cargo = fleetOrders[v].cargo
      /\ e.state = s
  BY <1>2, CoreAssumption DEF Transport
<1>4. fleetOrders' = [fleetOrders EXCEPT ![v] = e] /\ ~IsTerminal(fleetOrders[v].state)
  BY <1>1 DEF FleetProgress
<1> HIDE DEF e
<1>5. /\ DOMAIN fleetOrders' = DOMAIN fleetOrders
      /\ \A w \in DOMAIN fleetOrders :
           fleetOrders'[w] = IF w = v THEN e ELSE fleetOrders[w]
  BY <1>2, <1>3, <1>4, RowReplaced
<1>6. QED
  BY <1>3, <1>4, <1>5 DEF FleetKept, TransportKept

\* A new transport goes behind the others.
LEMMA FleetKeptCreate ==
    ASSUME TypeOK, CreateTransportOrder
    PROVE  FleetKept
<1>1. CASE UNCHANGED fleetOrders
  BY <1>1 DEF FleetKept, TransportKept
<1>2. CASE fleetOrders' = Append(fleetOrders, FleetOrder)
  BY <1>2, LenProperties DEF TypeOK, FleetOK, FleetKept, TransportKept
<1>3. QED
  BY <1>1, <1>2 DEF CreateTransportOrder

\* No step takes a transport back, or changes where it goes and with what.
LEMMA FleetStep ==
    ASSUME TypeOK, [Next]_vars
    PROVE  FleetKept
<1>1. ASSUME UNCHANGED fleetOrders PROVE FleetKept
  BY <1>1 DEF FleetKept, TransportKept
<1>2. ASSUME NEW m, HandleOrderRequest(m) \/ HandleOrderStorageWaybill(m)
      PROVE  FleetKept
  BY <1>1, <1>2 DEF HandleOrderRequest, HandleOrderStorageWaybill
<1>3. ASSUME NEW u \in Uuids,
             \/ HandleOrderCancel(u)
             \/ HandleOrderReceipt(u)
             \/ \E d \in NewDests : HandleOrderRedirect(u, d)
             \/ \E kind \in {"cancel", "receipt", "redirect"} : DropUnknown(kind, u)
      PROVE  FleetKept
  <2>1. UNCHANGED fleetOrders \/ \E v : fleetOrders' \in Terminated(v)
    BY <1>3 DEF HandleOrderCancel, HandleOrderReceipt, HandleOrderRedirect, DropUnknown
  <2>2. QED
    BY <1>1, <2>1, FleetKeptStopped
<1>4. ASSUME NEW o \in DOMAIN orders, TerminateOrder(o) PROVE FleetKept
  <2>1. UNCHANGED fleetOrders \/ \E v : fleetOrders' \in Terminated(v)
    BY <1>4 DEF TerminateOrder
  <2>2. QED
    BY <1>1, <2>1, FleetKeptStopped
<1>5. ASSUME NEW v \in DOMAIN fleetOrders, FleetProgress(v) \/ PollObserve(v)
      PROVE  FleetKept
  BY <1>1, <1>5, FleetKeptProgress DEF PollObserve
<1>6. CASE \/ RecordDispatch \/ SendAck \/ CancelOrder \/ CompleteOrder
           \/ RedirectOrder \/ TerminateWrite \/ PollResolve \/ PollSnapshot
           \/ PollWrite \/ PollSettle \/ Crash \/ Start \/ UNCHANGED vars
  BY <1>1, <1>6 DEF RecordDispatch, SendAck, CancelOrder, CompleteOrder,
     RedirectOrder, TerminateWrite, PollResolve, PollSnapshot, PollWrite,
     PollSettle, Crash, Start, vars
<1>7. QED
  BY <1>2, <1>3, <1>4, <1>5, <1>6, FleetKeptCreate DEF Next

\* What was enqueued stays: the outbox of an edge only grows.
MessagesKept ==
    \A u \in Uuids : \A i \in DOMAIN outbox[u] :
        i \in DOMAIN outbox'[u] /\ outbox'[u][i] = outbox[u][i]

Told(u) == {i \in DOMAIN outbox[u] : outbox[u][i] = "delivered"}

\* A queue that gets messages keeps those it has.
LEMMA EnqueuedKept ==
    ASSUME TypeOK, NEW u \in Uuids, NEW kinds \in Seq(MessageKind), Enqueue(u, kinds)
    PROVE  /\ MessagesKept
           /\ \A w \in Uuids : w # u => outbox'[w] = outbox[w]
           /\ outbox'[u] = outbox[u] \o kinds
           /\ outbox[u] \in Seq(MessageKind)
<1>1. /\ outbox[u] \in Seq(MessageKind)
      /\ outbox'[u] = outbox[u] \o kinds
      /\ \A w \in Uuids : w # u => outbox'[w] = outbox[w]
  BY DEF Enqueue, TypeOK
<1>2. \A i \in DOMAIN outbox[u] :
        i \in DOMAIN outbox'[u] /\ outbox'[u][i] = outbox[u][i]
  BY <1>1, ConcatProperties, LenProperties
<1>3. QED
  BY <1>1, <1>2 DEF MessagesKept

\* Messages of other kinds tell of no delivery.
LEMMA NothingTold ==
    ASSUME TypeOK, NEW u \in Uuids, NEW kinds \in Seq(MessageKind),
           \A i \in DOMAIN kinds : kinds[i] # "delivered", Enqueue(u, kinds)
    PROVE  MessagesKept /\ \A w \in Uuids : Told(w)' = Told(w)
<1>1. /\ MessagesKept
      /\ \A w \in Uuids : w # u => outbox'[w] = outbox[w]
      /\ outbox'[u] = outbox[u] \o kinds
      /\ outbox[u] \in Seq(MessageKind)
  BY EnqueuedKept
<1>2. \A i \in DOMAIN outbox'[u] :
        /\ i \in DOMAIN outbox[u] => outbox'[u][i] = outbox[u][i]
        /\ i \notin DOMAIN outbox[u] => outbox'[u][i] # "delivered"
  <2>1. ASSUME NEW i \in DOMAIN outbox'[u], i \notin DOMAIN outbox[u]
        PROVE  outbox'[u][i] = kinds[i - Len(outbox[u])]
               /\ i - Len(outbox[u]) \in DOMAIN kinds
    BY <1>1, <2>1, ConcatProperties, LenProperties
  <2>2. QED
    BY <1>1, <2>1 DEF MessagesKept
<1>3. Told(u)' = Told(u)
  BY <1>1, <1>2 DEF Told, MessagesKept
<1>4. QED
  BY <1>1, <1>3 DEF Told

\* One message of a delivery is one more.
LEMMA OneMoreTold ==
    ASSUME TypeOK, NEW u \in Uuids, Enqueue(u, <<"delivered">>)
    PROVE  /\ MessagesKept
           /\ \A w \in Uuids : w # u => Told(w)' = Told(w)
           /\ Told(u)' = Told(u) \cup {Len(outbox[u]) + 1}
<1>1. <<"delivered">> \in Seq(MessageKind)
  BY DEF MessageKind
<1>2. /\ MessagesKept
      /\ \A w \in Uuids : w # u => outbox'[w] = outbox[w]
      /\ outbox'[u] = outbox[u] \o <<"delivered">>
      /\ outbox[u] \in Seq(MessageKind)
  BY <1>1, EnqueuedKept
<1> DEFINE n == Len(outbox[u])
<1>3. /\ n \in Nat /\ DOMAIN outbox[u] = 1 .. n /\ DOMAIN outbox'[u] = 1 .. n + 1
      /\ outbox'[u][n + 1] = "delivered"
  BY <1>2
<1>4. Told(u)' = Told(u) \cup {n + 1}
  BY <1>2, <1>3 DEF Told, MessagesKept
<1>5. QED
  BY <1>2, <1>4 DEF Told

\* What a step that tells of no delivery has in common.
Quiet == MessagesKept /\ \A w \in Uuids : Told(w)' = Told(w)

\* Enqueueing one message of another kind tells of no delivery.
LEMMA OneKindEnqueued ==
    ASSUME TypeOK, NEW u \in Uuids, NEW kind \in MessageKind, kind # "delivered",
           Enqueue(u, <<kind>>)
    PROVE  Quiet
<1>1. <<kind>> \in Seq(MessageKind) /\ \A i \in DOMAIN <<kind>> : <<kind>>[i] # "delivered"
  OBVIOUS
<1>2. QED
  BY <1>1, NothingTold DEF Quiet

\* A step that enqueues nothing tells of no delivery.
LEMMA NothingEnqueued ==
    ASSUME UNCHANGED outbox
    PROVE  Quiet
BY DEF Quiet, MessagesKept, Told

\* The poller's write enqueues a waybill, an update, both or neither.
LEMMA WriteQuiet ==
    ASSUME TypeOK, PollWrite
    PROVE  Quiet
<1> DEFINE w == IF NewRobot THEN <<"waybill">> ELSE <<>>
           s == IF StatusChanged THEN <<"update">> ELSE <<>>
<1>1. /\ w \in Seq(MessageKind) /\ \A i \in DOMAIN w : w[i] # "delivered"
      /\ s \in Seq(MessageKind) /\ \A i \in DOMAIN s : s[i] # "delivered"
  <2>1. /\ <<"waybill">> \in Seq(MessageKind) /\ <<"update">> \in Seq(MessageKind)
        /\ <<>> \in Seq(MessageKind) /\ DOMAIN <<>> = {}
        /\ \A i \in DOMAIN <<"waybill">> : <<"waybill">>[i] # "delivered"
        /\ \A i \in DOMAIN <<"update">> : <<"update">>[i] # "delivered"
    BY DEF MessageKind
  <2>2. w \in {<<"waybill">>, <<>>} /\ s \in {<<"update">>, <<>>}
    OBVIOUS
  <2> HIDE DEF w, s
  <2>3. QED
    BY <2>1, <2>2
<1>2. orders[poller.order].uuid \in Uuids
  BY OrderRow DEF TypeOK, OrdersOK, PollerOK, PollWrite
<1>3. Enqueue(orders[poller.order].uuid, w \o s)
  BY DEF PollWrite
<1> HIDE DEF w, s
<1>4. w \o s \in Seq(MessageKind) /\ \A i \in DOMAIN (w \o s) : (w \o s)[i] # "delivered"
  <2>1. w \o s \in Seq(MessageKind) /\ Len(w \o s) = Len(w) + Len(s)
    BY <1>1, ConcatProperties
  <2>2. ASSUME NEW i \in DOMAIN (w \o s) PROVE (w \o s)[i] # "delivered"
    <3>1. i \in 1 .. Len(w) + Len(s) /\ Len(w) \in Nat /\ Len(s) \in Nat
          /\ DOMAIN w = 1 .. Len(w) /\ DOMAIN s = 1 .. Len(s)
      BY <1>1, <2>1, LenProperties
    <3>2. CASE i <= Len(w)
      BY <1>1, <3>1, <3>2, ConcatProperties
    <3>3. CASE i > Len(w)
      <4>1. (w \o s)[i] = s[i - Len(w)] /\ i - Len(w) \in DOMAIN s
        BY <1>1, <3>1, <3>3, ConcatProperties
      <4>2. QED
        BY <1>1, <4>1
    <3>4. QED
      BY <3>1, <3>2, <3>3
  <2>3. QED
    BY <2>1, <2>2
<1>5. QED
  BY <1>2, <1>3, <1>4, NothingTold DEF Quiet

\* A request tells of no delivery.
LEMMA RequestQuiet ==
    ASSUME TypeOK, NEW m \in Request, RequestMove(m)
    PROVE  Quiet
<1>1. UNCHANGED outbox \/ Enqueue(m.uuid, <<"error">>)
  BY DEF RequestMove, Refused, Sourced, RejectRequest, FailNew, SourceNew
<1>2. m.uuid \in Uuids /\ "error" \in MessageKind
  BY DEF Request, MessageKind
<1>3. QED
  BY <1>1, <1>2, OneKindEnqueued, NothingEnqueued

\* Nor do the later steps of the handlers.
LEMMA HandlerQuiet ==
    ASSUME TypeOK,
           CreateTransportOrder \/ SendAck \/ CancelOrder \/ RedirectOrder
    PROVE  Quiet
<1>1. orders[dispatcher.order].uuid \in Uuids
  BY OrderRow DEF TypeOK, OrdersOK, DispatcherOK, CreateTransportOrder, SendAck,
     CancelOrder, RedirectOrder
<1>2. /\ "error" \in MessageKind /\ "ack" \in MessageKind /\ "cancelled" \in MessageKind
  BY DEF MessageKind
<1>3. \/ UNCHANGED outbox
      \/ Enqueue(orders[dispatcher.order].uuid, <<"error">>)
      \/ Enqueue(orders[dispatcher.order].uuid, <<"ack">>)
      \/ Enqueue(orders[dispatcher.order].uuid, <<"cancelled">>)
  BY DEF CreateTransportOrder, FailOrder, SendAck, CancelOrder, RedirectOrder
<1>4. QED
  BY <1>1, <1>2, <1>3, OneKindEnqueued, NothingEnqueued

\* Only the settling of a delivery tells of one, and no step unsays anything.
LEMMA OutboxStep ==
    ASSUME TypeOK, [Next]_vars
    PROVE  /\ MessagesKept
           /\ Quiet \/ (PollSettle /\ MapState(poller.state) = "delivered")
<1>1. ASSUME NEW m \in Requests, HandleOrderRequest(m) PROVE Quiet
  BY <1>1, RequestEffect, RequestQuiet, CoreAssumption
<1>2. ASSUME NEW m \in Waybills, HandleOrderStorageWaybill(m) PROVE Quiet
  BY <1>2, RequestEffect, RequestQuiet, CoreAssumption
<1>3. ASSUME NEW u \in Uuids,
             \/ HandleOrderCancel(u)
             \/ HandleOrderReceipt(u)
             \/ \E d \in NewDests : HandleOrderRedirect(u, d)
             \/ \E kind \in {"cancel", "receipt", "redirect"} : DropUnknown(kind, u)
      PROVE  Quiet
  BY <1>3, NothingEnqueued
     DEF HandleOrderCancel, HandleOrderReceipt, HandleOrderRedirect, DropUnknown
<1>4. ASSUME NEW o \in DOMAIN orders, TerminateOrder(o) PROVE Quiet
  BY <1>4, NothingEnqueued DEF TerminateOrder
<1>5. ASSUME NEW v \in DOMAIN fleetOrders, FleetProgress(v) \/ PollObserve(v)
      PROVE  Quiet
  BY <1>5, NothingEnqueued DEF FleetProgress, PollObserve
<1>6. ASSUME \/ RecordDispatch \/ CompleteOrder \/ TerminateWrite \/ PollResolve
             \/ PollSnapshot \/ Crash \/ Start \/ UNCHANGED vars
      PROVE  Quiet
  BY <1>6, NothingEnqueued DEF RecordDispatch, CompleteOrder, TerminateWrite,
     PollResolve, PollSnapshot, Crash, Start, vars
<1>7. CASE PollSettle
  <2>1. orders[poller.order].uuid \in Uuids
    BY <1>7, OrderRow DEF TypeOK, OrdersOK, PollerOK, PollSettle
  <2>2. CASE MapState(poller.state) = "delivered"
    BY <1>7, <2>1, <2>2, OneMoreTold DEF PollSettle
  <2>3. CASE MapState(poller.state) # "delivered"
    <3>1. Enqueue(orders[poller.order].uuid, <<>>)
      BY <1>7, <2>3 DEF PollSettle
    <3>2. <<>> \in Seq(MessageKind) /\ DOMAIN <<>> = {}
      OBVIOUS
    <3>3. Quiet
      BY <2>1, <3>1, <3>2, NothingTold DEF Quiet
    <3>4. QED
      BY <3>3 DEF Quiet
  <2>4. QED
    BY <2>2, <2>3, <1>7
<1>8. CASE Quiet
  BY <1>8 DEF Quiet
<1>9. QED
  BY <1>1, <1>2, <1>3, <1>4, <1>5, <1>6, <1>7, <1>8, HandlerQuiet, WriteQuiet DEF Next

-----------------------------------------------------------------------------
\* The uuid that no row is found under is no row's.
LEMMA NewestFound ==
    ASSUME orders \in Seq(Order), NEW u, ByUuid(u) = {}
    PROVE  \A o \in DOMAIN orders : orders[o].uuid # u
<1> DEFINE n == Len(orders)
           S == {o \in DOMAIN orders : orders[o].uuid = u}
           T == {k \in Nat : n - k \in S}
<1> SUFFICES ASSUME NEW p \in S PROVE FALSE
  OBVIOUS
<1>1. n \in Nat /\ DOMAIN orders = 1 .. n
  BY LenProperties
<1>2. n - p \in T /\ T \subseteq Nat
  BY <1>1
<1> DEFINE less == OpToRel(<, Nat)
<1>0. \A i, j \in Nat : i < j => <<i, j>> \in less
  BY DEF OpToRel
<1>a. IsWellFoundedOn(less, Nat)
  BY NatLessThanWellFounded
<1> HIDE DEF less
<1>3. PICK k \in T : \A j \in T : ~(<<j, k>> \in less)
  <2>1. T # {}
    BY <1>2
  <2> HIDE DEF T
  <2>2. QED
    BY <1>2, <2>1, <1>a, WFMin
<1>4. \A q \in S : q <= n - k
  <2> SUFFICES ASSUME NEW q \in S, q > n - k PROVE FALSE
    BY <1>1
  <2>1. n - q \in T /\ n - q < k /\ k \in Nat
    BY <1>1
  <2>2. <<n - q, k>> \in less
    BY <1>0, <2>1
  <2>3. QED
    BY <1>3, <2>1, <2>2
<1>5. n - k \in ByUuid(u)
  BY <1>3, <1>4 DEF ByUuid
<1>6. QED
  BY <1>5

-----------------------------------------------------------------------------
(* The calm plant and its invariant.                                       *)

\* The plant as long as everyone behaves and core keeps running: edges send
\* each request once and redirect nothing, nobody presses terminate, the fleet
\* answers its calls (it may turn an order down, and may fail one under way).
Calm == /\ Inputs \subseteq {"request", "storage_waybill", "cancel", "receipt"}
        /\ Faults \subseteq {"create_rejected"}

\* One row per request...
UuidInv == \A o, q \in DOMAIN orders : orders[o].uuid = orders[q].uuid => o = q

\* ...and its robot goes where the row says, from one node to another if it
\* fetches a reserved payload.
RouteInv ==
    /\ \A o \in DOMAIN orders :
         orders[o].vendor # 0 => fleetOrders[orders[o].vendor].to = orders[o].dest
    /\ dispatcher.pc \in {"create", "record"} =>
         dispatcher.dst = orders[dispatcher.order].dest
    /\ dispatcher.pc = "record" => fleetOrders[dispatcher.vendor].to = dispatcher.dst
    /\ \A p \in Payloads : claimedBy[p] # 0 =>
         orders[claimedBy[p]].pickup \in Nodes /\ orders[claimedBy[p]].dest \in Nodes

\* A robot under way fetches payloads that stand reserved for the very order it
\* was sent for, whose row carries the fleet order or is about to.
Carries(o, v) ==
    \/ orders[o].vendor = v
    \/ dispatcher.pc = "record" /\ dispatcher.order = o /\ dispatcher.vendor = v

CargoInv ==
    \A v \in DOMAIN fleetOrders : ~IsTerminal(fleetOrders[v].state) =>
        \A p \in fleetOrders[v].cargo : claimedBy[p] # 0 /\ Carries(claimedBy[p], v)

\* An order is over only when its robot is, a delivery was told only when it
\* arrived, and what the poller has seen the end of has ended so.
Ended(o) == orders[o].vendor # 0 => IsTerminal(fleetOrders[orders[o].vendor].state)

Arrived(o) == /\ orders[o].vendor # 0
              /\ fleetOrders[orders[o].vendor].state = "FINISHED"

RowsEnded == \A o \in DOMAIN orders : orders[o].status \in TerminalStatus => Ended(o)

HandEnded == dispatcher.pc = "cancel" => Ended(dispatcher.order)

HandArrived == dispatcher.pc = "receipt" => Arrived(dispatcher.order)

ToldArrived == \A u \in Uuids : Told(u) # {} =>
                 \E o \in DOMAIN orders : orders[o].uuid = u /\ Arrived(o)

SeenEnded == poller.pc # "idle" =>
    /\ poller.vendor \in DOMAIN fleetOrders
    /\ IsTerminal(poller.state) => fleetOrders[poller.vendor].state = poller.state

EndInv == RowsEnded /\ HandEnded

\* What a booking rests on, which crashes, terminations and lost calls leave alone.
BookInv == UuidInv /\ RouteInv /\ HandArrived /\ ToldArrived /\ SeenEnded

CalmInv == up /\ web = 0 /\ BookInv /\ CargoInv /\ EndInv

\* What a calm step leaves alone: process, web requests, and the vendor id of
\* an order that has one.
LEMMA CalmStep ==
    ASSUME Calm, TypeOK, FollowInv, CalmInv, [Next]_vars
    PROVE  up' /\ web' = 0
<1>1. ~RedirectOrder
  BY DEF RedirectOrder, FollowInv, DispatchInv
<1>2. ~Crash /\ ~Start /\ ~TerminateWrite /\ \A o : ~TerminateOrder(o)
  BY DEF Crash, Start, TerminateWrite, TerminateOrder, TakeInput, Calm, CalmInv
<1>3. UNCHANGED <<up, web>>
  BY <1>1, <1>2 DEF Next, vars, HandleOrderRequest, HandleOrderStorageWaybill,
     CreateTransportOrder, RecordDispatch, SendAck, HandleOrderCancel, CancelOrder,
     HandleOrderReceipt, CompleteOrder, HandleOrderRedirect, DropUnknown,
     FleetProgress, PollObserve, PollResolve, PollSnapshot, PollWrite, PollSettle
<1>4. QED
  BY <1>3 DEF CalmInv

\* An order that has a fleet order keeps it; one that has none gets the one that
\* the dispatcher made for it.
VendorKept(q) ==
    \/ orders'[q].vendor = orders[q].vendor
    \/ /\ RecordDispatch /\ q = dispatcher.order
       /\ orders[q].vendor = 0 /\ orders'[q].vendor = dispatcher.vendor

\* A row's vendor id changes only when a dispatch is recorded, from NULL.
LEMMA VendorStep ==
    ASSUME "redirect" \notin Inputs, TypeOK, FollowInv, [Next]_vars,
           NEW q \in DOMAIN orders
    PROVE  VendorKept(q)
<1>1. ASSUME UNCHANGED orders PROVE VendorKept(q)
  BY <1>1 DEF VendorKept
<1>2. ASSUME NEW row, orders' = Append(orders, row)
      PROVE  VendorKept(q)
  BY <1>2, LenProperties DEF TypeOK, OrdersOK, VendorKept
<1>3. ASSUME NEW o \in DOMAIN orders, NEW st \in Status,
             orders' = [orders EXCEPT ![o].status = st]
      PROVE  VendorKept(q)
  BY <1>3, StatusWritten DEF TypeOK, OrdersOK, VendorKept
<1>4. /\ "failed" \in Status /\ "cancelled" \in Status /\ "confirmed" \in Status
      /\ "sourcing" \in Status
  BY DEF Status
<1>5. ASSUME NEW m \in Request, HandleOrderRequest(m) \/ HandleOrderStorageWaybill(m)
      PROVE  VendorKept(q)
  BY <1>1, <1>2, <1>5, RequestEffect, RowFromRequest DEF RowInserted
<1>6. CASE CreateTransportOrder
  BY <1>1, <1>3, <1>4, <1>6 DEF CreateTransportOrder, FailOrder, TypeOK, DispatcherOK
<1>7. CASE RecordDispatch
  <2> DEFINE o == dispatcher.order
             v == dispatcher.vendor
  <2>1. /\ o \in DOMAIN orders /\ v \in Nat /\ orders \in Seq(Order)
        /\ orders[o].vendor = 0 /\ "dispatched" \in Status
    BY <1>7 DEF TypeOK, OrdersOK, DispatcherOK, RecordDispatch, FollowInv,
       DispatchInv, Status
  <2>2. orders' = [orders EXCEPT ![o] = [orders[o] EXCEPT
                      !.vendor = v, !.robot = FALSE, !.status = "dispatched"]]
    BY <1>7 DEF RecordDispatch
  <2>3. orders'[q].vendor = IF q = o THEN v ELSE orders[q].vendor
    BY <2>1, <2>2, VendorWritten
  <2>4. QED
    BY <1>7, <2>1, <2>3 DEF VendorKept
<1>8. CASE CancelOrder \/ RedirectOrder
  BY <1>1, <1>3, <1>4, <1>8 DEF CancelOrder, RedirectOrder, TypeOK, DispatcherOK
<1>9. CASE TerminateWrite
  BY <1>3, <1>4, <1>9 DEF TerminateWrite, TypeOK
<1>10. ASSUME NEW u \in Uuids,
             \/ HandleOrderCancel(u)
             \/ HandleOrderReceipt(u)
             \/ \E d \in NewDests : HandleOrderRedirect(u, d)
             \/ \E kind \in {"cancel", "receipt", "redirect"} : DropUnknown(kind, u)
      PROVE  VendorKept(q)
  <2>1. CASE HandleOrderReceipt(u)
    BY <1>3, <1>4, <2>1 DEF HandleOrderReceipt, ByUuid
  <2>2. CASE UNCHANGED orders
    BY <1>1, <2>2
  <2>3. QED
    BY <1>10, <2>1, <2>2 DEF HandleOrderCancel, HandleOrderRedirect, DropUnknown
<1>11. CASE PollWrite
  <2> DEFINE o == poller.order
  <2>1. /\ o \in DOMAIN orders /\ poller.snapVendor = orders[o].vendor
        /\ orders \in Seq(Order) /\ orders[o] \in Order
        /\ MapState(poller.state) \in Status /\ poller.vehicle \in BOOLEAN
    BY <1>11, OrderRow, MapStateTyped
       DEF PollWrite, FollowInv, PollInv, TypeOK, PollerOK, OrdersOK
  <2>2. CASE StatusChanged
    <3> DEFINE row == [orders[o] EXCEPT !.status = MapState(poller.state),
                                        !.vendor = poller.snapVendor,
                                        !.robot = poller.vehicle]
    <3>1. row \in Order /\ row.vendor = orders[o].vendor
      BY <2>1 DEF Order
    <3>2. orders' = [orders EXCEPT ![o] = row]
      BY <1>11, <2>2 DEF PollWrite
    <3> HIDE DEF row
    <3>3. QED
      BY <2>1, <3>1, <3>2, RowReplaced DEF VendorKept
  <2>3. CASE ~StatusChanged /\ NewRobot
    <3> DEFINE row == [orders[o] EXCEPT !.vendor = poller.snapVendor, !.robot = TRUE]
    <3>1. row \in Order /\ row.vendor = orders[o].vendor
      BY <2>1 DEF Order
    <3>2. orders' = [orders EXCEPT ![o] = row]
      BY <1>11, <2>3 DEF PollWrite
    <3> HIDE DEF row
    <3>3. QED
      BY <2>1, <3>1, <3>2, RowReplaced DEF VendorKept
  <2>4. CASE ~StatusChanged /\ ~NewRobot
    BY <1>11, <2>4 DEF PollWrite, VendorKept
  <2>5. QED
    BY <2>2, <2>3, <2>4
<1>12. CASE PollSettle
  BY <1>3, <1>12, MapStateTyped DEF PollSettle, TypeOK, PollerOK
<1>13. CASE \/ SendAck \/ CompleteOrder \/ PollResolve \/ PollSnapshot \/ Crash
            \/ Start \/ UNCHANGED vars
  BY <1>1, <1>13 DEF SendAck, CompleteOrder, PollResolve, PollSnapshot, Crash,
                     Start, vars
<1>14. ASSUME NEW o \in DOMAIN orders, TerminateOrder(o)
       PROVE  VendorKept(q)
  BY <1>1, <1>14 DEF TerminateOrder
<1>15. ASSUME NEW v \in DOMAIN fleetOrders, FleetProgress(v) \/ PollObserve(v)
       PROVE  VendorKept(q)
  BY <1>1, <1>15 DEF FleetProgress, PollObserve
<1>16. QED
  BY <1>5, <1>6, <1>7, <1>8, <1>9, <1>10, <1>11, <1>12, <1>13, <1>14, <1>15,
     CoreAssumption DEF Next

\* One row per request.
LEMMA UuidStep ==
    ASSUME "repeat" \notin Inputs, TypeOK, UuidInv, [Next]_vars
    PROVE  UuidInv'
<1>1. CASE RowsWritten
  BY <1>1 DEF RowsWritten, RouteKept, UuidInv
<1>2. ASSUME NEW m \in Request, RequestMove(m), NEW st, NEW pickup, NEW dest,
             orders' = Append(orders, NewOrder(m, st, pickup, dest))
      PROVE  UuidInv'
  <2>1. ByUuid(m.uuid) = {}
    BY <1>2 DEF RequestMove, NewOrRepeated
  <2>2. \A o \in DOMAIN orders : orders[o].uuid # m.uuid
    BY <2>1, NewestFound DEF TypeOK, OrdersOK
  <2> DEFINE n == Len(orders)
  <2>3. /\ n \in Nat /\ DOMAIN orders = 1 .. n /\ DOMAIN orders' = 1 .. n + 1
        /\ orders'[n + 1].uuid = m.uuid
        /\ \A o \in DOMAIN orders : orders'[o] = orders[o]
    BY <1>2, LenProperties DEF TypeOK, OrdersOK, NewOrder
  <2>4. QED
    BY <2>2, <2>3 DEF UuidInv
<1>3. CASE UNCHANGED orders
  BY <1>3 DEF UuidInv
<1>4. QED
  BY <1>1, <1>2, <1>3, RowsStep, RowFromRequest DEF RowInserted

\* What becomes of the job in the dispatcher's hand.
HandMove ==
    \/ UNCHANGED dispatcher
    \/ dispatcher'.pc = "idle"
    \/ dispatcher'.pc = "ack"
    \/ dispatcher'.pc = "cancel" /\ \E u \in Uuids : HandleOrderCancel(u)
    \/ dispatcher'.pc = "receipt" /\ \E u \in Uuids : HandleOrderReceipt(u)
    \/ /\ dispatcher'.pc = "record" /\ dispatcher.pc = "create"
       /\ dispatcher'.order = dispatcher.order /\ dispatcher'.dst = dispatcher.dst
       /\ dispatcher'.vendor = Len(fleetOrders) + 1
       /\ fleetOrders' = Append(fleetOrders, FleetOrder)
       /\ UNCHANGED <<orders, claimedBy, outbox>>
    \/ /\ dispatcher'.pc = "create" /\ dispatcher'.order = Len(orders) + 1
       /\ \E m \in Request : \E st, pickup, dest :
            /\ orders' = Append(orders, NewOrder(m, st, pickup, dest))
            /\ dispatcher'.dst = dest

\* A request leaves the dispatcher free or about to create a transport.
LEMMA HandByRequest ==
    ASSUME NEW m \in Request, RequestMove(m)
    PROVE  HandMove
<1>1. CASE Refused(m)
  BY <1>1 DEF Refused, RejectRequest, FailNew, HandMove
<1>2. CASE Sourced(m)
  <2>1. PICK pickup, dest \in Names : \E claimed : SourceNew(m, pickup, dest, claimed)
    BY <1>2 DEF Sourced
  <2>2. /\ dispatcher'.pc = "create" /\ dispatcher'.order = Len(orders) + 1
        /\ dispatcher'.dst = dest
        /\ orders' = Append(orders, NewOrder(m, "sourcing", pickup, dest))
    BY <2>1 DEF SourceNew
  <2>3. QED
    BY <2>2 DEF HandMove
<1>3. QED
  BY <1>1, <1>2 DEF RequestMove

\* What a step does to what the dispatcher has in hand.
LEMMA HandStep ==
    ASSUME "redirect" \notin Inputs, TypeOK, FollowInv, [Next]_vars
    PROVE  HandMove
<1>1. ASSUME UNCHANGED dispatcher \/ dispatcher' = Idle PROVE HandMove
  BY <1>1, DispatcherTyped DEF HandMove
<1>2. ASSUME NEW m \in Request, HandleOrderRequest(m) \/ HandleOrderStorageWaybill(m)
      PROVE  HandMove
  BY <1>2, RequestEffect, HandByRequest
<1>3. CASE CreateTransportOrder
  <2>1. CASE dispatcher' = Idle
    BY <1>1, <2>1
  <2>2. CASE /\ fleetOrders' = Append(fleetOrders, FleetOrder)
             /\ dispatcher' = [dispatcher EXCEPT !.pc = "record",
                                                 !.vendor = Len(fleetOrders) + 1]
             /\ UNCHANGED <<orders, claimedBy, outbox>>
    <3>1. /\ dispatcher'.pc = "record" /\ dispatcher'.vendor = Len(fleetOrders) + 1
          /\ dispatcher'.order = dispatcher.order /\ dispatcher'.dst = dispatcher.dst
      BY <2>2 DEF TypeOK, DispatcherOK
    <3>2. QED
      BY <1>3, <2>2, <3>1 DEF HandMove, CreateTransportOrder
  <2>3. QED
    BY <1>3, <2>1, <2>2 DEF CreateTransportOrder, FailOrder
<1>4. CASE RecordDispatch
  <2>1. dispatcher'.pc = "ack"
    BY <1>4 DEF RecordDispatch, TypeOK, DispatcherOK
  <2>2. QED
    BY <2>1 DEF HandMove
<1>5. ASSUME NEW u \in Uuids,
             \/ HandleOrderCancel(u)
             \/ HandleOrderReceipt(u)
             \/ \E d \in NewDests : HandleOrderRedirect(u, d)
             \/ \E kind \in {"cancel", "receipt", "redirect"} : DropUnknown(kind, u)
      PROVE  HandMove
  <2>1. CASE HandleOrderCancel(u)
    <3>1. dispatcher'.pc = "cancel"
      BY <2>1 DEF HandleOrderCancel, Idle
    <3>2. QED
      BY <2>1, <3>1 DEF HandMove
  <2>2. CASE HandleOrderReceipt(u)
    <3>1. dispatcher'.pc = "receipt"
      BY <2>2 DEF HandleOrderReceipt, Idle
    <3>2. QED
      BY <2>2, <3>1 DEF HandMove
  <2>3. CASE \E d \in NewDests : HandleOrderRedirect(u, d)
    BY <2>3 DEF HandleOrderRedirect, Receive, TakeInput
  <2>4. CASE UNCHANGED dispatcher
    BY <1>1, <2>4
  <2>5. QED
    BY <1>5, <2>1, <2>2, <2>3, <2>4 DEF DropUnknown
<1>6. CASE RedirectOrder
  BY <1>6 DEF RedirectOrder, FollowInv, DispatchInv
<1>7. CASE \/ SendAck \/ CancelOrder \/ CompleteOrder \/ TerminateWrite
           \/ PollResolve \/ PollSnapshot \/ PollWrite \/ PollSettle \/ Crash
           \/ Start \/ UNCHANGED vars
  BY <1>1, <1>7 DEF SendAck, CancelOrder, CompleteOrder, TerminateWrite,
     PollResolve, PollSnapshot, PollWrite, PollSettle, Crash, Start, vars
<1>8. ASSUME NEW o \in DOMAIN orders, TerminateOrder(o) PROVE HandMove
  BY <1>1, <1>8 DEF TerminateOrder
<1>9. ASSUME NEW v \in DOMAIN fleetOrders, FleetProgress(v) \/ PollObserve(v)
      PROVE  HandMove
  BY <1>1, <1>9 DEF FleetProgress, PollObserve
<1>10. QED
  BY <1>2, <1>3, <1>4, <1>5, <1>6, <1>7, <1>8, <1>9, CoreAssumption DEF Next

\* The order the dispatcher is at work on, after a step: its row and its job go
\* to the same place, and so does its robot.
LEMMA HandRouteStep ==
    ASSUME TypeOK, RouteInv, HandMove, FleetKept,
           \A q \in DOMAIN orders : q \in DOMAIN orders' /\ RouteKept(q)
    PROVE  /\ dispatcher'.pc \in {"create", "record"} =>
                dispatcher'.dst = orders'[dispatcher'.order].dest
           /\ dispatcher'.pc = "record" =>
                fleetOrders'[dispatcher'.vendor].to = dispatcher'.dst
<1>1. CASE UNCHANGED dispatcher
  BY <1>1 DEF TypeOK, DispatcherOK, RouteInv, RouteKept, FleetKept, TransportKept
<1>2. CASE dispatcher'.pc \in {"idle", "ack", "cancel", "receipt"}
  BY <1>2
<1>3. CASE /\ dispatcher'.pc = "record" /\ dispatcher.pc = "create"
           /\ dispatcher'.order = dispatcher.order /\ dispatcher'.dst = dispatcher.dst
           /\ dispatcher'.vendor = Len(fleetOrders) + 1
           /\ fleetOrders' = Append(fleetOrders, FleetOrder)
           /\ UNCHANGED <<orders, claimedBy, outbox>>
  <2>1. fleetOrders'[Len(fleetOrders) + 1] = FleetOrder /\ FleetOrder.to = dispatcher.dst
    BY <1>3, LenProperties DEF TypeOK, FleetOK, FleetOrder
  <2>2. QED
    BY <1>3, <2>1 DEF RouteInv
<1>4. ASSUME NEW m, NEW st, NEW pickup, NEW dest,
             orders' = Append(orders, NewOrder(m, st, pickup, dest)),
             dispatcher'.pc = "create", dispatcher'.order = Len(orders) + 1,
             dispatcher'.dst = dest
      PROVE  dispatcher'.dst = orders'[dispatcher'.order].dest
  BY <1>4, LenProperties DEF TypeOK, OrdersOK, NewOrder
<1>5. QED
  BY <1>1, <1>2, <1>3, <1>4 DEF HandMove

\* A row that is new carries no fleet order.
LEMMA NewRowStep ==
    ASSUME TypeOK, [Next]_vars, NEW q \in DOMAIN orders', q \notin DOMAIN orders
    PROVE  /\ orders'[q].vendor = 0
           /\ \E m \in Request : RequestMove(m) /\ RowInserted(m)
           /\ q = Len(orders) + 1
<1>1. PICK m \in Request : RequestMove(m)
  BY RowsStep DEF RowsWritten
<1>2. RowInserted(m)
  BY <1>1, RowFromRequest
<1>3. PICK st, pickup, dest : orders' = Append(orders, NewOrder(m, st, pickup, dest))
  BY <1>2 DEF RowInserted
<1>4. q = Len(orders) + 1 /\ orders'[q].vendor = 0
  BY <1>3, LenProperties DEF TypeOK, OrdersOK, NewOrder
<1>5. QED
  BY <1>1, <1>2, <1>4

\* Where a row's robot goes.
LEMMA RobotRouteStep ==
    ASSUME "redirect" \notin Inputs, TypeOK, FollowInv, RouteInv, [Next]_vars,
           NEW q \in DOMAIN orders', orders'[q].vendor # 0
    PROVE  fleetOrders'[orders'[q].vendor].to = orders'[q].dest
<1>1. q \in DOMAIN orders
  BY NewRowStep
<1>2. RouteKept(q) /\ FleetKept /\ VendorKept(q)
  BY <1>1, RowsStay, FleetStep, VendorStep
<1>3. CASE orders'[q].vendor = orders[q].vendor
  <2>1. orders[q].vendor \in DOMAIN fleetOrders
    BY <1>1, <1>3, LenProperties DEF TypeOK, OrdersOK, FleetOK
  <2>2. QED
    BY <1>1, <1>2, <1>3, <2>1 DEF RouteInv, RouteKept, FleetKept, TransportKept
<1>4. CASE RecordDispatch /\ q = dispatcher.order /\ orders'[q].vendor = dispatcher.vendor
  BY <1>1, <1>2, <1>4 DEF RouteInv, RouteKept, FleetKept, TransportKept,
     RecordDispatch, TypeOK, DispatcherOK
<1>5. QED
  BY <1>2, <1>3, <1>4 DEF VendorKept

\* How the claims move, with the row of the order that takes one.
LEMMA ClaimRowStep ==
    ASSUME TypeOK, [Next]_vars, ~(\E o \in DOMAIN orders : claimedBy' = Unclaimed(o))
    PROVE  \/ UNCHANGED claimedBy
           \/ \E p \in Payloads :
                /\ ClaimTaken(p)
                /\ \E m \in Request : \E st : \E pickup, dest \in Nodes :
                     orders' = Append(orders, NewOrder(m, st, pickup, dest))
<1>1. CASE ~(\E m \in Request : RequestMove(m))
  <2>1. ASSUME NEW m \in Requests, HandleOrderRequest(m) PROVE FALSE
    BY <1>1, <2>1, RequestEffect, CoreAssumption
  <2>2. ASSUME NEW m \in Waybills, HandleOrderStorageWaybill(m) PROVE FALSE
    BY <1>1, <2>2, RequestEffect, CoreAssumption
  <2>3. CASE CreateTransportOrder
    BY <2>3 DEF CreateTransportOrder, FailOrder, TypeOK, DispatcherOK
  <2>4. CASE CancelOrder \/ CompleteOrder
    BY <2>4 DEF CancelOrder, CompleteOrder, HandleOrderCompleted, stock, TypeOK,
       DispatcherOK
  <2>5. CASE \/ RecordDispatch \/ SendAck \/ RedirectOrder \/ TerminateWrite
             \/ PollResolve \/ PollSnapshot \/ PollWrite \/ PollSettle \/ Crash
             \/ Start \/ UNCHANGED vars
    BY <2>5 DEF RecordDispatch, SendAck, RedirectOrder, TerminateWrite, PollResolve,
       PollSnapshot, PollWrite, PollSettle, Crash, Start, vars, stock
  <2>6. ASSUME NEW u \in Uuids,
               \/ HandleOrderCancel(u)
               \/ HandleOrderReceipt(u)
               \/ \E d \in NewDests : HandleOrderRedirect(u, d)
               \/ \E kind \in {"cancel", "receipt", "redirect"} : DropUnknown(kind, u)
        PROVE  UNCHANGED claimedBy
    BY <2>6 DEF HandleOrderCancel, HandleOrderReceipt, HandleOrderRedirect,
       DropUnknown, stock
  <2>7. ASSUME NEW o \in DOMAIN orders, TerminateOrder(o) PROVE UNCHANGED claimedBy
    BY <2>7 DEF TerminateOrder, stock
  <2>8. ASSUME NEW v \in DOMAIN fleetOrders, FleetProgress(v) \/ PollObserve(v)
        PROVE  UNCHANGED claimedBy
    BY <2>8 DEF FleetProgress, PollObserve, stock
  <2>9. QED
    BY <2>1, <2>2, <2>3, <2>4, <2>5, <2>6, <2>7, <2>8 DEF Next
<1>2. ASSUME NEW m \in Request, RequestMove(m)
      PROVE  \/ UNCHANGED claimedBy
             \/ \E p \in Payloads :
                  /\ ClaimTaken(p)
                  /\ \E st : \E pickup, dest \in Nodes :
                       orders' = Append(orders, NewOrder(m, st, pickup, dest))
  <2>1. CASE Refused(m)
    BY <2>1 DEF Refused, RejectRequest, FailNew, stock
  <2>2. ASSUME NEW pickup, NEW dest, SourceNew(m, pickup, dest, {})
        PROVE  UNCHANGED claimedBy
    BY <2>2 DEF SourceNew, TypeOK, StockOK
  <2>3. ASSUME NEW pickup \in Nodes, NEW dest \in Nodes, NEW p \in Payloads,
               claimedBy[p] = 0, SourceNew(m, pickup, dest, {p})
        PROVE  /\ ClaimTaken(p)
               /\ orders' = Append(orders, NewOrder(m, "sourcing", pickup, dest))
    BY <2>3 DEF SourceNew, ClaimTaken
  <2>4. CASE Sourced(m)
    BY <2>2, <2>3, <2>4 DEF Sourced
  <2>5. QED
    BY <1>2, <2>1, <2>4 DEF RequestMove
<1>3. QED
  BY <1>1, <1>2

\* A reserved payload is fetched at a node and goes to one.
LEMMA NodesStep ==
    ASSUME TypeOK, RouteInv, [Next]_vars, NEW p \in Payloads, claimedBy'[p] # 0
    PROVE  /\ orders'[claimedBy'[p]].pickup \in Nodes
           /\ orders'[claimedBy'[p]].dest \in Nodes
<1> DEFINE OldClaim == claimedBy[p] # 0 /\ claimedBy'[p] = claimedBy[p]
<1>1. CASE OldClaim
  <2>1. claimedBy[p] \in DOMAIN orders
    BY <1>1, LenProperties DEF TypeOK, StockOK, OrdersOK
  <2>2. RouteKept(claimedBy[p])
    BY <2>1, RowsStay
  <2>3. QED
    BY <1>1, <2>2 DEF RouteInv, RouteKept
<1>2. CASE \E o \in DOMAIN orders : claimedBy' = Unclaimed(o)
  BY <1>1, <1>2 DEF Unclaimed
<1>3. CASE UNCHANGED claimedBy
  BY <1>1, <1>3
<1>4. ASSUME NEW q \in Payloads, ClaimTaken(q), NEW m, NEW st,
             NEW pickup \in Nodes, NEW dest \in Nodes,
             orders' = Append(orders, NewOrder(m, st, pickup, dest))
      PROVE  /\ orders'[claimedBy'[p]].pickup \in Nodes
             /\ orders'[claimedBy'[p]].dest \in Nodes
  <2>1. CASE p = q
    <3>1. claimedBy'[p] = Len(orders) + 1
      BY <1>4, <2>1 DEF ClaimTaken
    <3>2. orders'[Len(orders) + 1] = NewOrder(m, st, pickup, dest)
      BY <1>4, LenProperties DEF TypeOK, OrdersOK
    <3>3. QED
      BY <3>1, <3>2 DEF NewOrder
  <2>2. CASE p # q
    BY <1>1, <1>4, <2>2 DEF ClaimTaken
  <2>3. QED
    BY <2>1, <2>2
<1>5. QED
  BY <1>2, <1>3, <1>4, ClaimRowStep

\* The rows, the dispatcher and the fleet agree on where each order goes.
LEMMA RouteStep ==
    ASSUME "redirect" \notin Inputs, TypeOK, FollowInv, RouteInv, [Next]_vars
    PROVE  RouteInv'
<1>1. /\ dispatcher'.pc \in {"create", "record"} =>
           dispatcher'.dst = orders'[dispatcher'.order].dest
      /\ dispatcher'.pc = "record" =>
           fleetOrders'[dispatcher'.vendor].to = dispatcher'.dst
  BY HandStep, FleetStep, RowsStay, HandRouteStep
<1>2. \A o \in DOMAIN orders' : orders'[o].vendor # 0 =>
         fleetOrders'[orders'[o].vendor].to = orders'[o].dest
  BY RobotRouteStep
<1>3. \A p \in Payloads : claimedBy'[p] # 0 =>
        orders'[claimedBy'[p]].pickup \in Nodes /\ orders'[claimedBy'[p]].dest \in Nodes
  BY NodesStep
<1>4. QED
  BY <1>1, <1>2, <1>3 DEF RouteInv

\* A busy dispatcher goes on with its own job, whatever the others do.
LEMMA BusyStep ==
    ASSUME "redirect" \notin Inputs, "crash" \notin Inputs,
           TypeOK, FollowInv, [Next]_vars, dispatcher.pc # "idle"
    PROVE  \/ UNCHANGED dispatcher
           \/ CreateTransportOrder
           \/ RecordDispatch
           \/ SendAck
           \/ CancelOrder
           \/ CompleteOrder
<1>1. ~Crash /\ ~RedirectOrder
  BY DEF Crash, TakeInput, RedirectOrder, FollowInv, DispatchInv
<1>2. \A m : ~HandleOrderRequest(m) /\ ~HandleOrderStorageWaybill(m)
  BY DEF HandleOrderRequest, HandleOrderStorageWaybill, Receive
<1>3. \A u : /\ ~HandleOrderCancel(u) /\ ~HandleOrderReceipt(u)
             /\ \A d : ~HandleOrderRedirect(u, d)
             /\ \A k : ~DropUnknown(k, u)
  BY DEF HandleOrderCancel, HandleOrderReceipt, HandleOrderRedirect, DropUnknown, Receive
<1>4. ASSUME \/ TerminateWrite \/ PollResolve \/ PollSnapshot \/ PollWrite
             \/ PollSettle \/ Start \/ UNCHANGED vars
             \/ \E o \in DOMAIN orders : TerminateOrder(o)
             \/ \E v \in DOMAIN fleetOrders : FleetProgress(v) \/ PollObserve(v)
      PROVE  UNCHANGED dispatcher
  BY <1>4 DEF TerminateWrite, PollResolve, PollSnapshot, PollWrite, PollSettle,
     Start, vars, TerminateOrder, FleetProgress, PollObserve
<1>5. QED
  BY <1>1, <1>2, <1>3, <1>4 DEF Next

\* A claim is released by the order in the dispatcher's hand: when the fleet
\* turns it down, when it is cancelled, when it is completed.
LEMMA ReleaseStep ==
    ASSUME TypeOK, [Next]_vars, NEW p \in Payloads, claimedBy[p] # 0,
           claimedBy'[p] # claimedBy[p]
    PROVE  /\ claimedBy[p] = dispatcher.order
           /\ \/ CreateTransportOrder /\ FailOrder(dispatcher.order)
              \/ CancelOrder
              \/ CompleteOrder
<1>1. ASSUME NEW o, o \in DOMAIN orders, claimedBy' = Unclaimed(o)
      PROVE  claimedBy[p] = o
  BY <1>1 DEF Unclaimed
<1>2. ~UNCHANGED claimedBy
  OBVIOUS
<1>3. ASSUME NEW m \in Request, HandleOrderRequest(m) \/ HandleOrderStorageWaybill(m)
      PROVE  FALSE
  <2>1. Refused(m) \/ Sourced(m)
    BY <1>3, RequestEffect DEF RequestMove
  <2>2. CASE Refused(m)
    BY <1>2, <2>2 DEF Refused, RejectRequest, FailNew, stock
  <2>3. CASE Sourced(m)
    BY <2>3 DEF Sourced, SourceNew
  <2>4. QED
    BY <2>1, <2>2, <2>3
<1>4. CASE CreateTransportOrder
  BY <1>1, <1>2, <1>4 DEF CreateTransportOrder, FailOrder, TypeOK, DispatcherOK
<1>5. CASE CancelOrder \/ CompleteOrder
  BY <1>1, <1>2, <1>5 DEF CancelOrder, CompleteOrder, HandleOrderCompleted, stock,
     TypeOK, DispatcherOK
<1>6. ASSUME \/ RecordDispatch \/ SendAck \/ RedirectOrder \/ TerminateWrite
             \/ PollResolve \/ PollSnapshot \/ PollWrite \/ PollSettle \/ Crash
             \/ Start \/ UNCHANGED vars
      PROVE  FALSE
  BY <1>2, <1>6 DEF RecordDispatch, SendAck, RedirectOrder, TerminateWrite,
     PollResolve, PollSnapshot, PollWrite, PollSettle, Crash, Start, vars, stock
<1>7. ASSUME NEW u \in Uuids,
             \/ HandleOrderCancel(u)
             \/ HandleOrderReceipt(u)
             \/ \E d \in NewDests : HandleOrderRedirect(u, d)
             \/ \E kind \in {"cancel", "receipt", "redirect"} : DropUnknown(kind, u)
      PROVE  FALSE
  BY <1>2, <1>7 DEF HandleOrderCancel, HandleOrderReceipt, HandleOrderRedirect,
     DropUnknown, stock
<1>8. ASSUME NEW o \in DOMAIN orders, TerminateOrder(o) PROVE FALSE
  BY <1>2, <1>8 DEF TerminateOrder, stock
<1>9. ASSUME NEW v \in DOMAIN fleetOrders, FleetProgress(v) \/ PollObserve(v)
      PROVE  FALSE
  BY <1>2, <1>9 DEF FleetProgress, PollObserve, stock
<1>10. QED
  BY <1>3, <1>4, <1>5, <1>6, <1>7, <1>8, <1>9, CoreAssumption DEF Next

\* A transport that is new was created for the order in the dispatcher's hand.
LEMMA NewTransportStep ==
    ASSUME TypeOK, [Next]_vars, NEW v \in DOMAIN fleetOrders',
           v \notin DOMAIN fleetOrders
    PROVE  /\ CreateTransportOrder
           /\ fleetOrders' = Append(fleetOrders, FleetOrder)
           /\ v = Len(fleetOrders) + 1
<1>1. ~UNCHANGED fleetOrders
  OBVIOUS
<1>2. ASSUME NEW w, fleetOrders' \in Terminated(w) PROVE FALSE
  BY <1>2, FleetTerminated DEF TypeOK, FleetOK
<1>3. ASSUME NEW m, HandleOrderRequest(m) \/ HandleOrderStorageWaybill(m)
      PROVE  FALSE
  BY <1>1, <1>3 DEF HandleOrderRequest, HandleOrderStorageWaybill
<1>4. ASSUME NEW u \in Uuids,
             \/ HandleOrderCancel(u)
             \/ HandleOrderReceipt(u)
             \/ \E d \in NewDests : HandleOrderRedirect(u, d)
             \/ \E kind \in {"cancel", "receipt", "redirect"} : DropUnknown(kind, u)
      PROVE  FALSE
  BY <1>1, <1>2, <1>4 DEF HandleOrderCancel, HandleOrderReceipt,
     HandleOrderRedirect, DropUnknown
<1>5. ASSUME NEW o \in DOMAIN orders, TerminateOrder(o) PROVE FALSE
  BY <1>1, <1>2, <1>5 DEF TerminateOrder
<1>6. ASSUME NEW w \in DOMAIN fleetOrders, FleetProgress(w) \/ PollObserve(w)
      PROVE  FALSE
  BY <1>1, <1>6, FleetKeptProgress DEF PollObserve
<1>7. ASSUME \/ RecordDispatch \/ SendAck \/ CancelOrder \/ CompleteOrder
             \/ RedirectOrder \/ TerminateWrite \/ PollResolve \/ PollSnapshot
             \/ PollWrite \/ PollSettle \/ Crash \/ Start \/ UNCHANGED vars
      PROVE  FALSE
  BY <1>1, <1>7 DEF RecordDispatch, SendAck, CancelOrder, CompleteOrder,
     RedirectOrder, TerminateWrite, PollResolve, PollSnapshot, PollWrite,
     PollSettle, Crash, Start, vars
<1>8. CreateTransportOrder
  BY <1>3, <1>4, <1>5, <1>6, <1>7 DEF Next
<1>9. fleetOrders' = Append(fleetOrders, FleetOrder)
  BY <1>1, <1>8 DEF CreateTransportOrder
<1>10. v = Len(fleetOrders) + 1
  BY <1>9, LenProperties DEF TypeOK, FleetOK
<1>11. QED
  BY <1>8, <1>9, <1>10

\* Recording the dispatch gives the row the fleet order that was made for it.
LEMMA RecordedVendor ==
    ASSUME TypeOK, RecordDispatch
    PROVE  /\ orders'[dispatcher.order].vendor = dispatcher.vendor
           /\ orders'[dispatcher.order].status = "dispatched"
<1> DEFINE o == dispatcher.order
           row == [orders[o] EXCEPT !.vendor = dispatcher.vendor, !.robot = FALSE,
                                    !.status = "dispatched"]
<1>1. /\ o \in DOMAIN orders /\ dispatcher.vendor \in Nat
      /\ orders \in Seq(Order) /\ orders[o] \in Order
  BY OrderRow DEF TypeOK, OrdersOK, DispatcherOK, RecordDispatch
<1>2. /\ row \in Order /\ row.vendor = dispatcher.vendor /\ row.status = "dispatched"
      /\ orders' = [orders EXCEPT ![o] = row]
  BY <1>1 DEF RecordDispatch, Order, Status
<1> HIDE DEF row
<1>3. orders'[o] = row
  BY <1>1, <1>2, RowReplaced
<1>4. QED
  BY <1>2, <1>3

\* Carried by an order, and carried on.
LEMMA CarriesStep ==
    ASSUME Calm, TypeOK, FollowInv, CalmInv, [Next]_vars,
           NEW o \in DOMAIN orders, NEW v \in DOMAIN fleetOrders, Carries(o, v)
    PROVE  Carries(o, v)'
<1>1. v # 0
  BY LenProperties DEF TypeOK, FleetOK
<1>2. "redirect" \notin Inputs /\ "crash" \notin Inputs
  BY DEF Calm
<1>3. CASE orders[o].vendor = v
  BY <1>1, <1>2, <1>3, VendorStep DEF VendorKept, Carries
<1>4. CASE dispatcher.pc = "record" /\ dispatcher.order = o /\ dispatcher.vendor = v
  <2>1. UNCHANGED dispatcher \/ RecordDispatch
    BY <1>2, <1>4, BusyStep DEF CreateTransportOrder, SendAck, CancelOrder, CompleteOrder
  <2>2. QED
    BY <1>4, <2>1, RecordedVendor DEF Carries
<1>5. QED
  BY <1>3, <1>4 DEF Carries

\* A claim that a robot under way relies on is not released.
LEMMA CargoKept ==
    ASSUME Calm, TypeOK, FollowInv, CalmInv, [Next]_vars,
           NEW v \in DOMAIN fleetOrders, ~IsTerminal(fleetOrders[v].state),
           NEW p \in Payloads, claimedBy[p] # 0, Carries(claimedBy[p], v)
    PROVE  claimedBy'[p] = claimedBy[p]
<1> SUFFICES ASSUME claimedBy'[p] # claimedBy[p] PROVE FALSE
  OBVIOUS
<1> DEFINE o == dispatcher.order
<1>1. v # 0
  BY LenProperties DEF TypeOK, FleetOK
<1>2. /\ claimedBy[p] = o
      /\ dispatcher.pc \in {"create", "cancel", "receipt"}
  BY ReleaseStep DEF CreateTransportOrder, CancelOrder, CompleteOrder
<1>3. orders[o].vendor = v
  BY <1>2 DEF Carries
<1>4. CASE dispatcher.pc = "create"
  BY <1>1, <1>3, <1>4 DEF FollowInv, DispatchInv
<1>5. CASE dispatcher.pc \in {"cancel", "receipt"}
  BY <1>1, <1>3, <1>5 DEF CalmInv, BookInv, HandArrived, EndInv, HandEnded,
     Ended, Arrived, IsTerminal
<1>6. QED
  BY <1>2, <1>4, <1>5

\* What a robot on its way carries stays claimed by the order it drives for.
LEMMA CargoStep ==
    ASSUME Calm, TypeOK, FollowInv, CalmInv, [Next]_vars
    PROVE  CargoInv'
<1> SUFFICES ASSUME NEW v \in DOMAIN fleetOrders', ~IsTerminal(fleetOrders'[v].state),
                    NEW p \in fleetOrders'[v].cargo
             PROVE  (claimedBy[p] # 0 /\ Carries(claimedBy[p], v))'
  BY DEF CargoInv
<1>1. CASE v \in DOMAIN fleetOrders
  <2>1. /\ ~IsTerminal(fleetOrders[v].state) /\ p \in fleetOrders[v].cargo
        /\ fleetOrders[v] \in Transport
    BY <1>1, FleetStep, TransportRow DEF FleetKept, TransportKept, TypeOK, FleetOK
  <2>2. claimedBy[p] # 0 /\ Carries(claimedBy[p], v) /\ p \in Payloads
    BY <1>1, <2>1 DEF CalmInv, CargoInv, Transport
  <2>3. claimedBy'[p] = claimedBy[p]
    BY <1>1, <2>1, <2>2, CargoKept
  <2>4. claimedBy[p] \in DOMAIN orders
    BY <2>2, LenProperties DEF TypeOK, StockOK, OrdersOK
  <2>5. PICK o \in DOMAIN orders : o = claimedBy[p]
    BY <2>4
  <2>6. Carries(o, v)'
    BY <1>1, <2>2, <2>5, CarriesStep
  <2>7. QED
    BY <2>2, <2>3, <2>5, <2>6 DEF Carries
<1>2. CASE v \notin DOMAIN fleetOrders
  <2>1. /\ CreateTransportOrder /\ fleetOrders' = Append(fleetOrders, FleetOrder)
        /\ v = Len(fleetOrders) + 1
    BY <1>2, NewTransportStep
  <2>2. "create_reply_lost" \notin Faults
    BY DEF Calm
  <2>3. ~UNCHANGED fleetOrders
    BY <1>2
  <2>4. /\ dispatcher' = [dispatcher EXCEPT !.pc = "record",
                                            !.vendor = Len(fleetOrders) + 1]
        /\ UNCHANGED <<orders, claimedBy, outbox>>
    BY <2>1, <2>2, <2>3 DEF CreateTransportOrder
  <2>5. /\ dispatcher'.pc = "record" /\ dispatcher'.vendor = v
        /\ dispatcher'.order = dispatcher.order /\ dispatcher.order \in DOMAIN orders
    BY <2>1, <2>4 DEF TypeOK, DispatcherOK, CreateTransportOrder
  <2>6. claimedBy[p] = dispatcher.order
    BY <2>1, LenProperties DEF FleetOrder, Cargo, TypeOK, FleetOK
  <2>7. dispatcher.order # 0
    BY <2>5, LenProperties DEF TypeOK, OrdersOK
  <2>8. QED
    BY <2>4, <2>5, <2>6, <2>7 DEF Carries
<1>3. QED
  BY <1>1, <1>2

\* Who writes the status of an order that is with the fleet, or was.
StatusMove(q) ==
    \/ orders'[q].status = orders[q].status
    \/ RecordDispatch /\ orders'[q].status = "dispatched"
    \/ CreateTransportOrder /\ q = dispatcher.order
    \/ CancelOrder /\ q = dispatcher.order
    \/ \E u \in Uuids : HandleOrderReceipt(u) /\ q \in ByUuid(u)
    \/ /\ PollWrite \/ PollSettle
       /\ q = poller.order /\ orders'[q].status = MapState(poller.state)

\* The poller's write changes one row's status, to what it makes of the fleet's.
LEMMA StatusByWrite ==
    ASSUME TypeOK, PollWrite, NEW q \in DOMAIN orders
    PROVE  StatusMove(q)
<1> DEFINE o == poller.order
<1>1. o \in DOMAIN orders /\ orders \in Seq(Order) /\ orders[o] \in Order
  BY OrderRow DEF TypeOK, OrdersOK, PollerOK, PollWrite
<1>2. /\ poller.snapVendor \in Nat /\ poller.vehicle \in BOOLEAN
      /\ MapState(poller.state) \in Status
  BY MapStateTyped DEF TypeOK, PollerOK
<1>3. CASE StatusChanged
  <2> DEFINE row == [orders[o] EXCEPT !.status = MapState(poller.state),
                                      !.vendor = poller.snapVendor,
                                      !.robot = poller.vehicle]
  <2>1. row \in Order /\ row.status = MapState(poller.state)
    BY <1>1, <1>2 DEF Order
  <2>2. orders' = [orders EXCEPT ![o] = row]
    BY <1>3 DEF PollWrite
  <2> HIDE DEF row
  <2>3. orders'[q] = IF q = o THEN row ELSE orders[q]
    BY <1>1, <2>1, <2>2, RowReplaced
  <2>4. QED
    BY <2>1, <2>3 DEF StatusMove
<1>4. CASE ~StatusChanged /\ NewRobot
  <2> DEFINE row == [orders[o] EXCEPT !.vendor = poller.snapVendor, !.robot = TRUE]
  <2>1. row \in Order /\ row.status = orders[o].status
    BY <1>1, <1>2 DEF Order
  <2>2. orders' = [orders EXCEPT ![o] = row]
    BY <1>4 DEF PollWrite
  <2> HIDE DEF row
  <2>3. orders'[q] = IF q = o THEN row ELSE orders[q]
    BY <1>1, <2>1, <2>2, RowReplaced
  <2>4. QED
    BY <2>1, <2>3 DEF StatusMove
<1>5. CASE ~StatusChanged /\ ~NewRobot
  BY <1>5 DEF PollWrite, StatusMove
<1>6. QED
  BY <1>3, <1>4, <1>5

\* The writes that change a status, without redirects and terminate clicks.
LEMMA StatusStep ==
    ASSUME "redirect" \notin Inputs, web = 0, TypeOK, FollowInv, [Next]_vars,
           NEW q \in DOMAIN orders
    PROVE  StatusMove(q)
<1>1. ASSUME UNCHANGED orders PROVE StatusMove(q)
  BY <1>1 DEF StatusMove
<1>2. ASSUME NEW row, orders' = Append(orders, row)
      PROVE  StatusMove(q)
  BY <1>2, LenProperties DEF TypeOK, OrdersOK, StatusMove
<1>3. ASSUME NEW o \in DOMAIN orders, NEW st \in Status,
             orders' = [orders EXCEPT ![o].status = st]
      PROVE  orders'[q].status = IF q = o THEN st ELSE orders[q].status
  <2>1. \A w \in DOMAIN orders :
          orders'[w].status = IF w = o THEN st ELSE orders[w].status
    BY <1>3, StatusWritten DEF TypeOK, OrdersOK
  <2>2. QED
    BY <2>1
<1>4. "failed" \in Status /\ "cancelled" \in Status /\ "confirmed" \in Status
  BY DEF Status
<1>5. ASSUME NEW m \in Request, HandleOrderRequest(m) \/ HandleOrderStorageWaybill(m)
      PROVE  StatusMove(q)
  BY <1>1, <1>2, <1>5, RequestEffect, RowFromRequest DEF RowInserted
<1>6. CASE CreateTransportOrder
  <2>1. CASE UNCHANGED orders
    BY <1>1, <2>1
  <2>2. CASE FailOrder(dispatcher.order)
    <3>1. /\ dispatcher.order \in DOMAIN orders
          /\ orders' = [orders EXCEPT ![dispatcher.order].status = "failed"]
      BY <1>6, <2>2 DEF FailOrder, CreateTransportOrder, TypeOK, DispatcherOK
    <3>2. QED
      BY <1>3, <1>4, <1>6, <3>1 DEF StatusMove
  <2>3. QED
    BY <1>6, <2>1, <2>2 DEF CreateTransportOrder
<1>7. CASE RecordDispatch
  <2> DEFINE o == dispatcher.order
             v == dispatcher.vendor
             row == [orders[o] EXCEPT !.vendor = v, !.robot = FALSE,
                                      !.status = "dispatched"]
  <2>1. o \in DOMAIN orders /\ v \in Nat /\ orders \in Seq(Order) /\ orders[o] \in Order
    BY <1>7, OrderRow DEF TypeOK, OrdersOK, DispatcherOK, RecordDispatch
  <2>2. row \in Order /\ row.status = "dispatched" /\ orders' = [orders EXCEPT ![o] = row]
    BY <1>7, <2>1 DEF RecordDispatch, Order, Status
  <2> HIDE DEF row
  <2>3. orders'[q] = IF q = o THEN row ELSE orders[q]
    BY <2>1, <2>2, RowReplaced
  <2>4. QED
    BY <1>7, <2>2, <2>3 DEF StatusMove
<1>8. CASE CancelOrder
  <2>1. /\ dispatcher.order \in DOMAIN orders
        /\ orders' = [orders EXCEPT ![dispatcher.order].status = "cancelled"]
    BY <1>8 DEF CancelOrder, TypeOK, DispatcherOK
  <2>2. QED
    BY <1>3, <1>4, <1>8, <2>1 DEF StatusMove
<1>9. ASSUME NEW u \in Uuids,
             \/ HandleOrderCancel(u)
             \/ HandleOrderReceipt(u)
             \/ \E d \in NewDests : HandleOrderRedirect(u, d)
             \/ \E kind \in {"cancel", "receipt", "redirect"} : DropUnknown(kind, u)
      PROVE  StatusMove(q)
  <2>1. CASE HandleOrderReceipt(u)
    <3>1. PICK o \in ByUuid(u) : orders' = [orders EXCEPT ![o].status = "confirmed"]
      BY <2>1 DEF HandleOrderReceipt
    <3>2. o \in DOMAIN orders
      BY DEF ByUuid
    <3>3. QED
      BY <1>3, <1>4, <2>1, <3>1, <3>2 DEF StatusMove
  <2>2. CASE UNCHANGED orders
    BY <1>1, <2>2
  <2>3. QED
    BY <1>9, <2>1, <2>2 DEF HandleOrderCancel, HandleOrderRedirect, DropUnknown
<1>10. CASE PollSettle
  <2>1. /\ poller.order \in DOMAIN orders
        /\ orders' = [orders EXCEPT ![poller.order].status = MapState(poller.state)]
        /\ MapState(poller.state) \in Status
    BY <1>10, MapStateTyped DEF PollSettle, TypeOK, PollerOK
  <2>2. orders'[q].status = IF q = poller.order THEN MapState(poller.state)
                                               ELSE orders[q].status
    BY <1>3, <2>1
  <2>3. QED
    BY <1>10, <2>2 DEF StatusMove
<1>11. CASE RedirectOrder \/ TerminateWrite
  BY <1>11 DEF RedirectOrder, FollowInv, DispatchInv, TerminateWrite
<1>12. CASE \/ SendAck \/ CompleteOrder \/ PollResolve \/ PollSnapshot \/ Crash
            \/ Start \/ UNCHANGED vars
  BY <1>1, <1>12 DEF SendAck, CompleteOrder, PollResolve, PollSnapshot, Crash,
                     Start, vars
<1>13. ASSUME NEW o \in DOMAIN orders, TerminateOrder(o) PROVE StatusMove(q)
  BY <1>1, <1>13 DEF TerminateOrder
<1>14. ASSUME NEW v \in DOMAIN fleetOrders, FleetProgress(v) \/ PollObserve(v)
       PROVE  StatusMove(q)
  BY <1>1, <1>14 DEF FleetProgress, PollObserve
<1>15. QED
  BY <1>5, <1>6, <1>7, <1>8, <1>9, <1>10, <1>11, <1>12, <1>13, <1>14,
     StatusByWrite, CoreAssumption DEF Next

\* An arrival is for good, and so is any end.
LEMMA EndStays ==
    ASSUME "redirect" \notin Inputs, TypeOK, FollowInv, [Next]_vars,
           NEW q \in DOMAIN orders
    PROVE  /\ Arrived(q) => Arrived(q)'
           /\ orders[q].vendor # 0 /\ Ended(q) => Ended(q)'
           /\ orders[q].vendor = 0 /\ ~RecordDispatch => Ended(q)'
<1>1. CASE orders[q].vendor = 0
  BY <1>1, VendorStep DEF VendorKept, Ended, Arrived
<1>2. CASE orders[q].vendor # 0
  <2>1. orders'[q].vendor = orders[q].vendor
    BY <1>2, VendorStep DEF VendorKept
  <2>2. orders[q].vendor \in DOMAIN fleetOrders
    BY <1>2, LenProperties DEF TypeOK, OrdersOK, FleetOK
  <2>3. TransportKept(orders[q].vendor)
    BY <2>2, FleetStep DEF FleetKept
  <2>4. QED
    BY <1>2, <2>1, <2>3 DEF TransportKept, Ended, Arrived, IsTerminal
<1>3. QED
  BY <1>1, <1>2

\* The order that the poller writes the end of has come to that end.
LEMMA PolledEnd ==
    ASSUME TypeOK, FollowInv, SeenEnded, PollWrite \/ PollSettle,
           IsTerminal(poller.state)
    PROVE  /\ poller.order \in DOMAIN orders
           /\ orders[poller.order].vendor # 0
           /\ fleetOrders[orders[poller.order].vendor].state = poller.state
BY DEF PollWrite, PollSettle, FollowInv, PollInv, SeenEnded, TypeOK, PollerOK

\* What the fleet's states mean for the status, read backwards.
LEMMA MapStateBack ==
    ASSUME NEW s
    PROVE  /\ MapState(s) \in TerminalStatus => s \in {"FAILED", "STOPPED"}
           /\ MapState(s) = "failed" => s = "FAILED"
           /\ MapState(s) = "cancelled" => s = "STOPPED"
           /\ MapState(s) = "delivered" => s = "FINISHED"
<1>1. CASE s = "RUNNING"
  BY <1>1 DEF MapState, TerminalStatus
<1>2. CASE s = "FINISHED"
  BY <1>2 DEF MapState, TerminalStatus
<1>3. CASE s = "FAILED"
  BY <1>3 DEF MapState, TerminalStatus
<1>4. CASE s = "STOPPED"
  BY <1>4 DEF MapState, TerminalStatus
<1>5. CASE s \notin {"RUNNING", "FINISHED", "FAILED", "STOPPED"}
  <2>1. MapState(s) = "dispatched"
    BY <1>5 DEF MapState
  <2>2. QED
    BY <2>1 DEF TerminalStatus
<1>6. QED
  BY <1>1, <1>2, <1>3, <1>4, <1>5

\* An edge that confirms an order was told of its arrival.
LEMMA ReceiptOfArrival ==
    ASSUME UuidInv, ToldArrived, NEW u \in Uuids, HandleOrderReceipt(u),
           NEW o \in ByUuid(u)
    PROVE  o \in DOMAIN orders /\ Arrived(o)
<1>1. Told(u) # {}
  BY DEF HandleOrderReceipt, Told
<1>2. PICK q \in DOMAIN orders : orders[q].uuid = u /\ Arrived(q)
  BY <1>1 DEF ToldArrived
<1>3. o \in DOMAIN orders /\ orders[o].uuid = u
  BY DEF ByUuid
<1>4. o = q
  BY <1>2, <1>3 DEF UuidInv
<1>5. QED
  BY <1>2, <1>3, <1>4

\* A row whose status is written as over belongs to a robot that is over.
LEMMA RowsEndedStep ==
    ASSUME Calm, TypeOK, FollowInv, CalmInv, [Next]_vars
    PROVE  RowsEnded'
<1> SUFFICES ASSUME NEW q \in DOMAIN orders', orders'[q].status \in TerminalStatus,
                    orders'[q].vendor # 0
             PROVE  Ended(q)'
  BY DEF RowsEnded, Ended
<1>1. "redirect" \notin Inputs /\ web = 0
  BY DEF Calm, CalmInv
<1>2. q \in DOMAIN orders
  BY NewRowStep
<1>3. StatusMove(q) /\ VendorKept(q)
  BY <1>1, <1>2, StatusStep, VendorStep
<1>4. ~(RecordDispatch /\ orders'[q].status = "dispatched")
  BY DEF TerminalStatus
<1>5. orders[q].vendor # 0
  BY <1>3, <1>4, RecordedVendor DEF VendorKept
<1>6. Ended(q)
  <2>1. CASE orders'[q].status = orders[q].status
    BY <1>2, <2>1 DEF CalmInv, EndInv, RowsEnded
  <2>2. CASE CreateTransportOrder /\ q = dispatcher.order
    BY <1>5, <2>2 DEF CreateTransportOrder, FollowInv, DispatchInv
  <2>3. CASE CancelOrder /\ q = dispatcher.order
    BY <2>3 DEF CancelOrder, CalmInv, EndInv, HandEnded
  <2>4. ASSUME NEW u \in Uuids, HandleOrderReceipt(u), q \in ByUuid(u)
        PROVE  Ended(q)
    BY <2>4, ReceiptOfArrival DEF CalmInv, BookInv, Arrived, Ended, IsTerminal
  <2>5. CASE /\ PollWrite \/ PollSettle
             /\ q = poller.order /\ orders'[q].status = MapState(poller.state)
    <3>1. IsTerminal(poller.state)
      BY <2>5, MapStateBack DEF IsTerminal
    <3>2. QED
      BY <2>5, <3>1, PolledEnd DEF CalmInv, BookInv, Ended
  <2>6. QED
    BY <1>3, <1>4, <2>1, <2>2, <2>3, <2>4, <2>5 DEF StatusMove
<1>7. QED
  BY <1>1, <1>2, <1>5, <1>6, EndStays

\* A fleet order that core has called to stop, and that was told so, has ended.
LEMMA StoppedEnds ==
    ASSUME TypeOK, "cancel_error" \notin Faults, NEW v \in DOMAIN fleetOrders,
           fleetOrders' \in Terminated(v)
    PROVE  IsTerminal(fleetOrders'[v].state)
<1>1. fleetOrders[v] \in Transport
  BY TransportRow DEF TypeOK, FleetOK
<1>2. fleetOrders' = [w \in DOMAIN fleetOrders |->
                        IF w = v /\ ~IsTerminal(fleetOrders[w].state)
                        THEN [fleetOrders[w] EXCEPT !.state = "STOPPED"]
                        ELSE fleetOrders[w]]
  BY DEF Terminated
<1>3. CASE IsTerminal(fleetOrders[v].state)
  BY <1>2, <1>3
<1>4. CASE ~IsTerminal(fleetOrders[v].state)
  <2>1. fleetOrders'[v] = [fleetOrders[v] EXCEPT !.state = "STOPPED"]
    BY <1>2, <1>4
  <2>2. QED
    BY <1>1, <2>1 DEF Transport, IsTerminal
<1>5. QED
  BY <1>3, <1>4

\* The dispatcher cancels only orders whose transport is at its end.
LEMMA HandEndedStep ==
    ASSUME Calm, TypeOK, FollowInv, CalmInv, [Next]_vars
    PROVE  HandEnded'
<1>1. "redirect" \notin Inputs /\ "cancel_error" \notin Faults
  BY DEF Calm
<1>2. HandMove
  BY <1>1, HandStep
<1>3. CASE UNCHANGED dispatcher
  <2> DEFINE q == dispatcher.order
  <2>1. CASE dispatcher.pc = "cancel"
    <3>1. q \in DOMAIN orders /\ ~RecordDispatch /\ Ended(q)
      BY <2>1 DEF TypeOK, DispatcherOK, RecordDispatch, CalmInv, EndInv, HandEnded
    <3>2. PICK o \in DOMAIN orders : o = q
      BY <3>1
    <3>3. Ended(o)'
      BY <1>1, <3>1, <3>2, EndStays
    <3>4. QED
      BY <1>3, <2>1, <3>2, <3>3 DEF HandEnded, Ended
  <2>2. QED
    BY <1>3, <2>1 DEF HandEnded
<1>4. CASE dispatcher'.pc \in {"idle", "ack", "record", "create", "receipt"}
  BY <1>4 DEF HandEnded
<1>5. ASSUME dispatcher'.pc = "cancel", NEW u \in Uuids, HandleOrderCancel(u)
      PROVE  HandEnded'
  <2>1. PICK o \in ByUuid(u) :
          /\ IF orders[o].vendor # 0 /\ orders[o].status \notin TerminalStatus
             THEN fleetOrders' \in Terminated(orders[o].vendor)
             ELSE UNCHANGED fleetOrders
          /\ dispatcher' = [Idle EXCEPT !.pc = "cancel", !.order = o]
    BY <1>5 DEF HandleOrderCancel
  <2>2. /\ UNCHANGED orders /\ dispatcher'.order = o /\ o \in DOMAIN orders
    BY <1>5, <2>1 DEF HandleOrderCancel, Idle, ByUuid
  <2>3. Ended(o)'
    <3>1. CASE orders[o].vendor = 0
      BY <2>2, <3>1 DEF Ended
    <3>2. CASE orders[o].vendor # 0 /\ orders[o].status \in TerminalStatus
      BY <2>1, <2>2, <3>2 DEF CalmInv, EndInv, RowsEnded, Ended
    <3>3. CASE orders[o].vendor # 0 /\ orders[o].status \notin TerminalStatus
      <4>1. orders[o].vendor \in DOMAIN fleetOrders
        BY <2>2, <3>3, LenProperties DEF TypeOK, OrdersOK, FleetOK
      <4>2. IsTerminal(fleetOrders'[orders[o].vendor].state)
        BY <1>1, <2>1, <3>3, <4>1, StoppedEnds
      <4>3. QED
        BY <2>2, <4>2 DEF Ended
    <3>4. QED
      BY <3>1, <3>2, <3>3
  <2>4. QED
    BY <1>5, <2>2, <2>3 DEF HandEnded, Ended
<1>6. QED
  BY <1>2, <1>3, <1>4, <1>5 DEF HandMove

\* The dispatcher completes only orders whose transport has arrived.
LEMMA HandArrivedStep ==
    ASSUME "redirect" \notin Inputs, TypeOK, FollowInv, BookInv, [Next]_vars
    PROVE  HandArrived'
<1>1. HandMove
  BY HandStep
<1>2. CASE UNCHANGED dispatcher
  <2> SUFFICES ASSUME dispatcher.pc = "receipt" PROVE Arrived(dispatcher.order)'
    BY <1>2 DEF HandArrived
  <2>1. PICK o \in DOMAIN orders : o = dispatcher.order /\ Arrived(o)
    BY DEF TypeOK, DispatcherOK, BookInv, HandArrived
  <2>2. Arrived(o)'
    BY <2>1, EndStays
  <2>3. QED
    BY <1>2, <2>1, <2>2 DEF Arrived
<1>3. CASE dispatcher'.pc # "receipt"
  BY <1>3 DEF HandArrived
<1>4. ASSUME dispatcher'.pc = "receipt", NEW u \in Uuids, HandleOrderReceipt(u)
      PROVE  HandArrived'
  <2>1. PICK o \in ByUuid(u) : dispatcher' = [Idle EXCEPT !.pc = "receipt", !.order = o]
    BY <1>4 DEF HandleOrderReceipt
  <2>2. o \in DOMAIN orders /\ Arrived(o) /\ dispatcher'.order = o
    BY <1>4, <2>1, ReceiptOfArrival DEF BookInv, Idle
  <2>3. Arrived(o)'
    BY <2>2, EndStays
  <2>4. QED
    BY <2>2, <2>3 DEF HandArrived, Arrived
<1>5. QED
  BY <1>1, <1>2, <1>3, <1>4 DEF HandMove

\* A delivery that is told has arrived, and stays so.
LEMMA ToldArrivedStep ==
    ASSUME "redirect" \notin Inputs, TypeOK, FollowInv, BookInv, [Next]_vars
    PROVE  ToldArrived'
<1> SUFFICES ASSUME NEW u \in Uuids, Told(u)' # {}
             PROVE  \E o \in DOMAIN orders' : orders'[o].uuid = u /\ Arrived(o)'
  BY DEF ToldArrived, Arrived
<1>1. ASSUME NEW o \in DOMAIN orders, orders[o].uuid = u, Arrived(o)
      PROVE  o \in DOMAIN orders' /\ orders'[o].uuid = u /\ Arrived(o)'
  BY <1>1, RowsStay, EndStays DEF RouteKept
<1>2. CASE Told(u) # {}
  BY <1>1, <1>2 DEF BookInv, ToldArrived
<1>3. CASE Told(u) = {}
  <2>1. PollSettle /\ MapState(poller.state) = "delivered"
    BY <1>3, OutboxStep DEF Quiet
  <2>2. IsTerminal(poller.state) /\ poller.state = "FINISHED"
    BY <2>1, MapStateBack DEF IsTerminal
  <2> DEFINE q == poller.order
  <2>3. q \in DOMAIN orders /\ Arrived(q) /\ orders[q].uuid \in Uuids
    BY <2>1, <2>2, PolledEnd, OrderRow DEF BookInv, Arrived, TypeOK, OrdersOK
  <2>4. orders[q].uuid = u
    BY <1>3, <2>1, <2>3, OneMoreTold DEF PollSettle
  <2>5. PICK o \in DOMAIN orders : o = q
    BY <2>3
  <2>6. QED
    BY <1>1, <2>3, <2>4, <2>5
<1>4. QED
  BY <1>2, <1>3

\* What the poller holds: its own job, or the news of a fleet order.
PollMove ==
    \/ UNCHANGED poller
    \/ poller'.pc = "idle"
    \/ /\ poller.pc # "idle"
       /\ poller'.vendor = poller.vendor /\ poller'.state = poller.state
    \/ \E v \in DOMAIN fleetOrders :
         /\ PollObserve(v)
         /\ poller'.vendor = v /\ poller'.state = fleetOrders[v].state

\* What a step does to what the poller has in hand.
LEMMA PollStep ==
    ASSUME TypeOK, [Next]_vars
    PROVE  PollMove
<1>1. ASSUME UNCHANGED poller \/ poller' = PollIdle PROVE PollMove
  BY <1>1, PollIdleTyped DEF PollMove
<1>2. ASSUME NEW m, HandleOrderRequest(m) \/ HandleOrderStorageWaybill(m)
      PROVE  PollMove
  BY <1>1, <1>2 DEF HandleOrderRequest, HandleOrderStorageWaybill
<1>3. ASSUME NEW u \in Uuids,
             \/ HandleOrderCancel(u)
             \/ HandleOrderReceipt(u)
             \/ \E d \in NewDests : HandleOrderRedirect(u, d)
             \/ \E kind \in {"cancel", "receipt", "redirect"} : DropUnknown(kind, u)
      PROVE  PollMove
  BY <1>1, <1>3 DEF HandleOrderCancel, HandleOrderReceipt, HandleOrderRedirect, DropUnknown
<1>4. ASSUME NEW o \in DOMAIN orders, TerminateOrder(o) PROVE PollMove
  BY <1>1, <1>4 DEF TerminateOrder
<1>5. ASSUME NEW v \in DOMAIN fleetOrders, FleetProgress(v) PROVE PollMove
  BY <1>1, <1>5 DEF FleetProgress
<1>6. ASSUME NEW v \in DOMAIN fleetOrders, PollObserve(v) PROVE PollMove
  <2>1. poller'.vendor = v /\ poller'.state = fleetOrders[v].state
    BY <1>6 DEF PollObserve, PollIdle
  <2>2. QED
    BY <1>6, <2>1 DEF PollMove
<1>7. CASE PollResolve
  <2>1. ASSUME NEW o, poller' = [poller EXCEPT !.pc = "snapshot", !.order = o]
        PROVE  poller'.vendor = poller.vendor /\ poller'.state = poller.state
    BY <2>1 DEF TypeOK, PollerOK
  <2>2. QED
    BY <1>1, <1>7, <2>1 DEF PollResolve, PollMove
<1>8. CASE PollSnapshot
  <2>1. poller'.vendor = poller.vendor /\ poller'.state = poller.state
    BY <1>8 DEF PollSnapshot, TypeOK, PollerOK
  <2>2. QED
    BY <1>8, <2>1 DEF PollSnapshot, PollMove
<1>9. CASE PollWrite
  <2>1. CASE poller' = [poller EXCEPT !.pc = "settle"]
    <3>1. poller'.vendor = poller.vendor /\ poller'.state = poller.state
      BY <2>1 DEF TypeOK, PollerOK
    <3>2. QED
      BY <1>9, <3>1 DEF PollWrite, PollMove
  <2>2. QED
    BY <1>1, <1>9, <2>1 DEF PollWrite
<1>10. CASE PollSettle \/ Crash
  BY <1>1, <1>10 DEF PollSettle, Crash
<1>11. CASE \/ CreateTransportOrder \/ RecordDispatch \/ SendAck \/ CancelOrder
            \/ CompleteOrder \/ RedirectOrder \/ TerminateWrite \/ Start
            \/ UNCHANGED vars
  BY <1>1, <1>11 DEF CreateTransportOrder, RecordDispatch, SendAck, CancelOrder,
     CompleteOrder, RedirectOrder, TerminateWrite, Start, vars
<1>12. QED
  BY <1>2, <1>3, <1>4, <1>5, <1>6, <1>7, <1>8, <1>9, <1>10, <1>11 DEF Next

\* An end that the poller has seen is the end the transport stays at.
LEMMA SeenEndedStep ==
    ASSUME TypeOK, SeenEnded, [Next]_vars
    PROVE  SeenEnded'
<1>1. PollMove /\ FleetKept
  BY PollStep, FleetStep
<1>2. ASSUME poller.pc # "idle", poller'.vendor = poller.vendor,
             poller'.state = poller.state
      PROVE  SeenEnded'
  BY <1>1, <1>2 DEF SeenEnded, FleetKept, TransportKept
<1>3. ASSUME NEW v \in DOMAIN fleetOrders, PollObserve(v), poller'.vendor = v,
             poller'.state = fleetOrders[v].state
      PROVE  SeenEnded'
  BY <1>3 DEF SeenEnded, PollObserve
<1>4. CASE poller'.pc = "idle"
  BY <1>4 DEF SeenEnded
<1>5. QED
  BY <1>1, <1>2, <1>3, <1>4 DEF PollMove

\* What a booking rests on is inductive as long as no request is repeated and no
\* order redirected.
LEMMA BookStep ==
    ASSUME "repeat" \notin Inputs, "redirect" \notin Inputs
    PROVE  TypeOK /\ FollowInv /\ BookInv /\ [Next]_vars => BookInv'
<1> SUFFICES ASSUME TypeOK, FollowInv, BookInv, [Next]_vars PROVE BookInv'
  OBVIOUS
<1>1. UuidInv' /\ RouteInv' /\ SeenEnded'
  BY UuidStep, RouteStep, SeenEndedStep DEF BookInv
<1>2. HandArrived' /\ ToldArrived'
  BY HandArrivedStep, ToldArrivedStep
<1>3. QED
  BY <1>1, <1>2 DEF BookInv

LEMMA BookInit == Init => BookInv
BY DEF Init, BookInv, UuidInv, RouteInv, HandArrived, ToldArrived, SeenEnded, Told,
   Idle, PollIdle

\* The invariant of the calm plant is inductive.
LEMMA CalmInvStep ==
    ASSUME Calm
    PROVE  TypeOK /\ FollowInv /\ CalmInv /\ [Next]_vars => CalmInv'
<1> SUFFICES ASSUME TypeOK, FollowInv, CalmInv, [Next]_vars PROVE CalmInv'
  OBVIOUS
<1>1. "repeat" \notin Inputs /\ "redirect" \notin Inputs
  BY DEF Calm
<1>2. up' /\ web' = 0
  BY CalmStep
<1>3. BookInv' /\ CargoInv'
  BY <1>1, BookStep, CargoStep DEF CalmInv
<1>4. EndInv'
  BY RowsEndedStep, HandEndedStep DEF EndInv
<1>5. QED
  BY <1>2, <1>3, <1>4 DEF CalmInv

\* The calm plant starts calm.
LEMMA CalmInvInit == Init => CalmInv
BY BookInit DEF Init, CalmInv, CargoInv, EndInv, RowsEnded, HandEnded, Idle

\* What is needed to follow the fleet holds at first.
LEMMA FollowInit == Init => FollowInv
BY DEF Init, FollowInv, DispatchInv, VendorInv, PollInv, DownInv,
   DispatchedIsTracked, Idle, PollIdle

\* In a calm plant the three invariants hold of every reachable state.
LEMMA CalmCorrect ==
    ASSUME Calm
    PROVE  Spec => [](TypeOK /\ FollowInv /\ CalmInv)
<1>1. "redirect" \notin Inputs
  BY DEF Calm
<1>2. TypeOK /\ FollowInv /\ [Next]_vars => FollowInv'
  BY <1>1, FollowStep
<1>3. TypeOK /\ FollowInv /\ CalmInv /\ [Next]_vars => CalmInv'
  BY CalmInvStep
<1>4. QED
  BY <1>2, <1>3, TypeInit, TypeStep, FollowInit, CalmInvInit, PTL DEF Spec

\* What a booking rests on holds in every state that is reached without
\* repeated requests and redirections.
LEMMA BookCorrect ==
    ASSUME "repeat" \notin Inputs, "redirect" \notin Inputs
    PROVE  Spec => [](TypeOK /\ FollowInv /\ BookInv)
<1>1. TypeOK /\ FollowInv /\ [Next]_vars => FollowInv'
  BY FollowStep
<1>2. TypeOK /\ FollowInv /\ BookInv /\ [Next]_vars => BookInv'
  BY BookStep
<1>3. QED
  BY <1>1, <1>2, TypeInit, TypeStep, FollowInit, BookInit, PTL DEF Spec

\* Two orders do not carry one transport, nor one order two.
LEMMA OneCarrier ==
    ASSUME TypeOK, FollowInv, NEW o \in DOMAIN orders,
           NEW v \in DOMAIN fleetOrders, NEW w \in DOMAIN fleetOrders,
           Carries(o, v), Carries(o, w)
    PROVE  v = w
<1>1. v # 0 /\ w # 0
  BY LenProperties DEF TypeOK, FleetOK
<1>2. QED
  BY <1>1 DEF Carries, FollowInv, DispatchInv

\* In a calm plant two robots are never on their way for one payload, whatever
\* orders are requested and cancelled and whatever the fleet turns down or
\* fails: a payload is in the cargo of the robot of the order that claims it.
THEOREM OneRobot ==
    ASSUME Calm
    PROVE  Spec => []OneRobotPerPayload
<1>1. TypeOK /\ FollowInv /\ CalmInv => OneRobotPerPayload
  <2> SUFFICES ASSUME TypeOK, FollowInv, CalmInv,
                      NEW v \in DOMAIN fleetOrders, NEW w \in DOMAIN fleetOrders,
                      ~IsTerminal(fleetOrders[v].state),
                      ~IsTerminal(fleetOrders[w].state),
                      NEW p \in fleetOrders[v].cargo, p \in fleetOrders[w].cargo
               PROVE  v = w
    BY DEF OneRobotPerPayload
  <2>1. p \in Payloads
    BY TransportRow DEF TypeOK, FleetOK, Transport
  <2>2. claimedBy[p] # 0 /\ Carries(claimedBy[p], v) /\ Carries(claimedBy[p], w)
    BY DEF CalmInv, CargoInv
  <2>3. claimedBy[p] \in DOMAIN orders
    BY <2>1, <2>2, LenProperties DEF TypeOK, StockOK, OrdersOK
  <2>4. QED
    BY <2>2, <2>3, OneCarrier
<1>2. QED
  BY <1>1, CalmCorrect, PTL

\* Unless a request is repeated or an order redirected, a receipt books a payload
\* at the node to which the fleet took it, once it is there: the order that claims
\* it is the one whose robot arrived, and that robot went where the order's row
\* says.  Crashes, terminations, failed calls to the fleet and orders that the
\* fleet fails or stops change nothing about it.
THEOREM BookedRight ==
    ASSUME "repeat" \notin Inputs, "redirect" \notin Inputs
    PROVE  Spec => BookedWhereDelivered
<1> DEFINE Booked(p) == LET o == claimedBy[p] IN
                          /\ o \in DOMAIN orders /\ orders[o].vendor # 0
                          /\ fleetOrders[orders[o].vendor].state = "FINISHED"
                          /\ location'[p] = fleetOrders[orders[o].vendor].to
<1>1. ASSUME TypeOK, FollowInv, BookInv, [Next]_vars, NEW p \in Payloads,
             location'[p] # location[p]
      PROVE  Booked(p)
  <2>1. CompleteOrder
    <3>1. ~UNCHANGED location
      BY <1>1
    <3>2. ASSUME NEW m \in Request, HandleOrderRequest(m) \/ HandleOrderStorageWaybill(m)
          PROVE  UNCHANGED location
      BY <1>1, <3>2, RequestEffect DEF RequestMove, Refused, Sourced, RejectRequest,
         FailNew, SourceNew, stock
    <3>3. ASSUME NEW u \in Uuids,
                 \/ HandleOrderCancel(u)
                 \/ HandleOrderReceipt(u)
                 \/ \E d \in NewDests : HandleOrderRedirect(u, d)
                 \/ \E kind \in {"cancel", "receipt", "redirect"} : DropUnknown(kind, u)
          PROVE  UNCHANGED location
      BY <3>3 DEF HandleOrderCancel, HandleOrderReceipt, HandleOrderRedirect,
         DropUnknown, stock
    <3>4. ASSUME \/ CreateTransportOrder \/ RecordDispatch \/ SendAck \/ CancelOrder
                 \/ RedirectOrder \/ TerminateWrite \/ PollResolve \/ PollSnapshot
                 \/ PollWrite \/ PollSettle \/ Crash \/ Start \/ UNCHANGED vars
                 \/ \E o \in DOMAIN orders : TerminateOrder(o)
                 \/ \E v \in DOMAIN fleetOrders : FleetProgress(v) \/ PollObserve(v)
          PROVE  UNCHANGED location
      BY <3>4 DEF CreateTransportOrder, RecordDispatch, SendAck, CancelOrder,
         RedirectOrder, TerminateWrite, PollResolve, PollSnapshot, PollWrite,
         PollSettle, Crash, Start, vars, TerminateOrder, FleetProgress,
         PollObserve, stock
    <3>5. QED
      BY <1>1, <3>1, <3>2, <3>3, <3>4, CoreAssumption DEF Next
  <2> DEFINE o == dispatcher.order
  <2>2. o \in DOMAIN orders /\ Arrived(o)
    BY <1>1, <2>1 DEF CompleteOrder, TypeOK, DispatcherOK, BookInv, HandArrived
  <2>3. claimedBy[p] = o /\ location'[p] = orders[o].dest
    BY <1>1, <2>1 DEF CompleteOrder, HandleOrderCompleted, stock
  <2>4. QED
    BY <1>1, <2>2, <2>3 DEF Arrived, BookInv, RouteInv
<1>2. TypeOK /\ FollowInv /\ BookInv /\ [Next]_vars =>
        [\A p \in Payloads : location'[p] # location[p] => Booked(p)]_location
  BY <1>1
<1>3. QED
  BY <1>2, BookCorrect, PTL DEF Spec, BookedWhereDelivered

-----------------------------------------------------------------------------
(* What keeps a claim after its order is over.                             *)

\* The dispatcher is about to release the order's claim.
Finishing(o) == dispatcher.pc \in {"cancel", "receipt"} /\ dispatcher.order = o

\* Nobody redirects or terminates an order or kills core, and the fleet stops an
\* order only when it is told to.  Requests may be repeated, and calls to the
\* fleet may fail in every way.
Undisturbed == /\ Inputs \cap {"redirect", "terminate", "crash"} = {}
               /\ "STOPPED" \notin FleetStates

\* OnlyFleetFailureLeaks is not inductive: the poller may write the end of an
\* order long after the cancellation that stopped its robot has released the
\* claim.  A transport that stands stopped was stopped by such a cancellation,
\* which released the order's claim or is about to...
StoppedReleased ==
    \A o \in DOMAIN orders :
        orders[o].vendor # 0 /\ fleetOrders[orders[o].vendor].state = "STOPPED"
        => Cargo(o) = {} \/ (dispatcher.pc = "cancel" /\ dispatcher.order = o)

\* ...and it never is one that no row carries yet.
RecordedRuns ==
    dispatcher.pc = "record" => fleetOrders[dispatcher.vendor].state # "STOPPED"

OverReleased ==
    \A o \in DOMAIN orders :
        orders[o].status \in TerminalStatus
        => Cargo(o) = {} \/ FleetGaveUp(o) \/ Finishing(o)

LeakInv ==
    /\ web = 0 /\ RouteInv /\ SeenEnded
    /\ StoppedReleased /\ RecordedRuns /\ OverReleased

\* No order that exists claims more than it did.
LEMMA CargoShrinks ==
    ASSUME TypeOK, [Next]_vars, NEW o \in DOMAIN orders
    PROVE  Cargo(o)' \subseteq Cargo(o)
<1>1. ClaimMove
  BY ClaimStep
<1>2. Len(orders) + 1 # o
  BY LenProperties DEF TypeOK, OrdersOK
<1>3. QED
  BY <1>1, <1>2 DEF ClaimMove, ClaimTaken, Unclaimed, Cargo

\* The steps with which the dispatcher finishes an order release its claim.
LEMMA FinishReleases ==
    ASSUME TypeOK, RouteInv, NEW o \in DOMAIN orders, o = dispatcher.order,
           \/ CancelOrder
           \/ CompleteOrder
           \/ FailOrder(dispatcher.order)
    PROVE  Cargo(o)' = {}
<1>1. o # 0
  BY LenProperties DEF TypeOK, OrdersOK
<1>2. CASE claimedBy' = Unclaimed(o)
  BY <1>1, <1>2 DEF Unclaimed, Cargo
<1>3. CASE CompleteOrder /\ UNCHANGED stock
  <2>1. orders[o].pickup = NoName \/ orders[o].dest \notin Nodes \/ claimedBy' = Unclaimed(o)
    BY <1>3 DEF CompleteOrder, HandleOrderCompleted
  <2>2. ASSUME orders[o].pickup = NoName \/ orders[o].dest \notin Nodes
        PROVE  \A p \in Payloads : claimedBy[p] # o
    BY <1>1, <2>2, CoreAssumption DEF RouteInv
  <2>3. QED
    BY <1>2, <1>3, <2>1, <2>2 DEF Cargo, stock
<1>4. QED
  BY <1>2, <1>3 DEF CancelOrder, CompleteOrder, FailOrder, HandleOrderCompleted

\* A transport is stopped by the cancellation of the order that carries it, and
\* by nothing else.
LEMMA StopStep ==
    ASSUME Undisturbed, TypeOK, FollowInv, LeakInv, [Next]_vars,
           NEW v \in DOMAIN fleetOrders, fleetOrders[v].state # "STOPPED",
           fleetOrders'[v].state = "STOPPED"
    PROVE  \E o \in DOMAIN orders :
              /\ orders[o].vendor = v /\ orders[o].vendor # 0 /\ UNCHANGED orders
              /\ dispatcher'.pc = "cancel" /\ dispatcher'.order = o
<1>1. ~UNCHANGED fleetOrders
  OBVIOUS
<1>2. ~Crash /\ ~TerminateWrite /\ ~RedirectOrder /\ (\A o : ~TerminateOrder(o))
      /\ \A u, d : ~HandleOrderRedirect(u, d)
  BY DEF Crash, TerminateWrite, TerminateOrder, TakeInput, Undisturbed, LeakInv,
     RedirectOrder, FollowInv, DispatchInv, HandleOrderRedirect, Receive
<1>3. ~CreateTransportOrder
  <2>1. fleetOrders' = Append(fleetOrders, FleetOrder) =>
          fleetOrders'[v] = fleetOrders[v]
    BY RowAppended, LenProperties, AppendProperties DEF TypeOK, FleetOK
  <2>2. QED
    BY <1>1, <2>1 DEF CreateTransportOrder
<1>4. \A w \in DOMAIN fleetOrders : ~FleetProgress(w)
  BY FleetKeptProgress DEF Undisturbed
<1>5. PICK u \in Uuids : HandleOrderCancel(u)
  <2>1. \A m \in Request : HandleOrderRequest(m) \/ HandleOrderStorageWaybill(m)
                             => UNCHANGED fleetOrders
    BY DEF HandleOrderRequest, HandleOrderStorageWaybill
  <2>2. ASSUME \/ RecordDispatch \/ SendAck \/ CancelOrder \/ CompleteOrder
               \/ PollResolve \/ PollSnapshot \/ PollWrite \/ PollSettle
               \/ Start \/ UNCHANGED vars
               \/ \E w \in DOMAIN fleetOrders : PollObserve(w)
               \/ \E w \in Uuids :
                    \/ HandleOrderReceipt(w)
                    \/ \E kind \in {"cancel", "receipt", "redirect"} : DropUnknown(kind, w)
        PROVE  UNCHANGED fleetOrders
    BY <2>2 DEF RecordDispatch, SendAck, CancelOrder, CompleteOrder, PollResolve,
       PollSnapshot, PollWrite, PollSettle, Start, vars, PollObserve,
       HandleOrderReceipt, DropUnknown
  <2>3. QED
    BY <1>1, <1>2, <1>3, <1>4, <2>1, <2>2, CoreAssumption DEF Next
<1>6. PICK o \in ByUuid(u) :
        /\ fleetOrders' \in Terminated(orders[o].vendor)
        /\ orders[o].vendor # 0
        /\ dispatcher' = [Idle EXCEPT !.pc = "cancel", !.order = o]
        /\ UNCHANGED orders
  BY <1>1, <1>5 DEF HandleOrderCancel
<1>7. v = orders[o].vendor
  BY <1>6, FleetKeptStopped
<1>8. QED
  BY <1>6, <1>7 DEF Idle, ByUuid

\* A cancellation holds on to its order until it has released the claim.
LEMMA StoppedReleasedStep ==
    ASSUME Undisturbed, TypeOK, FollowInv, LeakInv, [Next]_vars
    PROVE  StoppedReleased'
<1> SUFFICES ASSUME NEW o \in DOMAIN orders', orders'[o].vendor # 0,
                    fleetOrders'[orders'[o].vendor].state = "STOPPED",
                    ~(dispatcher'.pc = "cancel" /\ dispatcher'.order = o)
             PROVE  Cargo(o)' = {}
  BY DEF StoppedReleased
<1>0. "redirect" \notin Inputs /\ "crash" \notin Inputs
  BY DEF Undisturbed
<1>1. o \in DOMAIN orders
  BY NewRowStep
<1>2. ~(RecordDispatch /\ o = dispatcher.order)
  <2> SUFFICES ASSUME RecordDispatch, o = dispatcher.order PROVE FALSE
    OBVIOUS
  <2>1. orders'[o].vendor = dispatcher.vendor /\ UNCHANGED fleetOrders
    BY RecordedVendor DEF RecordDispatch
  <2>2. QED
    BY <2>1 DEF LeakInv, RecordedRuns, RecordDispatch
<1>3. orders'[o].vendor = orders[o].vendor
  BY <1>0, <1>1, <1>2, VendorStep DEF VendorKept
<1>4. orders[o].vendor \in DOMAIN fleetOrders
  BY <1>1, <1>3, LenProperties DEF TypeOK, OrdersOK, FleetOK
<1>5. fleetOrders[orders[o].vendor].state = "STOPPED"
  <2> SUFFICES ASSUME fleetOrders[orders[o].vendor].state # "STOPPED" PROVE FALSE
    OBVIOUS
  <2>1. PICK q \in DOMAIN orders :
          /\ orders[q].vendor = orders[o].vendor /\ orders[q].vendor # 0
          /\ dispatcher'.pc = "cancel" /\ dispatcher'.order = q
    BY <1>3, <1>4, StopStep
  <2>2. q = o
    BY <1>1, <2>1 DEF FollowInv, VendorInv
  <2>3. QED
    BY <2>1, <2>2
<1>6. CASE Cargo(o) = {}
  BY <1>1, <1>6, CargoShrinks
<1>7. CASE dispatcher.pc = "cancel" /\ dispatcher.order = o
  <2>1. CancelOrder
    BY <1>0, <1>7, BusyStep DEF CreateTransportOrder, RecordDispatch, SendAck,
       CompleteOrder
  <2>2. QED
    BY <1>1, <1>7, <2>1, FinishReleases DEF LeakInv
<1>8. QED
  BY <1>1, <1>3, <1>5, <1>6, <1>7 DEF LeakInv, StoppedReleased

\* While a dispatch is recorded nobody can cancel its order.
LEMMA RecordedRunsStep ==
    ASSUME Undisturbed, TypeOK, FollowInv, LeakInv, [Next]_vars
    PROVE  RecordedRuns'
<1> SUFFICES ASSUME dispatcher'.pc = "record"
             PROVE  fleetOrders'[dispatcher'.vendor].state # "STOPPED"
  BY DEF RecordedRuns
<1>0. "redirect" \notin Inputs
  BY DEF Undisturbed
<1>1. CASE UNCHANGED dispatcher
  <2>1. /\ dispatcher.vendor \in DOMAIN fleetOrders
        /\ fleetOrders[dispatcher.vendor].state # "STOPPED"
    BY <1>1 DEF LeakInv, RecordedRuns, TypeOK, DispatcherOK
  <2>2. QED
    BY <1>1, <2>1, StopStep
<1>2. CASE /\ dispatcher'.vendor = Len(fleetOrders) + 1
           /\ fleetOrders' = Append(fleetOrders, FleetOrder)
  <2>1. fleetOrders'[Len(fleetOrders) + 1] = FleetOrder
    BY <1>2, AppendProperties DEF TypeOK, FleetOK
  <2>2. QED
    BY <1>2, <2>1 DEF FleetOrder
<1>3. QED
  BY <1>0, <1>1, <1>2, HandStep DEF HandMove

\* An order whose end is written has released its claim, or the fleet failed it.
LEMMA OverReleasedStep ==
    ASSUME Undisturbed, TypeOK, FollowInv, LeakInv, [Next]_vars
    PROVE  OverReleased'
<1> SUFFICES ASSUME NEW o \in DOMAIN orders', orders'[o].status \in TerminalStatus,
                    ~FleetGaveUp(o)', ~Finishing(o)'
             PROVE  Cargo(o)' = {}
  BY DEF OverReleased
<1>0. "redirect" \notin Inputs /\ "crash" \notin Inputs /\ web = 0
  BY DEF Undisturbed, LeakInv
<1>1. CASE o \notin DOMAIN orders
  <2>1. PICK m \in Request : RequestMove(m)
    BY <1>1, NewRowStep
  <2>2. o = Len(orders) + 1
    BY <1>1, NewRowStep
  <2>3. ASSUME Sourced(m) PROVE FALSE
    <3>1. PICK pickup, dest, claimed : SourceNew(m, pickup, dest, claimed)
      BY <2>3 DEF Sourced
    <3>2. orders'[o].status = "sourcing"
      BY <2>2, <3>1, AppendProperties DEF SourceNew, NewOrder, TypeOK, OrdersOK
    <3>3. QED
      BY <3>2 DEF TerminalStatus
  <2>4. UNCHANGED claimedBy
    BY <2>1, <2>3 DEF RequestMove, Refused, RejectRequest, FailNew, stock
  <2>5. QED
    BY <2>2, <2>4, LenProperties DEF Cargo, TypeOK, StockOK, OrdersOK
<1>2. CASE o \in DOMAIN orders
  <2>0. Cargo(o) = {} => Cargo(o)' = {}
    BY <1>2, CargoShrinks
  <2>1. FleetGaveUp(o) => FleetGaveUp(o)'
    <3> SUFFICES ASSUME FleetGaveUp(o) PROVE FleetGaveUp(o)'
      OBVIOUS
    <3>1. orders'[o].vendor = orders[o].vendor
      BY <1>0, <1>2, VendorStep DEF VendorKept, FleetGaveUp
    <3>2. orders[o].vendor \in DOMAIN fleetOrders
      BY <1>2, LenProperties DEF TypeOK, OrdersOK, FleetOK, FleetGaveUp
    <3>3. fleetOrders'[orders[o].vendor].state = "FAILED"
      BY <3>2, FleetStep DEF FleetKept, TransportKept, IsTerminal, FleetGaveUp
    <3>4. QED
      BY <3>1, <3>3 DEF FleetGaveUp
  <2>2. ASSUME Finishing(o) PROVE Cargo(o)' = {}
    <3>1. CancelOrder \/ CompleteOrder
      BY <1>0, <2>2, BusyStep DEF CreateTransportOrder, RecordDispatch, SendAck, Finishing
    <3>2. QED
      BY <1>2, <2>2, <3>1, FinishReleases DEF LeakInv, Finishing
  <2>3. CASE orders'[o].status = orders[o].status
    BY <1>2, <2>0, <2>1, <2>2, <2>3 DEF LeakInv, OverReleased
  <2>4. CASE RecordDispatch /\ orders'[o].status = "dispatched"
    BY <2>4 DEF TerminalStatus
  <2>5. CASE CreateTransportOrder /\ o = dispatcher.order
    BY <1>2, <2>3, <2>5, FinishReleases DEF LeakInv, CreateTransportOrder
  <2>6. CASE CancelOrder /\ o = dispatcher.order
    BY <1>2, <2>6, FinishReleases DEF LeakInv
  <2>7. ASSUME NEW u \in Uuids, HandleOrderReceipt(u), o \in ByUuid(u) PROVE FALSE
    <3>1. PICK q \in ByUuid(u) : dispatcher' = [Idle EXCEPT !.pc = "receipt", !.order = q]
      BY <2>7 DEF HandleOrderReceipt
    <3>2. q = o
      <4>1. q \in DOMAIN orders /\ q <= o /\ o <= q /\ q \in Nat /\ o \in Nat
        BY <1>2, <2>7, <3>1, LenProperties DEF ByUuid, TypeOK, OrdersOK
      <4>2. QED
        BY <4>1
    <3>3. QED
      BY <3>1, <3>2 DEF Idle, Finishing
  <2>8. CASE /\ PollWrite \/ PollSettle
             /\ o = poller.order /\ orders'[o].status = MapState(poller.state)
    <3>1. UNCHANGED <<fleetOrders, dispatcher>>
      BY <2>8 DEF PollWrite, PollSettle
    <3>2. poller.state \in {"FAILED", "STOPPED"}
      BY <2>8, MapStateBack
    <3>3. /\ orders[o].vendor # 0
          /\ fleetOrders[orders[o].vendor].state = poller.state
      BY <2>8, <3>2, PolledEnd DEF LeakInv, IsTerminal
    <3>4. CASE poller.state = "FAILED"
      BY <2>1, <3>3, <3>4 DEF FleetGaveUp
    <3>5. CASE poller.state = "STOPPED"
      BY <1>2, <2>0, <2>2, <3>3, <3>5 DEF LeakInv, StoppedReleased, Finishing
    <3>6. QED
      BY <3>2, <3>4, <3>5
  <2>9. QED
    BY <1>0, <1>2, <2>3, <2>4, <2>5, <2>6, <2>7, <2>8, StatusStep DEF StatusMove
<1>3. QED
  BY <1>1, <1>2

\* What tells apart how orders end is inductive.
LEMMA LeakStep ==
    ASSUME Undisturbed
    PROVE  TypeOK /\ FollowInv /\ LeakInv /\ [Next]_vars => LeakInv'
<1> SUFFICES ASSUME TypeOK, FollowInv, LeakInv, [Next]_vars PROVE LeakInv'
  OBVIOUS
<1>1. web' = 0
  <2>1. ~TerminateWrite /\ (\A o : ~TerminateOrder(o)) /\ ~Crash
    BY DEF TerminateWrite, TerminateOrder, Crash, TakeInput, Undisturbed, LeakInv
  <2>2. UNCHANGED web
    BY <2>1 DEF Next, vars, HandleOrderRequest, HandleOrderStorageWaybill,
       CreateTransportOrder, RecordDispatch, SendAck, HandleOrderCancel, CancelOrder,
       HandleOrderReceipt, CompleteOrder, HandleOrderRedirect, RedirectOrder,
       DropUnknown, FleetProgress, PollObserve, PollResolve, PollSnapshot, PollWrite,
       PollSettle, Start
  <2>3. QED
    BY <2>2 DEF LeakInv
<1>2. RouteInv' /\ SeenEnded'
  BY RouteStep, SeenEndedStep DEF Undisturbed, LeakInv
<1>3. StoppedReleased' /\ RecordedRuns' /\ OverReleased'
  BY StoppedReleasedStep, RecordedRunsStep, OverReleasedStep
<1>4. QED
  BY <1>1, <1>2, <1>3 DEF LeakInv

\* Unless somebody redirects or terminates an order, kills core or has the fleet
\* stop an order behind core's back, a payload stays reserved for an order that
\* is over only when the fleet gave the order up: cancellations, receipts and
\* failed dispatches release what they hold, wherever the poller stands meanwhile.
THEOREM FailureLeaks ==
    ASSUME Undisturbed
    PROVE  Spec => []OnlyFleetFailureLeaks
<1>1. "redirect" \notin Inputs
  BY DEF Undisturbed
<1>2. Init => LeakInv
  BY DEF Init, LeakInv, RouteInv, SeenEnded, StoppedReleased, RecordedRuns,
     OverReleased, Idle, PollIdle
<1>3. TypeOK /\ FollowInv /\ [Next]_vars => FollowInv'
  BY <1>1, FollowStep
<1>4. TypeOK /\ FollowInv /\ LeakInv /\ [Next]_vars => LeakInv'
  BY LeakStep
<1>5. LeakInv => OnlyFleetFailureLeaks
  BY DEF LeakInv, OverReleased, OnlyFleetFailureLeaks, Released, Finishing, InHand
<1>6. QED
  BY <1>2, <1>3, <1>4, <1>5, TypeInit, TypeStep, FollowInit, PTL DEF Spec
=============================================================================
