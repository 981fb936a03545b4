------------------------- MODULE CoreDispatchProofs -------------------------
(***************************************************************************)
(* Theorems about CoreDispatch, for every plant, every set of requests and *)
(* every bound on the inputs.                                              *)
(***************************************************************************)
EXTENDS CoreDispatch, SequenceTheorems, TLAPS

-----------------------------------------------------------------------------
(* How a row of a table changes.                                           *)

\* Replacing one row keeps the table a table of the same length.
LEMMA RowReplaced ==
    ASSUME NEW S, NEW s \in Seq(S), NEW i \in DOMAIN s, NEW e \in S
    PROVE  /\ [s EXCEPT ![i] = e] \in Seq(S)
           /\ Len([s EXCEPT ![i] = e]) = Len(s)
           /\ DOMAIN [s EXCEPT ![i] = e] = DOMAIN s
           /\ \A j \in DOMAIN s : [s EXCEPT ![i] = e][j] = IF j = i THEN e ELSE s[j]
BY ExceptSeq, LenProperties

\* Inserting a row at the end keeps the others.
LEMMA RowAppended ==
    ASSUME NEW S, NEW s \in Seq(S), NEW e \in S
    PROVE  /\ Append(s, e) \in Seq(S)
           /\ Len(Append(s, e)) = Len(s) + 1
           /\ DOMAIN Append(s, e) = 1 .. Len(s) + 1
           /\ DOMAIN s = 1 .. Len(s)
           /\ Append(s, e)[Len(s) + 1] = e
           /\ \A j \in DOMAIN s : Append(s, e)[j] = s[j]
           /\ Len(s) \in Nat
BY LenProperties

\* Rows are written field by field; ids and the other rows stay.
LEMMA StatusWritten ==
    ASSUME orders \in Seq(Order), NEW o \in DOMAIN orders, NEW st \in Status,
           orders' = [orders EXCEPT ![o].status = st]
    PROVE  /\ orders' \in Seq(Order)
           /\ Len(orders') = Len(orders)
           /\ DOMAIN orders' = DOMAIN orders
           /\ \A q \in DOMAIN orders :
                /\ orders'[q].vendor = orders[q].vendor
                /\ orders'[q].status = IF q = o THEN st ELSE orders[q].status
<1> DEFINE row == [orders[o] EXCEPT !.status = st]
<1>1. orders[o] \in Order
  BY LenProperties, ElementOfSeq
<1>2. row \in Order /\ row.vendor = orders[o].vendor /\ row.status = st
  BY <1>1 DEF Order
<1>3. orders' = [orders EXCEPT ![o] = row]
  OBVIOUS
<1> HIDE DEF row
<1>4. QED
  BY <1>2, <1>3, RowReplaced

\* The same for a row of which vendor id, robot and status are written.
LEMMA VendorWritten ==
    ASSUME orders \in Seq(Order), NEW o \in DOMAIN orders, NEW v \in Nat,
           NEW r \in BOOLEAN, NEW st \in Status,
           orders' = [orders EXCEPT ![o] =
                        [orders[o] EXCEPT !.vendor = v, !.robot = r, !.status = st]]
    PROVE  /\ orders' \in Seq(Order)
           /\ Len(orders') = Len(orders)
           /\ DOMAIN orders' = DOMAIN orders
           /\ \A q \in DOMAIN orders :
                /\ orders'[q].vendor = IF q = o THEN v ELSE orders[q].vendor
                /\ orders'[q].status = IF q = o THEN st ELSE orders[q].status
<1> DEFINE row == [orders[o] EXCEPT !.vendor = v, !.robot = r, !.status = st]
<1>1. orders[o] \in Order
  BY LenProperties, ElementOfSeq
<1>2. row \in Order /\ row.vendor = v /\ row.status = st
  BY <1>1 DEF Order
<1>3. orders' = [orders EXCEPT ![o] = row]
  OBVIOUS
<1> HIDE DEF row
<1>4. QED
  BY <1>2, <1>3, RowReplaced

\* A row of the orders table has the fields of a row.
LEMMA OrderRow ==
    ASSUME orders \in Seq(Order), NEW o \in DOMAIN orders
    PROVE  orders[o] \in Order /\ orders[o].uuid \in Uuids /\ orders[o].vendor \in Nat
<1>1. orders[o] \in Order
  BY ElementOfSeq, LenProperties
<1>2. QED
  BY <1>1 DEF Order

\* Messages are appended to one edge's queue.
LEMMA MessagesEnqueued ==
    ASSUME outbox \in [Uuids -> Seq(MessageKind)], NEW u \in Uuids,
           NEW kinds \in Seq(MessageKind), Enqueue(u, kinds)
    PROVE  outbox' \in [Uuids -> Seq(MessageKind)]
<1>1. outbox[u] \o kinds \in Seq(MessageKind)
  BY ConcatProperties
<1>2. QED
  BY <1>1 DEF Enqueue

\* A call to stop a fleet order keeps the fleet's table.
LEMMA FleetTerminated ==
    ASSUME fleetOrders \in Seq(Transport), NEW v,
           fleetOrders' \in Terminated(v)
    PROVE  /\ fleetOrders' \in Seq(Transport)
           /\ Len(fleetOrders') = Len(fleetOrders)
           /\ DOMAIN fleetOrders' = DOMAIN fleetOrders
<1> DEFINE e(w) == IF w = v /\ ~IsTerminal(fleetOrders[w].state)
                   THEN [fleetOrders[w] EXCEPT !.state = "STOPPED"]
                   ELSE fleetOrders[w]
<1>1. CASE fleetOrders' = [w \in DOMAIN fleetOrders |-> e(w)]
  <2>1. \A w \in 1 .. Len(fleetOrders) : fleetOrders[w] \in Transport
    BY ElementOfSeq
  <2>2. \A w \in 1 .. Len(fleetOrders) : e(w) \in Transport
    BY <2>1 DEF Transport, FleetState
  <2>3. DOMAIN fleetOrders = 1 .. Len(fleetOrders) /\ Len(fleetOrders) \in Nat
    BY LenProperties
  <2> HIDE DEF e
  <2>4. fleetOrders' \in [1 .. Len(fleetOrders) -> Transport]
    BY <1>1, <2>2, <2>3
  <2>5. fleetOrders' \in Seq(Transport)
    BY <2>3, <2>4
  <2>6. QED
    BY <2>3, <2>4, <2>5, LenProperties
<1>2. CASE fleetOrders' = fleetOrders
  BY <1>2
<1>3. QED
  BY <1>1, <1>2 DEF Terminated

-----------------------------------------------------------------------------
(* Type correctness, action by action.                                     *)

\* A stimulus keeps its bound.
LEMMA InputTaken ==
    ASSUME inputs \in 0 .. MaxInputs, NEW kind, TakeInput(kind)
    PROVE  inputs' \in 0 .. MaxInputs
BY CoreAssumption DEF TakeInput

\* A request that fails at once leaves a failed row.
LEMMA TypeFailNew ==
    ASSUME TypeOK, NEW m \in Request, NEW pickup \in Names, NEW dest \in Names,
           FailNew(m, pickup, dest), inputs' \in 0 .. MaxInputs,
           UNCHANGED <<fleetOrders, active, poller, web, up>>
    PROVE  TypeOK'
<1> DEFINE row == NewOrder(m, "failed", pickup, dest)
<1>1. row \in Order /\ row.vendor = 0 /\ m.uuid \in Uuids
  BY DEF NewOrder, Order, Request, Status
<1>2. orders' = Append(orders, row) /\ orders \in Seq(Order)
  BY DEF FailNew, TypeOK, OrdersOK
<1> HIDE DEF row
<1>3. /\ orders' \in Seq(Order)
      /\ Len(orders') = Len(orders) + 1 /\ Len(orders) \in Nat
      /\ DOMAIN orders' = 1 .. Len(orders) + 1 /\ DOMAIN orders = 1 .. Len(orders)
      /\ \A j \in DOMAIN orders : orders'[j] = orders[j]
      /\ orders'[Len(orders) + 1] = row
  BY <1>1, <1>2, RowAppended
<1>4. Len(fleetOrders) \in Nat
  BY LenProperties DEF TypeOK, FleetOK
<1>5. OrdersOK'
  BY <1>1, <1>3, <1>4 DEF TypeOK, OrdersOK
<1>6. StockOK'
  BY <1>3 DEF TypeOK, StockOK, FailNew, stock
<1>7. FleetOK'
  BY DEF TypeOK, FleetOK
<1>8. DispatcherOK' /\ PollerOK'
  BY <1>3 DEF TypeOK, DispatcherOK, PollerOK, FailNew
<1>9. outbox' \in [Uuids -> Seq(MessageKind)]
  <2>1. <<"error">> \in Seq(MessageKind)
    BY DEF MessageKind
  <2>2. QED
    BY <1>1, <2>1, MessagesEnqueued DEF TypeOK, FailNew
<1>10. QED
  BY <1>3, <1>5, <1>6, <1>7, <1>8, <1>9 DEF TypeOK

\* A request that is sourced leaves a row and its claims, and a fleet call to make.
LEMMA TypeSourceNew ==
    ASSUME TypeOK, NEW m \in Request, NEW pickup \in Names, NEW dest \in Names,
           NEW claimed, SourceNew(m, pickup, dest, claimed),
           inputs' \in 0 .. MaxInputs,
           UNCHANGED <<fleetOrders, active, poller, web, up>>
    PROVE  TypeOK'
<1> DEFINE row == NewOrder(m, "sourcing", pickup, dest)
<1>1. row \in Order /\ row.vendor = 0
  BY DEF NewOrder, Order, Request, Status
<1>2. orders' = Append(orders, row) /\ orders \in Seq(Order)
  BY DEF SourceNew, TypeOK, OrdersOK
<1> HIDE DEF row
<1>3. /\ orders' \in Seq(Order)
      /\ Len(orders') = Len(orders) + 1 /\ Len(orders) \in Nat
      /\ DOMAIN orders' = 1 .. Len(orders) + 1 /\ DOMAIN orders = 1 .. Len(orders)
      /\ \A j \in DOMAIN orders : orders'[j] = orders[j]
      /\ orders'[Len(orders) + 1] = row
  BY <1>1, <1>2, RowAppended
<1>4. Len(fleetOrders) \in Nat
  BY LenProperties DEF TypeOK, FleetOK
<1>5. OrdersOK'
  BY <1>1, <1>3, <1>4 DEF TypeOK, OrdersOK
<1>6. StockOK'
  BY <1>3 DEF TypeOK, StockOK, SourceNew
<1>7. FleetOK'
  BY DEF TypeOK, FleetOK
<1>8. DispatcherOK' /\ PollerOK'
  BY <1>3 DEF TypeOK, DispatcherOK, DispatcherPc, PollerOK, SourceNew
<1>9. QED
  BY <1>3, <1>5, <1>6, <1>7, <1>8 DEF TypeOK, SourceNew

\* A store order is sourced at a node and goes to a storage node.
LEMMA TypeStore ==
    ASSUME TypeOK, NEW m \in Request, HandleStore(m), inputs' \in 0 .. MaxInputs,
           UNCHANGED <<fleetOrders, active, poller, web, up>>
    PROVE  TypeOK'
<1>1. m.pickup \in Names /\ m.dest \in Names
  BY DEF Request
<1>2. CASE FailNew(m, m.pickup, m.dest)
  BY <1>1, <1>2, TypeFailNew
<1>3. CASE \E n \in StorageDestinations :
             \/ SourceNew(m, n, n, {})
             \/ SourceNew(m, m.pickup, n, {})
             \/ FailNew(m, m.pickup, n)
  <2>1. PICK n \in StorageDestinations :
             \/ SourceNew(m, n, n, {})
             \/ SourceNew(m, m.pickup, n, {})
             \/ FailNew(m, m.pickup, n)
    BY <1>3
  <2>2. n \in Names
    BY CoreAssumption DEF StorageDestinations
  <2>3. QED
    BY <1>1, <2>1, <2>2, TypeFailNew, TypeSourceNew
<1>4. QED
  BY <1>2, <1>3 DEF HandleStore

LEMMA TypeRequest ==
    ASSUME TypeOK, NEW m \in Request, HandleOrderRequest(m)
    PROVE  TypeOK'
<1>1. inputs' \in 0 .. MaxInputs
  BY InputTaken DEF TypeOK, HandleOrderRequest, Receive
<1>2. UNCHANGED <<fleetOrders, active, poller, web, up>>
  BY DEF HandleOrderRequest
<1>3. m.pickup \in Names /\ m.dest \in Names /\ m.uuid \in Uuids
  BY DEF Request
<1>4. CASE RejectRequest(m)
  <2>1. <<"error">> \in Seq(MessageKind)
    BY DEF MessageKind
  <2>2. outbox' \in [Uuids -> Seq(MessageKind)]
    BY <1>3, <1>4, <2>1, MessagesEnqueued DEF TypeOK, RejectRequest
  <2>3. QED
    BY <1>1, <1>2, <1>4, <2>2
       DEF TypeOK, OrdersOK, StockOK, FleetOK, DispatcherOK, PollerOK, RejectRequest, stock
<1>5. CASE HandleRetrieve(m)
  <2>1. CASE FailNew(m, m.pickup, m.dest)
    BY <1>1, <1>2, <1>3, <2>1, TypeFailNew
  <2>2. CASE \E p \in RetrieveSources(m.code) :
               \/ SourceNew(m, location[p], m.dest, {p})
               \/ FailNew(m, location[p], m.dest)
    <3>1. PICK p \in RetrieveSources(m.code) :
               \/ SourceNew(m, location[p], m.dest, {p})
               \/ FailNew(m, location[p], m.dest)
      BY <2>2
    <3>2. location[p] \in Names
      BY CoreAssumption DEF TypeOK, StockOK, RetrieveSources
    <3>3. QED
      BY <1>1, <1>2, <1>3, <3>1, <3>2, TypeFailNew, TypeSourceNew
  <2>3. QED
    BY <1>5, <2>1, <2>2 DEF HandleRetrieve
<1>6. CASE HandleMove(m)
  <2>1. \/ FailNew(m, m.pickup, m.dest)
        \/ \E claimed \in ClaimFirst(MoveSources(m)) : SourceNew(m, m.pickup, m.dest, claimed)
    BY <1>6 DEF HandleMove
  <2>2. QED
    BY <1>1, <1>2, <1>3, <2>1, TypeFailNew, TypeSourceNew
<1>7. CASE HandleStore(m)
  BY <1>1, <1>2, <1>7, TypeStore
<1>8. CASE FailNew(m, m.pickup, m.dest)
  BY <1>1, <1>2, <1>3, <1>8, TypeFailNew
<1>9. QED
  BY <1>4, <1>5, <1>6, <1>7, <1>8 DEF HandleOrderRequest, AcceptRequest

LEMMA TypeWaybill ==
    ASSUME TypeOK, NEW m \in Request, HandleOrderStorageWaybill(m)
    PROVE  TypeOK'
BY InputTaken, TypeStore DEF TypeOK, HandleOrderStorageWaybill, Receive

\* A new fleet order is inserted behind the others.
LEMMA FleetAppended ==
    ASSUME TypeOK, dispatcher.dst \in Names,
           fleetOrders' = Append(fleetOrders, FleetOrder)
    PROVE  /\ fleetOrders' \in Seq(Transport)
           /\ Len(fleetOrders') = Len(fleetOrders) + 1
           /\ Len(fleetOrders) \in Nat
           /\ DOMAIN fleetOrders = 1 .. Len(fleetOrders)
           /\ DOMAIN fleetOrders' = 1 .. Len(fleetOrders) + 1
<1>1. FleetOrder \in Transport
  BY DEF FleetOrder, Transport, FleetState, Cargo
<1>2. QED
  BY <1>1, RowAppended DEF TypeOK, FleetOK

\* failOrder: the row fails, its claim goes, the edge gets an error.
LEMMA TypeFailOrder ==
    ASSUME TypeOK, dispatcher.order \in DOMAIN orders, FailOrder(dispatcher.order)
    PROVE  /\ orders' \in Seq(Order) /\ Len(orders') = Len(orders)
           /\ DOMAIN orders' = DOMAIN orders
           /\ \A q \in DOMAIN orders : orders'[q].vendor = orders[q].vendor
           /\ claimedBy' \in [Payloads -> 0 .. Len(orders)]
           /\ outbox' \in [Uuids -> Seq(MessageKind)]
           /\ dispatcher' = Idle
<1> DEFINE o == dispatcher.order
<1>1. orders \in Seq(Order) /\ orders[o].uuid \in Uuids
  BY OrderRow DEF TypeOK, OrdersOK
<1>2. orders' = [orders EXCEPT ![o].status = "failed"] /\ "failed" \in Status
  BY DEF FailOrder, Status
<1>3. /\ orders' \in Seq(Order) /\ Len(orders') = Len(orders)
      /\ DOMAIN orders' = DOMAIN orders
      /\ \A q \in DOMAIN orders : orders'[q].vendor = orders[q].vendor
  BY <1>1, <1>2, StatusWritten
<1>4. claimedBy' \in [Payloads -> 0 .. Len(orders)]
  <2>1. Len(orders) \in Nat
    BY <1>1, LenProperties
  <2>2. QED
    BY <2>1 DEF TypeOK, StockOK, FailOrder, Unclaimed
<1>5. outbox' \in [Uuids -> Seq(MessageKind)]
  <2>1. <<"error">> \in Seq(MessageKind)
    BY DEF MessageKind
  <2>2. QED
    BY <1>1, <2>1, MessagesEnqueued DEF TypeOK, FailOrder
<1>6. QED
  BY <1>3, <1>4, <1>5 DEF FailOrder

LEMMA TypeCreate ==
    ASSUME TypeOK, CreateTransportOrder
    PROVE  TypeOK'
<1>1. dispatcher.order \in DOMAIN orders /\ dispatcher.dst \in Names
  BY DEF TypeOK, DispatcherOK, CreateTransportOrder
<1>2. UNCHANGED <<location, active, poller, web, up, inputs>>
  BY DEF CreateTransportOrder
<1>3. Len(fleetOrders) \in Nat /\ fleetOrders \in Seq(Transport)
  BY LenProperties DEF TypeOK, FleetOK
<1>4. Idle \in [pc: DispatcherPc, order: Nat, src: Names, dst: Names, vendor: Nat] /\ Idle.pc = "idle"
  BY CoreAssumption DEF Idle, DispatcherPc
<1>5. CASE /\ fleetOrders' = Append(fleetOrders, FleetOrder)
           /\ dispatcher' = [dispatcher EXCEPT !.pc = "record",
                                               !.vendor = Len(fleetOrders) + 1]
           /\ UNCHANGED <<orders, claimedBy, outbox>>
  <2>1. /\ fleetOrders' \in Seq(Transport)
        /\ Len(fleetOrders') = Len(fleetOrders) + 1
        /\ DOMAIN fleetOrders = 1 .. Len(fleetOrders)
        /\ DOMAIN fleetOrders' = 1 .. Len(fleetOrders) + 1
    BY <1>1, <1>5, FleetAppended
  <2>2. OrdersOK' /\ StockOK' /\ PollerOK'
    BY <1>2, <1>3, <1>5, <2>1 DEF TypeOK, OrdersOK, StockOK, PollerOK
  <2>3. FleetOK'
    BY <1>2, <1>3, <2>1 DEF TypeOK, FleetOK
  <2>4. DispatcherOK'
    <3>1. dispatcher'.pc = "record" /\ dispatcher'.vendor = Len(fleetOrders) + 1
          /\ dispatcher'.order = dispatcher.order
      BY <1>5 DEF TypeOK, DispatcherOK
    <3>2. dispatcher' \in [pc: DispatcherPc, order: Nat,
                           src: Names, dst: Names, vendor: Nat]
      <4> DEFINE n == Len(fleetOrders) + 1
      <4>1. n \in Nat /\ dispatcher' = [dispatcher EXCEPT !.pc = "record", !.vendor = n]
        BY <1>3, <1>5
      <4> HIDE DEF n
      <4>2. QED
        BY <4>1 DEF TypeOK, DispatcherOK, DispatcherPc
    <3>3. QED
      BY <1>1, <1>3, <1>5, <2>1, <3>1, <3>2 DEF DispatcherOK
  <2>5. QED
    BY <1>2, <1>5, <2>2, <2>3, <2>4 DEF TypeOK
<1>6. CASE /\ FailOrder(dispatcher.order)
           /\ UNCHANGED fleetOrders \/ fleetOrders' = Append(fleetOrders, FleetOrder)
  <2>1. /\ fleetOrders' \in Seq(Transport)
        /\ Len(fleetOrders') \in Nat /\ Len(fleetOrders') >= Len(fleetOrders)
        /\ DOMAIN fleetOrders \subseteq DOMAIN fleetOrders'
    BY <1>1, <1>3, <1>6, FleetAppended
  <2>2. /\ orders' \in Seq(Order) /\ Len(orders') = Len(orders)
        /\ DOMAIN orders' = DOMAIN orders
        /\ \A q \in DOMAIN orders : orders'[q].vendor = orders[q].vendor
        /\ claimedBy' \in [Payloads -> 0 .. Len(orders)]
        /\ outbox' \in [Uuids -> Seq(MessageKind)]
        /\ dispatcher' = Idle
    BY <1>1, <1>6, TypeFailOrder
  <2>3. OrdersOK'
    BY <1>3, <2>1, <2>2 DEF TypeOK, OrdersOK
  <2>4. StockOK' /\ PollerOK'
    BY <1>2, <1>3, <2>1, <2>2 DEF TypeOK, StockOK, PollerOK
  <2>5. FleetOK' /\ DispatcherOK'
    BY <1>2, <1>4, <2>1, <2>2 DEF TypeOK, FleetOK, DispatcherOK
  <2>6. QED
    BY <1>2, <2>2, <2>3, <2>4, <2>5 DEF TypeOK
<1>7. QED
  BY <1>5, <1>6 DEF CreateTransportOrder

LEMMA TypeRecord ==
    ASSUME TypeOK, RecordDispatch
    PROVE  TypeOK'
<1> DEFINE o == dispatcher.order
           v == dispatcher.vendor
<1>1. o \in DOMAIN orders /\ v \in DOMAIN fleetOrders
  BY DEF TypeOK, DispatcherOK, RecordDispatch
<1>2. /\ Len(fleetOrders) \in Nat /\ DOMAIN fleetOrders = 1 .. Len(fleetOrders)
      /\ v \in Nat
  BY <1>1, LenProperties DEF TypeOK, FleetOK
<1>3. /\ orders \in Seq(Order) /\ "dispatched" \in Status
      /\ orders' = [orders EXCEPT ![o] = [orders[o] EXCEPT
                      !.vendor = v, !.robot = FALSE, !.status = "dispatched"]]
  BY DEF TypeOK, OrdersOK, RecordDispatch, Status
<1>4. /\ orders' \in Seq(Order) /\ Len(orders') = Len(orders)
      /\ DOMAIN orders' = DOMAIN orders
      /\ \A q \in DOMAIN orders : orders'[q].vendor = IF q = o THEN v ELSE orders[q].vendor
  BY <1>1, <1>2, <1>3, VendorWritten
<1>5. UNCHANGED <<claimedBy, location, fleetOrders, poller, web, outbox, up, inputs>>
  BY DEF RecordDispatch, stock
<1>6. OrdersOK'
  BY <1>1, <1>2, <1>4, <1>5 DEF TypeOK, OrdersOK
<1>7. StockOK' /\ PollerOK'
  BY <1>4, <1>5 DEF TypeOK, StockOK, PollerOK
<1>8. FleetOK'
  BY <1>1, <1>5 DEF TypeOK, FleetOK, RecordDispatch, Track, FleetState, IsTerminal
<1>9. DispatcherOK'
  BY <1>4, <1>5 DEF TypeOK, DispatcherOK, DispatcherPc, RecordDispatch
<1>10. QED
  BY <1>4, <1>5, <1>6, <1>7, <1>8, <1>9 DEF TypeOK

LEMMA TypeSendAck ==
    ASSUME TypeOK, SendAck
    PROVE  TypeOK'
<1>1. orders[dispatcher.order].uuid \in Uuids
  BY OrderRow DEF TypeOK, OrdersOK, DispatcherOK, SendAck
<1>2. <<"ack">> \in Seq(MessageKind)
  BY DEF MessageKind
<1>3. outbox' \in [Uuids -> Seq(MessageKind)]
  BY <1>1, <1>2, MessagesEnqueued DEF TypeOK, SendAck
<1>4. DispatcherOK'
  BY CoreAssumption DEF TypeOK, DispatcherOK, DispatcherPc, SendAck, Idle
<1>5. QED
  BY <1>3, <1>4 DEF TypeOK, OrdersOK, StockOK, FleetOK, PollerOK, SendAck, stock

\* An idle dispatcher, and one that takes up an order, are typed.
LEMMA DispatcherTyped ==
    /\ Idle \in [pc: DispatcherPc, order: Nat, src: Names, dst: Names, vendor: Nat]
    /\ Idle.pc = "idle"
    /\ \A pc \in DispatcherPc \ {"record"}, o \in DOMAIN orders, d \in Names :
         LET job == [Idle EXCEPT !.pc = pc, !.order = o, !.dst = d] IN
         orders \in Seq(Order) =>
           /\ job \in [pc: DispatcherPc, order: Nat, src: Names, dst: Names, vendor: Nat]
           /\ job.pc = pc /\ job.order = o /\ job.dst = d
           /\ [Idle EXCEPT !.pc = pc, !.order = o].order = o
           /\ [Idle EXCEPT !.pc = pc, !.order = o].pc = pc
           /\ [Idle EXCEPT !.pc = pc, !.order = o] \in
                [pc: DispatcherPc, order: Nat, src: Names, dst: Names, vendor: Nat]
<1>1. \A o \in DOMAIN orders : orders \in Seq(Order) => o \in Nat
  BY LenProperties
<1>2. QED
  BY <1>1, CoreAssumption DEF Idle, DispatcherPc

\* A call to the fleet that takes up an order, with the order's row as it is.
LEMMA TypeTakeUp ==
    ASSUME TypeOK, NEW o \in DOMAIN orders,
           \/ UNCHANGED fleetOrders
           \/ \E v : fleetOrders' \in Terminated(v),
           NEW job, dispatcher' = job,
           job \in [pc: DispatcherPc, order: Nat, src: Names, dst: Names, vendor: Nat],
           job.order = o, job.pc # "record",
           orders' \in Seq(Order), Len(orders') = Len(orders),
           \A q \in DOMAIN orders : orders'[q].vendor = orders[q].vendor,
           inputs' \in 0 .. MaxInputs,
           UNCHANGED <<claimedBy, location, active, poller, web, outbox, up>>
    PROVE  TypeOK'
<1>1. DOMAIN orders' = DOMAIN orders
  BY LenProperties DEF TypeOK, OrdersOK
<1>2. /\ fleetOrders' \in Seq(Transport) /\ Len(fleetOrders') = Len(fleetOrders)
      /\ DOMAIN fleetOrders' = DOMAIN fleetOrders
  BY FleetTerminated DEF TypeOK, FleetOK
<1>3. OrdersOK' /\ StockOK' /\ FleetOK' /\ PollerOK'
  BY <1>1, <1>2 DEF TypeOK, OrdersOK, StockOK, FleetOK, PollerOK
<1>4. DispatcherOK'
  BY <1>1, <1>2 DEF DispatcherOK
<1>5. QED
  BY <1>1, <1>3, <1>4 DEF TypeOK

LEMMA TypeHandleCancel ==
    ASSUME TypeOK, NEW u \in Uuids, HandleOrderCancel(u)
    PROVE  TypeOK'
<1>1. PICK o \in ByUuid(u) :
         /\ UNCHANGED fleetOrders \/ fleetOrders' \in Terminated(orders[o].vendor)
         /\ dispatcher' = [Idle EXCEPT !.pc = "cancel", !.order = o]
  BY DEF HandleOrderCancel
<1>2. o \in DOMAIN orders /\ orders \in Seq(Order) /\ NoName \in Names
  BY <1>1, CoreAssumption DEF ByUuid, TypeOK, OrdersOK
<1>3. "cancel" \in DispatcherPc \ {"record"}
  BY DEF DispatcherPc
<1>4. inputs' \in 0 .. MaxInputs
  BY InputTaken DEF TypeOK, HandleOrderCancel, Receive
<1>5. UNCHANGED <<orders, claimedBy, location, active, poller, web, outbox, up>>
  BY DEF HandleOrderCancel, stock
<1> DEFINE job == [Idle EXCEPT !.pc = "cancel", !.order = o]
<1>6. /\ job \in [pc: DispatcherPc, order: Nat, src: Names, dst: Names, vendor: Nat]
      /\ job.order = o /\ job.pc # "record"
  BY <1>2, <1>3, DispatcherTyped
<1> HIDE DEF job
<1>7. dispatcher' = job
  BY <1>1 DEF job
<1>8. QED
  BY <1>1, <1>2, <1>4, <1>5, <1>6, <1>7, TypeTakeUp

LEMMA TypeCancelOrder ==
    ASSUME TypeOK, CancelOrder
    PROVE  TypeOK'
<1> DEFINE o == dispatcher.order
<1>1. o \in DOMAIN orders /\ orders \in Seq(Order) /\ orders[o].uuid \in Uuids
  BY OrderRow DEF CancelOrder, TypeOK, OrdersOK, DispatcherOK
<1>2. "cancelled" \in Status /\ orders' = [orders EXCEPT ![o].status = "cancelled"]
  BY DEF CancelOrder, Status
<1>3. /\ orders' \in Seq(Order) /\ Len(orders') = Len(orders)
      /\ DOMAIN orders' = DOMAIN orders /\ Len(orders) \in Nat
      /\ \A q \in DOMAIN orders : orders'[q].vendor = orders[q].vendor
  BY <1>1, <1>2, StatusWritten, LenProperties
<1>4. UNCHANGED <<location, fleetOrders, active, poller, web, up, inputs>>
  BY DEF CancelOrder
<1>5. OrdersOK' /\ StockOK'
  BY <1>3, <1>4 DEF CancelOrder, TypeOK, OrdersOK, StockOK, Unclaimed
<1>6. FleetOK' /\ PollerOK'
  BY <1>3, <1>4 DEF TypeOK, FleetOK, PollerOK
<1>7. DispatcherOK'
  BY DispatcherTyped DEF DispatcherOK, CancelOrder
<1>8. outbox' \in [Uuids -> Seq(MessageKind)]
  <2>1. <<"cancelled">> \in Seq(MessageKind)
    BY DEF MessageKind
  <2>2. QED
    BY <1>1, <2>1, MessagesEnqueued DEF TypeOK, CancelOrder
<1>9. QED
  BY <1>3, <1>4, <1>5, <1>6, <1>7, <1>8 DEF TypeOK

LEMMA TypeHandleReceipt ==
    ASSUME TypeOK, NEW u \in Uuids, HandleOrderReceipt(u)
    PROVE  TypeOK'
<1>1. PICK o \in ByUuid(u) :
         /\ orders' = [orders EXCEPT ![o].status = "confirmed"]
         /\ dispatcher' = [Idle EXCEPT !.pc = "receipt", !.order = o]
  BY DEF HandleOrderReceipt
<1>2. o \in DOMAIN orders /\ orders \in Seq(Order) /\ NoName \in Names
  BY <1>1, CoreAssumption DEF ByUuid, TypeOK, OrdersOK
<1>3. "receipt" \in DispatcherPc \ {"record"} /\ "confirmed" \in Status
  BY DEF DispatcherPc, Status
<1>4. /\ orders' \in Seq(Order) /\ Len(orders') = Len(orders)
      /\ \A q \in DOMAIN orders : orders'[q].vendor = orders[q].vendor
  BY <1>1, <1>2, <1>3, StatusWritten
<1>5. inputs' \in 0 .. MaxInputs
  BY InputTaken DEF TypeOK, HandleOrderReceipt, Receive
<1>6. UNCHANGED <<claimedBy, location, fleetOrders, active, poller, web, outbox, up>>
  BY DEF HandleOrderReceipt, stock
<1> DEFINE job == [Idle EXCEPT !.pc = "receipt", !.order = o]
<1>7. /\ job \in [pc: DispatcherPc, order: Nat, src: Names, dst: Names, vendor: Nat]
      /\ job.order = o /\ job.pc # "record"
  BY <1>2, <1>3, DispatcherTyped
<1> HIDE DEF job
<1>8. dispatcher' = job
  BY <1>1 DEF job
<1>9. QED
  BY <1>2, <1>4, <1>5, <1>6, <1>7, <1>8, TypeTakeUp

LEMMA TypeCompleteOrder ==
    ASSUME TypeOK, CompleteOrder
    PROVE  TypeOK'
<1> DEFINE o == dispatcher.order
<1>1. UNCHANGED <<orders, fleetOrders, active, poller, web, outbox, up, inputs>>
  BY DEF CompleteOrder
<1>2. Len(orders) \in Nat
  BY LenProperties DEF TypeOK, OrdersOK
<1>3. StockOK'
  <2>1. CASE UNCHANGED stock
    BY <1>1, <2>1 DEF TypeOK, StockOK, stock
  <2>2. CASE /\ orders[o].dest \in Nodes
             /\ location' = [p \in Payloads |->
                                IF claimedBy[p] = o THEN orders[o].dest ELSE location[p]]
             /\ claimedBy' = Unclaimed(o)
    BY <1>1, <1>2, <2>2 DEF TypeOK, StockOK, Unclaimed
  <2>3. QED
    BY <2>1, <2>2 DEF CompleteOrder, HandleOrderCompleted
<1>4. DispatcherOK'
  BY DispatcherTyped DEF DispatcherOK, CompleteOrder
<1>5. QED
  BY <1>1, <1>3, <1>4 DEF TypeOK, OrdersOK, FleetOK, PollerOK

LEMMA TypeHandleRedirect ==
    ASSUME TypeOK, NEW u \in Uuids, NEW d \in NewDests, HandleOrderRedirect(u, d)
    PROVE  TypeOK'
<1>1. PICK o \in ByUuid(u) :
         /\ UNCHANGED fleetOrders \/ fleetOrders' \in Terminated(orders[o].vendor)
         /\ dispatcher' = [Idle EXCEPT !.pc = "redirect", !.order = o, !.dst = d]
  BY DEF HandleOrderRedirect
<1>2. o \in DOMAIN orders /\ orders \in Seq(Order) /\ d \in Names
  BY <1>1, CoreAssumption DEF ByUuid, TypeOK, OrdersOK
<1>3. "redirect" \in DispatcherPc \ {"record"}
  BY DEF DispatcherPc
<1>4. inputs' \in 0 .. MaxInputs
  BY InputTaken DEF TypeOK, HandleOrderRedirect, Receive
<1>5. UNCHANGED <<orders, claimedBy, location, active, poller, web, outbox, up>>
  BY DEF HandleOrderRedirect, stock
<1> DEFINE job == [Idle EXCEPT !.pc = "redirect", !.order = o, !.dst = d]
<1>6. /\ job \in [pc: DispatcherPc, order: Nat, src: Names, dst: Names, vendor: Nat]
      /\ job.order = o /\ job.pc # "record"
  BY <1>2, <1>3, DispatcherTyped
<1> HIDE DEF job
<1>7. dispatcher' = job
  BY <1>1 DEF job
<1>8. QED
  BY <1>1, <1>2, <1>4, <1>5, <1>6, <1>7, TypeTakeUp

LEMMA TypeRedirectOrder ==
    ASSUME TypeOK, RedirectOrder
    PROVE  TypeOK'
<1> DEFINE o == dispatcher.order
<1>1. o \in DOMAIN orders /\ orders \in Seq(Order) /\ orders[o].uuid \in Uuids
  BY OrderRow DEF RedirectOrder, TypeOK, OrdersOK, DispatcherOK
<1>2. UNCHANGED <<claimedBy, location, fleetOrders, active, poller, web, up, inputs>>
  BY DEF RedirectOrder, stock
<1>3. CASE /\ orders[o].pickup \in Nodes
           /\ orders' = [orders EXCEPT ![o].status = "sourcing"]
           /\ dispatcher' = [dispatcher EXCEPT !.pc = "create", !.src = orders[o].pickup]
           /\ UNCHANGED outbox
  <2>1. "sourcing" \in Status
    BY DEF Status
  <2>2. /\ orders' \in Seq(Order) /\ Len(orders') = Len(orders)
        /\ DOMAIN orders' = DOMAIN orders
        /\ \A q \in DOMAIN orders : orders'[q].vendor = orders[q].vendor
    BY <1>1, <1>3, <2>1, StatusWritten
  <2>3. OrdersOK' /\ StockOK' /\ FleetOK' /\ PollerOK'
    BY <1>2, <2>2 DEF TypeOK, OrdersOK, StockOK, FleetOK, PollerOK
  <2>4. orders[o].pickup \in Names /\ "create" \in DispatcherPc
    BY <1>3, CoreAssumption DEF DispatcherPc
  <2>5. DispatcherOK'
    BY <1>1, <1>3, <2>2, <2>4 DEF TypeOK, DispatcherOK
  <2>6. QED
    BY <1>2, <1>3, <2>2, <2>3, <2>5 DEF TypeOK
<1>4. CASE /\ Enqueue(orders[o].uuid, <<"error">>)
           /\ dispatcher' = Idle
           /\ UNCHANGED orders
  <2>1. <<"error">> \in Seq(MessageKind)
    BY DEF MessageKind
  <2>2. outbox' \in [Uuids -> Seq(MessageKind)]
    BY <1>1, <1>4, <2>1, MessagesEnqueued DEF TypeOK
  <2>3. DispatcherOK'
    BY <1>4, DispatcherTyped DEF DispatcherOK
  <2>4. QED
    BY <1>2, <1>4, <2>2, <2>3 DEF TypeOK, OrdersOK, StockOK, FleetOK, PollerOK
<1>5. QED
  BY <1>3, <1>4 DEF RedirectOrder

LEMMA TypeDrop ==
    ASSUME TypeOK, NEW kind, NEW u, DropUnknown(kind, u)
    PROVE  TypeOK'
<1>1. inputs' \in 0 .. MaxInputs
  BY InputTaken DEF TypeOK, DropUnknown, Receive
<1>2. QED
  BY <1>1 DEF TypeOK, OrdersOK, StockOK, FleetOK, DispatcherOK, PollerOK,
              DropUnknown, stock

LEMMA TypeTerminate ==
    ASSUME TypeOK, NEW o \in DOMAIN orders, TerminateOrder(o)
    PROVE  TypeOK'
<1>1. /\ fleetOrders' \in Seq(Transport) /\ Len(fleetOrders') = Len(fleetOrders)
      /\ DOMAIN fleetOrders' = DOMAIN fleetOrders
  BY FleetTerminated DEF TypeOK, FleetOK, TerminateOrder
<1>2. UNCHANGED <<orders, claimedBy, location, active, dispatcher, poller, outbox, up>>
  BY DEF TerminateOrder, stock
<1>3. OrdersOK' /\ StockOK' /\ FleetOK' /\ DispatcherOK' /\ PollerOK'
  BY <1>1, <1>2 DEF TypeOK, OrdersOK, StockOK, FleetOK, DispatcherOK, PollerOK
<1>4. inputs' \in 0 .. MaxInputs
  BY InputTaken DEF TypeOK, TerminateOrder
<1>5. QED
  BY <1>2, <1>3, <1>4 DEF TypeOK, TerminateOrder

LEMMA TypeTerminateWrite ==
    ASSUME TypeOK, TerminateWrite
    PROVE  TypeOK'
<1>1. /\ orders' = [orders EXCEPT ![web].status = "cancelled"]
      /\ orders \in Seq(Order) /\ "cancelled" \in Status /\ web \in DOMAIN orders
  BY DEF TerminateWrite, TypeOK, OrdersOK, Status
<1>2. /\ orders' \in Seq(Order) /\ Len(orders') = Len(orders)
      /\ DOMAIN orders' = DOMAIN orders
      /\ \A q \in DOMAIN orders : orders'[q].vendor = orders[q].vendor
  BY <1>1, StatusWritten
<1>3. UNCHANGED <<claimedBy, location, fleetOrders, active, dispatcher, poller,
                  outbox, up, inputs>>
  BY DEF TerminateWrite, stock
<1>4. OrdersOK' /\ StockOK' /\ FleetOK' /\ DispatcherOK' /\ PollerOK'
  BY <1>2, <1>3 DEF TypeOK, OrdersOK, StockOK, FleetOK, DispatcherOK, PollerOK
<1>5. QED
  BY <1>3, <1>4 DEF TypeOK, TerminateWrite

LEMMA TypeProgress ==
    ASSUME TypeOK, NEW v \in DOMAIN fleetOrders, FleetProgress(v)
    PROVE  TypeOK'
<1>1. PICK s \in FleetStates, robot \in BOOLEAN :
         fleetOrders' = [fleetOrders EXCEPT ![v] =
                           [fleetOrders[v] EXCEPT !.state = s, !.vehicle = robot]]
  BY DEF FleetProgress
<1>2. fleetOrders \in Seq(Transport) /\ fleetOrders[v] \in Transport
  BY ElementOfSeq, LenProperties DEF TypeOK, FleetOK
<1>3. [fleetOrders[v] EXCEPT !.state = s, !.vehicle = robot] \in Transport
  BY <1>2, CoreAssumption DEF Transport
<1>4. /\ fleetOrders' \in Seq(Transport) /\ Len(fleetOrders') = Len(fleetOrders)
      /\ DOMAIN fleetOrders' = DOMAIN fleetOrders
  <2> DEFINE e == [fleetOrders[v] EXCEPT !.state = s, !.vehicle = robot]
  <2>1. e \in Transport /\ fleetOrders' = [fleetOrders EXCEPT ![v] = e]
    BY <1>1, <1>3
  <2> HIDE DEF e
  <2>2. QED
    BY <1>2, <2>1, RowReplaced
<1>5. QED
  BY <1>4 DEF TypeOK, OrdersOK, StockOK, FleetOK, DispatcherOK, PollerOK,
              FleetProgress, stock

\* What every idle state of the poller has in common.
LEMMA PollIdleTyped ==
    /\ PollIdle \in [pc: {"idle", "resolve", "snapshot", "write", "settle"},
                     vendor: Nat, state: FleetState, vehicle: BOOLEAN,
                     order: Nat, status: Status, robot: BOOLEAN, snapVendor: Nat]
    /\ PollIdle.pc = "idle" /\ PollIdle.snapVendor = 0
BY DEF PollIdle, FleetState, Status

\* An idle poller is typed whatever the tables hold.
LEMMA PollIdleReady ==
    ASSUME Len(fleetOrders') \in Nat, poller' = PollIdle
    PROVE  PollerOK'
<1>1. PollIdle.snapVendor \in 0 .. Len(fleetOrders')
  BY PollIdleTyped
<1>2. QED
  BY <1>1, PollIdleTyped DEF PollerOK

LEMMA TypeObserve ==
    ASSUME TypeOK, NEW v \in DOMAIN fleetOrders, PollObserve(v)
    PROVE  TypeOK'
<1>1. fleetOrders[v] \in Transport /\ Len(fleetOrders) \in Nat /\ v \in Nat
  BY ElementOfSeq, LenProperties DEF TypeOK, FleetOK
<1>2. fleetOrders[v].state \in FleetState /\ fleetOrders[v].vehicle \in BOOLEAN
  BY <1>1 DEF Transport
<1>3. active' = WithoutFinished(v) /\ v \in DOMAIN active
  BY DEF PollObserve
<1>4. /\ DOMAIN active' \subseteq DOMAIN active
      /\ active' \in [DOMAIN active' -> {s \in FleetState : ~IsTerminal(s)}]
  <2>1. CASE IsTerminal(fleetOrders[v].state)
    BY <1>3, <2>1 DEF TypeOK, FleetOK, WithoutFinished
  <2>2. CASE ~IsTerminal(fleetOrders[v].state)
    BY <1>2, <1>3, <2>2 DEF TypeOK, FleetOK, WithoutFinished
  <2>3. QED
    BY <2>1, <2>2
<1>5. FleetOK'
  BY <1>4 DEF TypeOK, FleetOK, PollObserve
<1>6. PollerOK'
  <2>1. poller' = [pc |-> "resolve", vendor |-> v, state |-> fleetOrders[v].state,
                   vehicle |-> fleetOrders[v].vehicle, order |-> 0,
                   status |-> "pending", robot |-> FALSE, snapVendor |-> 0]
    BY DEF PollObserve, PollIdle
  <2>2. UNCHANGED <<orders, fleetOrders>>
    BY DEF PollObserve
  <2>3. QED
    BY <1>1, <1>2, <2>1, <2>2 DEF PollerOK, Status
<1>7. QED
  BY <1>5, <1>6 DEF TypeOK, OrdersOK, StockOK, DispatcherOK, PollObserve, stock

LEMMA TypeResolve ==
    ASSUME TypeOK, PollResolve
    PROVE  TypeOK'
<1>1. Len(fleetOrders) \in Nat /\ Len(orders) \in Nat /\ DOMAIN orders = 1 .. Len(orders)
  BY LenProperties DEF TypeOK, FleetOK, OrdersOK
<1>2. PollerOK'
  <2> UNCHANGED <<orders, fleetOrders>>
    BY DEF PollResolve
  <2>1. CASE poller' = PollIdle
    BY <1>1, <2>1, PollIdleReady
  <2>2. CASE \E o \in DOMAIN orders : poller' = [poller EXCEPT !.pc = "snapshot", !.order = o]
    <3>1. PICK o \in DOMAIN orders : poller' = [poller EXCEPT !.pc = "snapshot", !.order = o]
      BY <2>2
    <3>2. o \in Nat
      BY <1>1
    <3>3. QED
      BY <3>1, <3>2 DEF TypeOK, PollerOK
  <2>3. QED
    BY <2>1, <2>2 DEF PollResolve
<1>3. QED
  BY <1>2 DEF TypeOK, OrdersOK, StockOK, FleetOK, DispatcherOK, PollResolve, stock

LEMMA TypeSnapshot ==
    ASSUME TypeOK, PollSnapshot
    PROVE  TypeOK'
<1>1. poller.order \in DOMAIN orders /\ orders \in Seq(Order)
  BY DEF TypeOK, OrdersOK, PollerOK, PollSnapshot
<1>2. orders[poller.order] \in Order
  BY <1>1, OrderRow
<1>3. /\ orders[poller.order].status \in Status
      /\ orders[poller.order].robot \in BOOLEAN
      /\ orders[poller.order].vendor \in Nat
      /\ orders[poller.order].vendor \in 0 .. Len(fleetOrders)
  BY <1>1, <1>2 DEF Order, TypeOK, OrdersOK
<1>4. PollerOK'
  BY <1>1, <1>3 DEF TypeOK, PollerOK, PollSnapshot
<1>5. QED
  BY <1>4 DEF TypeOK, OrdersOK, StockOK, FleetOK, DispatcherOK, PollSnapshot, stock

\* Every fleet state is mapped to a status.
LEMMA MapStateTyped ==
    ASSUME NEW s
    PROVE  MapState(s) \in Status
<1>1. CASE s = "RUNNING"
  BY <1>1 DEF MapState, Status
<1>2. CASE s = "FINISHED"
  BY <1>2 DEF MapState, Status
<1>3. CASE s = "FAILED"
  BY <1>3 DEF MapState, Status
<1>4. CASE s = "STOPPED"
  BY <1>4 DEF MapState, Status
<1>5. CASE s \notin {"RUNNING", "FINISHED", "FAILED", "STOPPED"}
  BY <1>5 DEF MapState, Status
<1>6. QED
  BY <1>1, <1>2, <1>3, <1>4, <1>5

LEMMA TypeWrite ==
    ASSUME TypeOK, PollWrite
    PROVE  TypeOK'
<1> DEFINE o == poller.order
<1>1. /\ o \in DOMAIN orders /\ orders \in Seq(Order)
      /\ orders[o] \in Order /\ orders[o].uuid \in Uuids
  BY OrderRow DEF TypeOK, OrdersOK, PollerOK, PollWrite
<1>2. Len(fleetOrders) \in Nat /\ Len(orders) \in Nat
  BY LenProperties DEF TypeOK, FleetOK, OrdersOK
<1>3. /\ orders' \in Seq(Order) /\ Len(orders') = Len(orders)
      /\ DOMAIN orders' = DOMAIN orders
      /\ \A q \in DOMAIN orders :
            orders'[q].vendor \in {poller.snapVendor, orders[q].vendor}
  <2>1. CASE StatusChanged
    <3>1. /\ poller.snapVendor \in Nat /\ poller.vehicle \in BOOLEAN
          /\ MapState(poller.state) \in Status
      BY MapStateTyped DEF TypeOK, PollerOK
    <3> DEFINE row == [orders[o] EXCEPT !.status = MapState(poller.state),
                                        !.vendor = poller.snapVendor,
                                        !.robot = poller.vehicle]
    <3>2. row \in Order /\ row.vendor = poller.snapVendor
      BY <1>1, <3>1 DEF Order
    <3>3. orders' = [orders EXCEPT ![o] = row]
      BY <2>1 DEF PollWrite
    <3> HIDE DEF row
    <3>4. QED
      BY <1>1, <3>2, <3>3, RowReplaced
  <2>2. CASE ~StatusChanged /\ NewRobot
    <3> DEFINE row == [orders[o] EXCEPT !.vendor = poller.snapVendor, !.robot = TRUE]
    <3>1. row \in Order /\ row.vendor = poller.snapVendor
      BY <1>1 DEF Order, TypeOK, PollerOK
    <3>2. orders' = [orders EXCEPT ![o] = row]
      BY <2>2 DEF PollWrite
    <3> HIDE DEF row
    <3>3. QED
      BY <1>1, <3>1, <3>2, RowReplaced
  <2>3. CASE ~StatusChanged /\ ~NewRobot
    BY <1>1, <2>3 DEF PollWrite
  <2>4. QED
    BY <2>1, <2>2, <2>3
<1>4. OrdersOK'
  BY <1>2, <1>3 DEF TypeOK, OrdersOK, PollerOK, PollWrite
<1>5. outbox' \in [Uuids -> Seq(MessageKind)]
  <2> DEFINE kinds == (IF NewRobot THEN <<"waybill">> ELSE <<>>)
                        \o (IF StatusChanged THEN <<"update">> ELSE <<>>)
  <2>1. kinds \in Seq(MessageKind)
    <3>1. /\ <<"waybill">> \in Seq(MessageKind) /\ <<"update">> \in Seq(MessageKind)
          /\ <<>> \in Seq(MessageKind)
      BY DEF MessageKind
    <3>2. QED
      BY <3>1, ConcatProperties
  <2>2. Enqueue(orders[o].uuid, kinds)
    BY DEF PollWrite
  <2> HIDE DEF kinds
  <2>3. QED
    BY <1>1, <2>1, <2>2, MessagesEnqueued DEF TypeOK
<1>6. PollerOK'
  <2> UNCHANGED fleetOrders
    BY DEF PollWrite
  <2>1. CASE poller' = PollIdle
    BY <1>2, <2>1, PollIdleReady
  <2>2. CASE poller' = [poller EXCEPT !.pc = "settle"]
    BY <1>1, <1>3, <2>2 DEF TypeOK, PollerOK
  <2>3. QED
    BY <2>1, <2>2 DEF PollWrite
<1>7. QED
  BY <1>3, <1>4, <1>5, <1>6 DEF TypeOK, StockOK, FleetOK, DispatcherOK, PollWrite, stock

LEMMA TypeSettle ==
    ASSUME TypeOK, PollSettle
    PROVE  TypeOK'
<1> DEFINE o == poller.order
<1>1. o \in DOMAIN orders /\ orders \in Seq(Order) /\ orders[o].uuid \in Uuids
  BY OrderRow DEF TypeOK, OrdersOK, PollerOK, PollSettle
<1>2. MapState(poller.state) \in Status
  BY MapStateTyped
<1>3. /\ orders' \in Seq(Order) /\ Len(orders') = Len(orders)
      /\ DOMAIN orders' = DOMAIN orders
      /\ \A q \in DOMAIN orders : orders'[q].vendor = orders[q].vendor
  BY <1>1, <1>2, StatusWritten DEF PollSettle
<1>4. outbox' \in [Uuids -> Seq(MessageKind)]
  <2>1. <<"delivered">> \in Seq(MessageKind) /\ <<>> \in Seq(MessageKind)
    BY DEF MessageKind
  <2>2. QED
    BY <1>1, <2>1, MessagesEnqueued DEF TypeOK, PollSettle
<1>5. Len(fleetOrders) \in Nat
  BY LenProperties DEF TypeOK, FleetOK
<1>6. PollerOK'
  BY <1>3, <1>5, PollIdleTyped DEF TypeOK, PollerOK, PollSettle
<1>7. OrdersOK'
  BY <1>3 DEF TypeOK, OrdersOK, PollSettle
<1>8. QED
  BY <1>3, <1>4, <1>6, <1>7 DEF TypeOK, StockOK, FleetOK, DispatcherOK, PollSettle, stock

LEMMA TypeCrash ==
    ASSUME TypeOK, Crash
    PROVE  TypeOK'
<1>1. inputs' \in 0 .. MaxInputs
  BY InputTaken DEF TypeOK, Crash
<1>2. Len(fleetOrders) \in Nat
  BY LenProperties DEF TypeOK, FleetOK
<1>3. PollerOK'
  BY <1>2, PollIdleReady DEF Crash
<1>4. DispatcherOK'
  BY DispatcherTyped DEF DispatcherOK, Crash
<1>5. QED
  BY <1>1, <1>3, <1>4 DEF TypeOK, OrdersOK, StockOK, FleetOK, Crash, stock

LEMMA TypeStart ==
    ASSUME TypeOK, Start
    PROVE  TypeOK'
<1>1. Len(fleetOrders) \in Nat /\ DOMAIN fleetOrders = 1 .. Len(fleetOrders)
  BY LenProperties DEF TypeOK, FleetOK
<1>2. DispatchedVendorIDs \subseteq DOMAIN fleetOrders
  BY <1>1 DEF DispatchedVendorIDs, VendorIdsOf, TypeOK, OrdersOK
<1>3. FleetOK'
  BY <1>2 DEF TypeOK, FleetOK, Start, Track, FleetState, IsTerminal
<1>4. QED
  BY <1>3 DEF TypeOK, OrdersOK, StockOK, DispatcherOK, PollerOK, Start, stock

\* Type correctness is inductive.
LEMMA TypeStep == TypeOK /\ [Next]_vars => TypeOK'
<1> SUFFICES ASSUME TypeOK, [Next]_vars PROVE TypeOK'
  OBVIOUS
<1>1. ASSUME NEW m \in Requests, HandleOrderRequest(m) PROVE TypeOK'
  BY <1>1, TypeRequest, CoreAssumption
<1>2. ASSUME NEW m \in Waybills, HandleOrderStorageWaybill(m) PROVE TypeOK'
  BY <1>2, TypeWaybill, CoreAssumption
<1>3. ASSUME NEW u \in Uuids,
             \/ HandleOrderCancel(u)
             \/ HandleOrderReceipt(u)
             \/ \E d \in NewDests : HandleOrderRedirect(u, d)
             \/ \E kind \in {"cancel", "receipt", "redirect"} : DropUnknown(kind, u)
      PROVE TypeOK'
  BY <1>3, TypeHandleCancel, TypeHandleReceipt, TypeHandleRedirect, TypeDrop
<1>4. ASSUME NEW o \in DOMAIN orders, TerminateOrder(o) PROVE TypeOK'
  BY <1>4, TypeTerminate
<1>5. ASSUME NEW v \in DOMAIN fleetOrders, FleetProgress(v) \/ PollObserve(v) PROVE TypeOK'
  BY <1>5, TypeProgress, TypeObserve
<1>6. CASE UNCHANGED vars
  BY <1>6 DEF vars, TypeOK, OrdersOK, StockOK, FleetOK, DispatcherOK, PollerOK
<1>7. QED
  BY <1>1, <1>2, <1>3, <1>4, <1>5, <1>6, TypeCreate, TypeRecord, TypeSendAck,
     TypeCancelOrder, TypeCompleteOrder, TypeRedirectOrder, TypeTerminateWrite,
     TypeResolve, TypeSnapshot, TypeWrite, TypeSettle, TypeCrash, TypeStart DEF Next

LEMMA TypeInit == Init => TypeOK
BY CoreAssumption, PollIdleTyped, DispatcherTyped
   DEF Init, TypeOK, OrdersOK, StockOK, FleetOK, DispatcherOK, PollerOK

\* Every state that core can reach is typed: no id points at a row that was
\* never inserted, and the poller holds no order whose end it has seen.
THEOREM TypeCorrect == Spec => []TypeOK
BY TypeInit, TypeStep, PTL DEF Spec

-----------------------------------------------------------------------------
(* Reservations.                                                           *)

\* What a step may do to the claims: nothing, release those of one order, or
\* let the order that is just being inserted claim one free payload.
ClaimTaken(p) == /\ claimedBy[p] = 0
                 /\ claimedBy' = [q \in Payloads |->
                                    IF q = p THEN Len(orders) + 1 ELSE claimedBy[q]]

ClaimMove ==
    \/ UNCHANGED claimedBy
    \/ \E o \in DOMAIN orders : claimedBy' = Unclaimed(o)
    \/ \E p \in Payloads : ClaimTaken(p)

\* Sourcing with a free payload, or with none, is such a step.
LEMMA ClaimBySource ==
    ASSUME TypeOK, NEW m, NEW pickup, NEW dest, NEW claimed,
           claimed = {} \/ \E p \in Payloads : claimedBy[p] = 0 /\ claimed = {p},
           SourceNew(m, pickup, dest, claimed)
    PROVE  ClaimMove
<1>1. claimedBy' = [q \in Payloads |-> IF q \in claimed THEN Len(orders) + 1
                                                        ELSE claimedBy[q]]
  BY DEF SourceNew
<1>2. CASE claimed = {}
  BY <1>1, <1>2 DEF ClaimMove, TypeOK, StockOK
<1>3. ASSUME NEW p \in Payloads, claimedBy[p] = 0, claimed = {p} PROVE ClaimMove
  BY <1>1, <1>3 DEF ClaimMove, ClaimTaken
<1>4. QED
  BY <1>2, <1>3

LEMMA ClaimByStore ==
    ASSUME TypeOK, NEW m, HandleStore(m)
    PROVE  ClaimMove
<1>1. CASE FailNew(m, m.pickup, m.dest)
  BY <1>1 DEF FailNew, ClaimMove, stock
<1>2. ASSUME NEW n \in StorageDestinations,
             \/ SourceNew(m, n, n, {})
             \/ SourceNew(m, m.pickup, n, {})
             \/ FailNew(m, m.pickup, n)
      PROVE  ClaimMove
  <2>1. CASE SourceNew(m, n, n, {})
    BY <2>1, ClaimBySource
  <2>2. CASE SourceNew(m, m.pickup, n, {})
    BY <2>2, ClaimBySource
  <2>3. CASE FailNew(m, m.pickup, n)
    BY <2>3 DEF FailNew, ClaimMove, stock
  <2>4. QED
    BY <1>2, <2>1, <2>2, <2>3
<1>3. QED
  BY <1>1, <1>2 DEF HandleStore

LEMMA ClaimByRequest ==
    ASSUME TypeOK, NEW m, HandleOrderRequest(m)
    PROVE  ClaimMove
<1>1. CASE RejectRequest(m)
  BY <1>1 DEF RejectRequest, ClaimMove, stock
<1>2. CASE HandleRetrieve(m)
  <2>1. CASE FailNew(m, m.pickup, m.dest)
    BY <2>1 DEF FailNew, ClaimMove, stock
  <2>2. ASSUME NEW p \in RetrieveSources(m.code), FailNew(m, location[p], m.dest)
        PROVE  ClaimMove
    BY <2>2 DEF FailNew, ClaimMove, stock
  <2>3. ASSUME NEW p \in RetrieveSources(m.code), SourceNew(m, location[p], m.dest, {p})
        PROVE  ClaimMove
    <3>1. p \in Payloads /\ claimedBy[p] = 0
      BY CoreAssumption DEF RetrieveSources
    <3>2. QED
      BY <2>3, <3>1, ClaimBySource
  <2>4. QED
    BY <1>2, <2>1, <2>2, <2>3 DEF HandleRetrieve
<1>3. CASE HandleMove(m)
  <2>1. CASE FailNew(m, m.pickup, m.dest)
    BY <2>1 DEF FailNew, ClaimMove, stock
  <2>2. ASSUME NEW claimed \in ClaimFirst(MoveSources(m)),
               SourceNew(m, m.pickup, m.dest, claimed)
        PROVE  ClaimMove
    <3>1. \E p \in Payloads : claimedBy[p] = 0 /\ claimed = {p}
      BY DEF ClaimFirst, MoveSources
    <3>2. QED
      BY <2>2, <3>1, ClaimBySource
  <2>3. QED
    BY <1>3, <2>1, <2>2 DEF HandleMove
<1>4. CASE HandleStore(m)
  BY <1>4, ClaimByStore
<1>5. CASE FailNew(m, m.pickup, m.dest)
  BY <1>5 DEF FailNew, ClaimMove, stock
<1>6. QED
  BY <1>1, <1>2, <1>3, <1>4, <1>5 DEF HandleOrderRequest, AcceptRequest

\* Every step moves the claims in one of these ways.
LEMMA ClaimStep ==
    ASSUME TypeOK, [Next]_vars
    PROVE  ClaimMove
<1>1. ASSUME NEW m \in Requests, HandleOrderRequest(m) PROVE ClaimMove
  BY <1>1, ClaimByRequest
<1>2. ASSUME NEW m \in Waybills, HandleOrderStorageWaybill(m) PROVE ClaimMove
  BY <1>2, ClaimByStore DEF HandleOrderStorageWaybill
<1>3. CASE CreateTransportOrder
  <2>1. dispatcher.order \in DOMAIN orders
    BY <1>3 DEF CreateTransportOrder, TypeOK, DispatcherOK
  <2>2. UNCHANGED claimedBy \/ claimedBy' = Unclaimed(dispatcher.order)
    BY <1>3 DEF CreateTransportOrder, FailOrder
  <2>3. QED
    BY <2>1, <2>2 DEF ClaimMove
<1>4. CASE CancelOrder
  <2>1. dispatcher.order \in DOMAIN orders
    BY <1>4 DEF CancelOrder, TypeOK, DispatcherOK
  <2>2. QED
    BY <1>4, <2>1 DEF CancelOrder, ClaimMove
<1>5. CASE CompleteOrder
  <2>1. dispatcher.order \in DOMAIN orders
    BY <1>5 DEF CompleteOrder, TypeOK, DispatcherOK
  <2>2. QED
    BY <1>5, <2>1 DEF CompleteOrder, HandleOrderCompleted, ClaimMove, stock
<1>6. ASSUME NEW u \in Uuids,
             \/ HandleOrderCancel(u)
             \/ HandleOrderReceipt(u)
             \/ \E d \in NewDests : HandleOrderRedirect(u, d)
             \/ \E kind \in {"cancel", "receipt", "redirect"} : DropUnknown(kind, u)
      PROVE  ClaimMove
  BY <1>6 DEF HandleOrderCancel, HandleOrderReceipt, HandleOrderRedirect,
     DropUnknown, ClaimMove, stock
<1>7. ASSUME NEW o \in DOMAIN orders, TerminateOrder(o) PROVE ClaimMove
  BY <1>7 DEF TerminateOrder, ClaimMove, stock
<1>8. ASSUME NEW v \in DOMAIN fleetOrders, FleetProgress(v) \/ PollObserve(v)
      PROVE  ClaimMove
  BY <1>8 DEF FleetProgress, PollObserve, ClaimMove, stock
<1>9. CASE RecordDispatch \/ SendAck \/ RedirectOrder \/ TerminateWrite \/ PollResolve \/ PollSnapshot \/ PollWrite
             \/ PollSettle \/ Crash \/ Start \/ UNCHANGED vars
  BY <1>9 DEF RecordDispatch, SendAck, RedirectOrder, TerminateWrite, PollResolve, PollSnapshot, PollWrite,
              PollSettle, Crash, Start, vars, ClaimMove, stock
<1>10. QED
  BY <1>1, <1>2, <1>3, <1>4, <1>5, <1>6, <1>7, <1>8, <1>9 DEF Next

\* A claim is never taken over from another order.
LEMMA ClaimKeptOrReleased ==
    ASSUME TypeOK, ClaimMove, NEW p \in Payloads, claimedBy[p] # 0
    PROVE  claimedBy'[p] \in {0, claimedBy[p]}
BY DEF ClaimMove, ClaimTaken, Unclaimed

\* One claim per order is inductive, given that no claim carries the id of a
\* row that does not exist yet.
LEMMA OneClaimStep ==
    ASSUME TypeOK, OneClaimPerOrder, ClaimMove
    PROVE  OneClaimPerOrder'
<1>1. \A p \in Payloads : claimedBy[p] # Len(orders) + 1
  <2>1. Len(orders) \in Nat
    BY LenProperties DEF TypeOK, OrdersOK
  <2>2. QED
    BY <2>1 DEF TypeOK, StockOK
<1>2. CASE UNCHANGED claimedBy
  BY <1>2 DEF OneClaimPerOrder
<1>3. ASSUME NEW o \in DOMAIN orders, claimedBy' = Unclaimed(o)
      PROVE  OneClaimPerOrder'
  BY <1>3 DEF OneClaimPerOrder, Unclaimed
<1>4. ASSUME NEW p \in Payloads, ClaimTaken(p)
      PROVE  OneClaimPerOrder'
  BY <1>1, <1>4 DEF OneClaimPerOrder, ClaimTaken
<1>5. QED
  BY <1>2, <1>3, <1>4 DEF ClaimMove

\* No order ever holds two payloads, in whatever order requests, repetitions,
\* redirects, cancellations and failures of the fleet arrive.
THEOREM OneClaim == Spec => []OneClaimPerOrder
<1>1. Init => OneClaimPerOrder
  BY DEF Init, OneClaimPerOrder
<1>2. TypeOK /\ OneClaimPerOrder /\ [Next]_vars => OneClaimPerOrder'
  BY ClaimStep, OneClaimStep
<1>3. QED
  BY <1>1, <1>2, TypeCorrect, PTL DEF Spec

\* No order's reservation is overwritten by another order's: it goes through a
\* release, although ClaimPayload itself checks nothing.
THEOREM ClaimsNotStolen == Spec => ClaimNotStolen
<1>1. TypeOK /\ [Next]_vars =>
        [\A p \in Payloads : claimedBy[p] # 0 => claimedBy'[p] \in {0, claimedBy[p]}]_claimedBy
  BY ClaimStep, ClaimKeptOrReleased
<1>2. QED
  BY <1>1, TypeCorrect, PTL DEF Spec, ClaimNotStolen

-----------------------------------------------------------------------------
(* Following the fleet, when nobody redirects.                             *)

\* The strengthening that makes DispatchedIsTracked inductive.  An order that
\* is being dispatched carries no vendor id, and the id that was created for it
\* belongs to no row yet (and no redirect is in hand)...
DispatchInv ==
    /\ dispatcher.pc # "redirect"
    /\ dispatcher.pc \in {"create", "record"} => orders[dispatcher.order].vendor = 0
    /\ dispatcher.pc = "record" =>
         \A o \in DOMAIN orders : orders[o].vendor # dispatcher.vendor

\* ...no two rows share a vendor id...
VendorInv ==
    \A o, q \in DOMAIN orders :
        orders[o].vendor = orders[q].vendor /\ orders[o].vendor # 0 => o = q

\* ...and what the poller has in hand is the order's own fleet order, still
\* watched or at its end, read from the row as it is now or as it was before
\* it left the fleet.
PollInv ==
    /\ poller.pc # "idle" =>
         /\ poller.vendor # 0
         /\ poller.vendor \in DOMAIN active \/ IsTerminal(poller.state)
    /\ poller.pc \in {"snapshot", "write", "settle"} =>
         orders[poller.order].vendor = poller.vendor
    /\ poller.pc = "write" =>
         /\ poller.snapVendor = poller.vendor
         /\ poller.status \notin {"dispatched", "in_transit"} => ~WithFleet(poller.order)
    /\ poller.pc = "settle" => IsTerminal(poller.state)

\* A process that is down has nothing in hand.
DownInv == ~up => dispatcher.pc = "idle" /\ poller.pc = "idle"

FollowInv == DispatchInv /\ VendorInv /\ PollInv /\ DownInv /\ DispatchedIsTracked

\* Steps that write no vendor id and bring no order back to the fleet.
LEMMA FollowQuiet ==
    ASSUME TypeOK, FollowInv, DOMAIN orders' = DOMAIN orders,
           \A q \in DOMAIN orders :
              /\ orders'[q].vendor = orders[q].vendor
              /\ \/ orders'[q].status = orders[q].status
                 \/ orders'[q].status \notin {"dispatched", "in_transit"},
           dispatcher'.pc \in {"idle", "cancel", "receipt"} \/ UNCHANGED dispatcher,
           ~up => UNCHANGED dispatcher,
           UNCHANGED <<active, poller, up>>
    PROVE  FollowInv'
<1>1. \A q \in DOMAIN orders : WithFleet(q)' => WithFleet(q)
  BY DEF WithFleet
<1>2. DispatchInv'
  BY DEF FollowInv, DispatchInv, TypeOK, DispatcherOK
<1>3. VendorInv'
  BY DEF FollowInv, VendorInv
<1>4. PollInv'
  BY <1>1 DEF FollowInv, PollInv, TypeOK, PollerOK
<1>5. DownInv'
  BY DEF FollowInv, DownInv
<1>6. DispatchedIsTracked'
  BY <1>1 DEF FollowInv, DispatchedIsTracked
<1>7. QED
  BY <1>2, <1>3, <1>4, <1>5, <1>6 DEF FollowInv

\* One status is written, and it is none of a fleet's.
LEMMA FollowStatus ==
    ASSUME TypeOK, FollowInv, NEW o \in DOMAIN orders,
           NEW st \in Status \ {"dispatched", "in_transit"},
           orders' = [orders EXCEPT ![o].status = st],
           dispatcher'.pc \in {"idle", "receipt"} \/ UNCHANGED dispatcher,
           ~up => UNCHANGED dispatcher,
           UNCHANGED <<active, poller, up>>
    PROVE  FollowInv'
<1>1. orders \in Seq(Order) /\ st \in Status
  BY DEF TypeOK, OrdersOK
<1>2. /\ DOMAIN orders' = DOMAIN orders
      /\ \A q \in DOMAIN orders :
           /\ orders'[q].vendor = orders[q].vendor
           /\ orders'[q].status = IF q = o THEN st ELSE orders[q].status
  BY <1>1, StatusWritten
<1>3. QED
  BY <1>2, FollowQuiet

\* A row is inserted for a new order; it is not with the fleet.
LEMMA FollowInsert ==
    ASSUME TypeOK, FollowInv, NEW row \in Order, row.vendor = 0,
           orders' = Append(orders, row), up, dispatcher.pc = "idle",
           \/ UNCHANGED dispatcher
           \/ dispatcher'.pc = "create" /\ dispatcher'.order = Len(orders) + 1,
           UNCHANGED <<active, poller, up>>
    PROVE  FollowInv'
<1>1. /\ DOMAIN orders' = 1 .. Len(orders) + 1
      /\ DOMAIN orders = 1 .. Len(orders)
      /\ orders'[Len(orders) + 1] = row
      /\ \A j \in DOMAIN orders : orders'[j] = orders[j]
      /\ Len(orders) \in Nat
  BY RowAppended DEF TypeOK, OrdersOK
<1>2. \A q \in DOMAIN orders' : WithFleet(q)' => q \in DOMAIN orders /\ WithFleet(q)
  BY <1>1 DEF WithFleet
<1>3. DispatchInv'
  BY <1>1 DEF DispatchInv
<1>4. VendorInv'
  BY <1>1 DEF FollowInv, VendorInv
<1>5. PollInv'
  BY <1>1, <1>2 DEF FollowInv, PollInv, TypeOK, PollerOK
<1>6. DownInv' /\ DispatchedIsTracked'
  BY <1>1, <1>2 DEF FollowInv, DownInv, DispatchedIsTracked
<1>7. QED
  BY <1>3, <1>4, <1>5, <1>6 DEF FollowInv

LEMMA FollowFailNew ==
    ASSUME TypeOK, FollowInv, NEW m \in Request, NEW pickup \in Names,
           NEW dest \in Names, FailNew(m, pickup, dest), up,
           dispatcher.pc = "idle", UNCHANGED <<active, poller, up>>
    PROVE  FollowInv'
<1> DEFINE row == NewOrder(m, "failed", pickup, dest)
<1>1. row \in Order /\ row.vendor = 0
  BY DEF NewOrder, Order, Request, Status
<1>2. orders' = Append(orders, row) /\ UNCHANGED dispatcher
  BY DEF FailNew
<1> HIDE DEF row
<1>3. QED
  BY <1>1, <1>2, FollowInsert

LEMMA FollowSourceNew ==
    ASSUME TypeOK, FollowInv, NEW m \in Request, NEW pickup \in Names,
           NEW dest \in Names, NEW claimed, SourceNew(m, pickup, dest, claimed),
           up, dispatcher.pc = "idle", UNCHANGED <<active, poller, up>>
    PROVE  FollowInv'
<1> DEFINE row == NewOrder(m, "sourcing", pickup, dest)
<1>1. row \in Order /\ row.vendor = 0
  BY DEF NewOrder, Order, Request, Status
<1>2. /\ orders' = Append(orders, row)
      /\ dispatcher'.pc = "create" /\ dispatcher'.order = Len(orders) + 1
  BY DEF SourceNew
<1> HIDE DEF row
<1>3. QED
  BY <1>1, <1>2, FollowInsert

LEMMA FollowStore ==
    ASSUME TypeOK, FollowInv, NEW m \in Request, HandleStore(m), up,
           dispatcher.pc = "idle", UNCHANGED <<active, poller, up>>
    PROVE  FollowInv'
<1>1. m.pickup \in Names /\ m.dest \in Names
  BY DEF Request
<1>2. CASE FailNew(m, m.pickup, m.dest)
  BY <1>1, <1>2, FollowFailNew
<1>3. ASSUME NEW n \in StorageDestinations,
             \/ SourceNew(m, n, n, {})
             \/ SourceNew(m, m.pickup, n, {})
             \/ FailNew(m, m.pickup, n)
      PROVE  FollowInv'
  <2>1. n \in Names
    BY CoreAssumption DEF StorageDestinations
  <2>2. QED
    BY <1>1, <1>3, <2>1, FollowFailNew, FollowSourceNew
<1>4. QED
  BY <1>2, <1>3 DEF HandleStore

LEMMA FollowRequest ==
    ASSUME TypeOK, FollowInv, NEW m \in Request, HandleOrderRequest(m)
    PROVE  FollowInv'
<1>1. m.pickup \in Names /\ m.dest \in Names
  BY DEF Request
<1>2. up /\ dispatcher.pc = "idle" /\ UNCHANGED <<active, poller, up>>
  BY DEF HandleOrderRequest, Receive
<1>3. CASE RejectRequest(m)
  <2>1. UNCHANGED <<orders, dispatcher>>
    BY <1>3 DEF RejectRequest
  <2>2. QED
    BY <1>2, <2>1, FollowQuiet
<1>4. CASE HandleRetrieve(m)
  <2>1. CASE FailNew(m, m.pickup, m.dest)
    BY <1>1, <1>2, <2>1, FollowFailNew
  <2>2. ASSUME NEW p \in RetrieveSources(m.code),
               \/ SourceNew(m, location[p], m.dest, {p})
               \/ FailNew(m, location[p], m.dest)
        PROVE  FollowInv'
    <3>1. location[p] \in Names
      BY CoreAssumption DEF TypeOK, StockOK, RetrieveSources
    <3>2. QED
      BY <1>1, <1>2, <2>2, <3>1, FollowFailNew, FollowSourceNew
  <2>3. QED
    BY <1>4, <2>1, <2>2 DEF HandleRetrieve
<1>5. CASE HandleMove(m)
  <2>1. \/ FailNew(m, m.pickup, m.dest)
        \/ \E claimed \in ClaimFirst(MoveSources(m)) : SourceNew(m, m.pickup, m.dest, claimed)
    BY <1>5 DEF HandleMove
  <2>2. QED
    BY <1>1, <1>2, <2>1, FollowFailNew, FollowSourceNew
<1>6. CASE HandleStore(m)
  BY <1>2, <1>6, FollowStore
<1>7. CASE FailNew(m, m.pickup, m.dest)
  BY <1>1, <1>2, <1>7, FollowFailNew
<1>8. QED
  BY <1>3, <1>4, <1>5, <1>6, <1>7 DEF HandleOrderRequest, AcceptRequest

LEMMA FollowCreate ==
    ASSUME TypeOK, FollowInv, CreateTransportOrder
    PROVE  FollowInv'
<1> DEFINE o == dispatcher.order
<1>1. o \in DOMAIN orders /\ dispatcher.pc = "create" /\ orders[o].vendor = 0 /\ up
  BY DEF TypeOK, DispatcherOK, CreateTransportOrder, FollowInv, DispatchInv
<1>2. UNCHANGED <<active, poller, up>>
  BY DEF CreateTransportOrder
<1>3. CASE /\ dispatcher' = [dispatcher EXCEPT !.pc = "record",
                                               !.vendor = Len(fleetOrders) + 1]
           /\ UNCHANGED orders
  <2>1. dispatcher'.pc = "record" /\ dispatcher'.vendor = Len(fleetOrders) + 1
        /\ dispatcher'.order = o
    BY <1>3 DEF TypeOK, DispatcherOK
  <2>2. \A q \in DOMAIN orders : orders[q].vendor # Len(fleetOrders) + 1
    <3>1. Len(fleetOrders) \in Nat
      BY LenProperties DEF TypeOK, FleetOK
    <3>2. QED
      BY <3>1 DEF TypeOK, OrdersOK
  <2>3. DispatchInv'
    BY <1>1, <1>3, <2>1, <2>2 DEF DispatchInv
  <2>4. VendorInv' /\ PollInv' /\ DownInv' /\ DispatchedIsTracked'
    BY <1>1, <1>2, <1>3 DEF FollowInv, VendorInv, PollInv, DownInv,
       DispatchedIsTracked, WithFleet
  <2>5. QED
    BY <2>3, <2>4 DEF FollowInv
<1>4. CASE FailOrder(o)
  <2>1. orders' = [orders EXCEPT ![o].status = "failed"] /\ dispatcher'.pc = "idle"
    BY <1>4 DEF FailOrder, Idle
  <2>2. "failed" \in Status \ {"dispatched", "in_transit"}
    BY DEF Status
  <2>3. QED
    BY <1>1, <1>2, <2>1, <2>2, FollowStatus
<1>5. QED
  BY <1>3, <1>4 DEF CreateTransportOrder

LEMMA FollowRecord ==
    ASSUME TypeOK, FollowInv, RecordDispatch
    PROVE  FollowInv'
<1> DEFINE o == dispatcher.order
           v == dispatcher.vendor
<1>1. /\ o \in DOMAIN orders /\ v \in DOMAIN fleetOrders
      /\ dispatcher.pc = "record" /\ orders[o].vendor = 0 /\ up
      /\ \A q \in DOMAIN orders : orders[q].vendor # v
  BY DEF TypeOK, DispatcherOK, RecordDispatch, FollowInv, DispatchInv
<1>2. v \in Nat /\ v # 0
  BY <1>1, LenProperties DEF TypeOK, FleetOK
<1>3. orders \in Seq(Order) /\ orders[o] \in Order
  BY <1>1, OrderRow DEF TypeOK, OrdersOK
<1>4. /\ DOMAIN orders' = DOMAIN orders
      /\ \A q \in DOMAIN orders :
            /\ orders'[q].vendor = IF q = o THEN v ELSE orders[q].vendor
            /\ orders'[q].status = IF q = o THEN "dispatched" ELSE orders[q].status
  <2> DEFINE row == [orders[o] EXCEPT !.vendor = v, !.robot = FALSE, !.status = "dispatched"]
  <2>1. row \in Order /\ row.vendor = v /\ row.status = "dispatched"
    BY <1>2, <1>3 DEF Order, Status
  <2>2. orders' = [orders EXCEPT ![o] = row]
    BY DEF RecordDispatch
  <2> HIDE DEF row
  <2>3. QED
    BY <1>1, <1>3, <2>1, <2>2, RowReplaced
<1>5. v \in DOMAIN active' /\ DOMAIN active \subseteq DOMAIN active'
  BY DEF RecordDispatch, Track
<1>6. UNCHANGED <<poller, up>>
  BY DEF RecordDispatch
<1>7. DispatchInv'
  BY DEF DispatchInv, RecordDispatch, TypeOK, DispatcherOK
<1>8. VendorInv'
  BY <1>1, <1>4 DEF FollowInv, VendorInv
<1>9. PollInv'
  <2>1. poller.pc \in {"snapshot", "write", "settle"} =>
          poller.order \in DOMAIN orders /\ poller.order # o
    BY <1>1 DEF FollowInv, PollInv, TypeOK, PollerOK
  <2>2. poller.pc \in {"snapshot", "write", "settle"} =>
          /\ orders'[poller.order].vendor = orders[poller.order].vendor
          /\ orders'[poller.order].status = orders[poller.order].status
    BY <1>4, <2>1
  <2>3. QED
    BY <1>5, <1>6, <2>2 DEF FollowInv, PollInv, WithFleet
<1>10. DownInv'
  BY <1>1, <1>6 DEF DownInv
<1>11. DispatchedIsTracked'
  BY <1>1, <1>4, <1>5, <1>6 DEF FollowInv, DispatchedIsTracked, WithFleet
<1>12. QED
  BY <1>7, <1>8, <1>9, <1>10, <1>11 DEF FollowInv

LEMMA FollowSendAck ==
    ASSUME TypeOK, FollowInv, SendAck
    PROVE  FollowInv'
<1>1. dispatcher'.pc = "idle" /\ up /\ UNCHANGED <<orders, active, poller, up>>
  BY DEF SendAck, Idle
<1>2. QED
  BY <1>1, FollowQuiet

LEMMA FollowByEdge ==
    ASSUME TypeOK, FollowInv, "redirect" \notin Inputs, NEW u \in Uuids,
           \/ HandleOrderCancel(u)
           \/ HandleOrderReceipt(u)
           \/ \E d \in NewDests : HandleOrderRedirect(u, d)
           \/ \E kind \in {"cancel", "receipt", "redirect"} : DropUnknown(kind, u)
    PROVE  FollowInv'
<1>1. CASE HandleOrderCancel(u)
  <2>1. dispatcher'.pc = "cancel" /\ up /\ UNCHANGED <<orders, active, poller, up>>
    BY <1>1 DEF HandleOrderCancel, Receive, Idle
  <2>2. QED
    BY <2>1, FollowQuiet
<1>2. CASE HandleOrderReceipt(u)
  <2>1. PICK o \in DOMAIN orders : orders' = [orders EXCEPT ![o].status = "confirmed"]
    BY <1>2 DEF HandleOrderReceipt, ByUuid
  <2>2. "confirmed" \in Status \ {"dispatched", "in_transit"}
    BY DEF Status
  <2>3. dispatcher'.pc = "receipt" /\ up /\ UNCHANGED <<active, poller, up>>
    BY <1>2 DEF HandleOrderReceipt, Receive, Idle
  <2>4. QED
    BY <2>1, <2>2, <2>3, FollowStatus
<1>3. CASE \E d \in NewDests : HandleOrderRedirect(u, d)
  BY <1>3 DEF HandleOrderRedirect, Receive, TakeInput
<1>4. CASE \E kind \in {"cancel", "receipt", "redirect"} : DropUnknown(kind, u)
  <2>1. UNCHANGED <<orders, active, dispatcher, poller, up>>
    BY <1>4 DEF DropUnknown
  <2>2. QED
    BY <2>1, FollowQuiet
<1>5. QED
  BY <1>1, <1>2, <1>3, <1>4

LEMMA FollowCancelOrder ==
    ASSUME TypeOK, FollowInv, CancelOrder
    PROVE  FollowInv'
<1>1. /\ dispatcher.order \in DOMAIN orders
      /\ orders' = [orders EXCEPT ![dispatcher.order].status = "cancelled"]
      /\ dispatcher'.pc = "idle" /\ up /\ UNCHANGED <<active, poller, up>>
  BY DispatcherTyped DEF CancelOrder, TypeOK, DispatcherOK
<1>2. "cancelled" \in Status \ {"dispatched", "in_transit"}
  BY DEF Status
<1>3. QED
  BY <1>1, <1>2, FollowStatus

LEMMA FollowCompleteOrder ==
    ASSUME TypeOK, FollowInv, CompleteOrder
    PROVE  FollowInv'
<1>1. dispatcher'.pc = "idle" /\ up /\ UNCHANGED <<orders, active, poller, up>>
  BY DispatcherTyped DEF CompleteOrder
<1>2. QED
  BY <1>1, FollowQuiet

LEMMA FollowTerminate ==
    ASSUME TypeOK, FollowInv, NEW o, TerminateOrder(o)
    PROVE  FollowInv'
<1>1. UNCHANGED <<orders, active, dispatcher, poller, up>>
  BY DEF TerminateOrder
<1>2. QED
  BY <1>1, FollowQuiet

LEMMA FollowTerminateWrite ==
    ASSUME TypeOK, FollowInv, TerminateWrite
    PROVE  FollowInv'
<1>1. /\ web \in DOMAIN orders
      /\ orders' = [orders EXCEPT ![web].status = "cancelled"]
      /\ UNCHANGED <<active, dispatcher, poller, up>>
  BY DEF TerminateWrite, TypeOK
<1>2. "cancelled" \in Status \ {"dispatched", "in_transit"}
  BY DEF Status
<1>3. QED
  BY <1>1, <1>2, FollowStatus

LEMMA FollowProgress ==
    ASSUME TypeOK, FollowInv, NEW v, FleetProgress(v)
    PROVE  FollowInv'
<1>1. UNCHANGED <<orders, active, dispatcher, poller, up>>
  BY DEF FleetProgress
<1>2. QED
  BY <1>1, FollowQuiet

\* The poller takes an order it has seen the end of out of active, but holds it.
LEMMA FollowObserve ==
    ASSUME TypeOK, FollowInv, NEW v \in DOMAIN fleetOrders, PollObserve(v)
    PROVE  FollowInv'
<1>1. /\ poller'.pc = "resolve" /\ poller'.vendor = v
      /\ poller'.state = fleetOrders[v].state
      /\ poller.pc = "idle" /\ v \in DOMAIN active
      /\ UNCHANGED <<orders, dispatcher, up>> /\ up
  BY DEF PollObserve, PollIdle
<1>2. v # 0
  BY LenProperties DEF TypeOK, FleetOK
<1>3. DOMAIN active \ {v} \subseteq DOMAIN active'
      /\ (v \in DOMAIN active' \/ IsTerminal(fleetOrders[v].state))
  BY <1>1 DEF PollObserve, WithoutFinished
<1>4. DispatchInv' /\ VendorInv' /\ DownInv'
  BY <1>1 DEF FollowInv, DispatchInv, VendorInv, DownInv
<1>5. PollInv'
  BY <1>1, <1>2, <1>3 DEF PollInv
<1>6. DispatchedIsTracked'
  BY <1>1, <1>3 DEF FollowInv, DispatchedIsTracked, WithFleet
<1>7. QED
  BY <1>4, <1>5, <1>6 DEF FollowInv

LEMMA FollowResolve ==
    ASSUME TypeOK, FollowInv, PollResolve
    PROVE  FollowInv'
<1>1. UNCHANGED <<orders, active, dispatcher, up>> /\ up /\ poller.pc = "resolve"
  BY DEF PollResolve
<1>2. DispatchInv' /\ VendorInv' /\ DownInv'
  BY <1>1 DEF FollowInv, DispatchInv, VendorInv, DownInv
<1>3. CASE /\ \A o \in DOMAIN orders : orders[o].vendor # poller.vendor
           /\ poller' = PollIdle
  <2>1. poller'.pc = "idle"
    BY <1>3 DEF PollIdle
  <2>2. QED
    BY <1>1, <1>2, <1>3, <2>1 DEF FollowInv, PollInv, DispatchedIsTracked, WithFleet
<1>4. ASSUME NEW o \in DOMAIN orders, orders[o].vendor = poller.vendor,
             poller' = [poller EXCEPT !.pc = "snapshot", !.order = o]
      PROVE  FollowInv'
  <2>1. /\ poller'.pc = "snapshot" /\ poller'.order = o
        /\ poller'.vendor = poller.vendor /\ poller'.state = poller.state
    BY <1>4 DEF TypeOK, PollerOK
  <2>2. QED
    BY <1>1, <1>2, <1>4, <2>1 DEF FollowInv, PollInv, DispatchedIsTracked, WithFleet
<1>5. QED
  BY <1>3, <1>4 DEF PollResolve

LEMMA FollowSnapshot ==
    ASSUME TypeOK, FollowInv, PollSnapshot
    PROVE  FollowInv'
<1>1. UNCHANGED <<orders, active, dispatcher, up>> /\ up /\ poller.pc = "snapshot"
  BY DEF PollSnapshot
<1>2. DispatchInv' /\ VendorInv' /\ DownInv'
  BY <1>1 DEF FollowInv, DispatchInv, VendorInv, DownInv
<1>3. /\ poller'.pc = "write" /\ poller'.order = poller.order
      /\ poller'.vendor = poller.vendor /\ poller'.state = poller.state
      /\ poller'.status = orders[poller.order].status
      /\ poller'.snapVendor = orders[poller.order].vendor
  BY DEF PollSnapshot, TypeOK, PollerOK
<1>4. PollInv' /\ DispatchedIsTracked'
  BY <1>1, <1>3 DEF FollowInv, PollInv, DispatchedIsTracked, WithFleet
<1>5. QED
  BY <1>2, <1>4 DEF FollowInv

\* The end of a fleet order is never taken for an order that is with the fleet.
LEMMA MapStateEnd ==
    ASSUME NEW s, IsTerminal(s)
    PROVE  MapState(s) \notin {"dispatched", "in_transit"}
<1>1. CASE s = "FINISHED"
  BY <1>1 DEF MapState
<1>2. CASE s = "FAILED"
  BY <1>2 DEF MapState
<1>3. CASE s = "STOPPED"
  BY <1>3 DEF MapState
<1>4. QED
  BY <1>1, <1>2, <1>3 DEF IsTerminal

\* The write puts the order's own vendor id back, and brings an order back to
\* the fleet only while its fleet order is watched.
LEMMA FollowWrite ==
    ASSUME TypeOK, FollowInv, PollWrite
    PROVE  FollowInv'
<1> DEFINE o == poller.order
<1>1. /\ up /\ poller.pc = "write" /\ o \in DOMAIN orders
      /\ poller.vendor # 0 /\ orders[o].vendor = poller.vendor
      /\ poller.snapVendor = poller.vendor
      /\ poller.vendor \in DOMAIN active \/ IsTerminal(poller.state)
      /\ poller.status \notin {"dispatched", "in_transit"} => ~WithFleet(o)
      /\ orders \in Seq(Order) /\ orders[o] \in Order
  BY OrderRow DEF PollWrite, FollowInv, PollInv, TypeOK, PollerOK, OrdersOK
<1>2. UNCHANGED <<active, dispatcher, up>>
  BY DEF PollWrite
<1>3. /\ DOMAIN orders' = DOMAIN orders
      /\ \A q \in DOMAIN orders :
            /\ orders'[q].vendor = orders[q].vendor
            /\ q # o => orders'[q].status = orders[q].status
            /\ orders'[o].status = IF StatusChanged THEN MapState(poller.state)
                                                    ELSE orders[o].status
  <2>1. CASE StatusChanged
    <3> DEFINE row == [orders[o] EXCEPT !.status = MapState(poller.state),
                                        !.vendor = poller.snapVendor,
                                        !.robot = poller.vehicle]
    <3>1. row \in Order /\ row.vendor = orders[o].vendor /\ row.status = MapState(poller.state)
      BY <1>1, MapStateTyped DEF Order, TypeOK, PollerOK
    <3>2. orders' = [orders EXCEPT ![o] = row]
      BY <2>1 DEF PollWrite
    <3> HIDE DEF row
    <3>3. QED
      BY <1>1, <2>1, <3>1, <3>2, RowReplaced
  <2>2. CASE ~StatusChanged /\ NewRobot
    <3> DEFINE row == [orders[o] EXCEPT !.vendor = poller.snapVendor, !.robot = TRUE]
    <3>1. row \in Order /\ row.vendor = orders[o].vendor /\ row.status = orders[o].status
      BY <1>1 DEF Order, TypeOK, PollerOK
    <3>2. orders' = [orders EXCEPT ![o] = row]
      BY <2>2 DEF PollWrite
    <3> HIDE DEF row
    <3>3. QED
      BY <1>1, <2>2, <3>1, <3>2, RowReplaced
  <2>3. CASE ~StatusChanged /\ ~NewRobot
    BY <1>1, <2>3 DEF PollWrite
  <2>4. QED
    BY <2>1, <2>2, <2>3
<1>4. DispatchInv'
  BY <1>2, <1>3 DEF FollowInv, DispatchInv, TypeOK, DispatcherOK
<1>5. VendorInv'
  BY <1>3 DEF FollowInv, VendorInv
<1>6. CASE Settles
  <2>1. /\ poller' = [poller EXCEPT !.pc = "settle"] /\ IsTerminal(poller.state)
        /\ StatusChanged
    BY <1>6 DEF PollWrite, Settles
  <2>2. /\ poller'.pc = "settle" /\ poller'.order = o
        /\ poller'.vendor = poller.vendor /\ poller'.state = poller.state
    BY <2>1 DEF TypeOK, PollerOK
  <2>3. PollInv'
    BY <1>1, <1>3, <2>1, <2>2 DEF PollInv
  <2>4. DispatchedIsTracked'
    BY <1>1, <1>2, <1>3, <2>2 DEF FollowInv, DispatchedIsTracked, WithFleet
  <2>5. QED
    BY <1>1, <1>2, <1>4, <1>5, <2>3, <2>4 DEF FollowInv, DownInv
<1>7. CASE ~Settles
  <2>1. poller'.pc = "idle"
    BY <1>7, PollIdleTyped DEF PollWrite
  <2>2. IsTerminal(poller.state) =>
          orders'[o].status \notin {"dispatched", "in_transit"}
    <3>1. CASE StatusChanged
      BY <1>7, <3>1 DEF Settles
    <3>2. CASE ~StatusChanged /\ IsTerminal(poller.state)
      <4>1. poller.status \notin {"dispatched", "in_transit"}
        BY <3>2, MapStateEnd DEF StatusChanged
      <4>2. QED
        BY <1>1, <1>3, <3>2, <4>1 DEF WithFleet
    <3>3. QED
      BY <3>1, <3>2
  <2>3. DispatchedIsTracked'
    <3> SUFFICES ASSUME NEW q \in DOMAIN orders, orders'[q].vendor # 0,
                        orders'[q].status \in {"dispatched", "in_transit"}
                 PROVE  orders'[q].vendor \in DOMAIN active
      BY <1>2, <1>3 DEF DispatchedIsTracked, WithFleet
    <3>1. CASE q = o
      BY <1>1, <1>3, <2>2, <3>1
    <3>2. CASE q # o
      <4>1. WithFleet(q)
        BY <1>3, <3>2 DEF WithFleet
      <4>2. orders[q].vendor # poller.vendor
        BY <1>1, <3>2 DEF FollowInv, VendorInv
      <4>3. QED
        BY <1>1, <1>3, <4>1, <4>2 DEF FollowInv, DispatchedIsTracked
    <3>3. QED
      BY <3>1, <3>2
  <2>4. QED
    BY <1>1, <1>2, <1>4, <1>5, <2>1, <2>3 DEF FollowInv, PollInv, DownInv
<1>8. QED
  BY <1>6, <1>7

LEMMA FollowSettle ==
    ASSUME TypeOK, FollowInv, PollSettle
    PROVE  FollowInv'
<1> DEFINE o == poller.order
           st == MapState(poller.state)
<1>1. /\ up /\ poller.pc = "settle" /\ o \in DOMAIN orders
      /\ orders[o].vendor = poller.vendor /\ poller.vendor # 0
      /\ IsTerminal(poller.state)
  BY DEF PollSettle, FollowInv, PollInv, TypeOK, PollerOK
<1>2. st \in Status /\ st \notin {"dispatched", "in_transit"}
  BY <1>1, MapStateTyped, MapStateEnd
<1>3. orders' = [orders EXCEPT ![o].status = st] /\ orders \in Seq(Order)
  BY DEF PollSettle, TypeOK, OrdersOK
<1> HIDE DEF st
<1>4. /\ DOMAIN orders' = DOMAIN orders
      /\ \A q \in DOMAIN orders :
           /\ orders'[q].vendor = orders[q].vendor
           /\ orders'[q].status = IF q = o THEN st ELSE orders[q].status
  BY <1>1, <1>2, <1>3, StatusWritten
<1>5. UNCHANGED <<active, dispatcher, up>> /\ poller'.pc = "idle"
  BY PollIdleTyped DEF PollSettle
<1>6. DispatchInv' /\ VendorInv' /\ PollInv' /\ DownInv'
  BY <1>1, <1>4, <1>5 DEF FollowInv, DispatchInv, VendorInv, PollInv, DownInv,
     TypeOK, DispatcherOK
<1>7. DispatchedIsTracked'
  <2>1. \A q \in DOMAIN orders : q # o => orders[q].vendor # poller.vendor
    BY <1>1 DEF FollowInv, VendorInv
  <2>2. QED
    BY <1>1, <1>2, <1>4, <1>5, <2>1 DEF FollowInv, DispatchedIsTracked, WithFleet
<1>8. QED
  BY <1>6, <1>7 DEF FollowInv

LEMMA FollowCrash ==
    ASSUME TypeOK, FollowInv, Crash
    PROVE  FollowInv'
<1>1. dispatcher'.pc = "idle" /\ poller'.pc = "idle" /\ ~up' /\ UNCHANGED orders
  BY PollIdleTyped DEF Crash, Idle
<1>2. QED
  BY <1>1 DEF FollowInv, DispatchInv, VendorInv, PollInv, DownInv, DispatchedIsTracked

\* What loadActiveOrders tracks is every order that is with the fleet.
LEMMA FollowStart ==
    ASSUME TypeOK, FollowInv, Start
    PROVE  FollowInv'
<1>1. dispatcher.pc = "idle" /\ poller.pc = "idle" /\ UNCHANGED <<orders, dispatcher, poller>>
  BY DEF Start, FollowInv, DownInv
<1>2. DispatchedVendorIDs \subseteq DOMAIN active'
  BY DEF Start, Track
<1>3. \A o \in DOMAIN orders : WithFleet(o) => orders[o].vendor \in DispatchedVendorIDs
  BY DEF WithFleet, DispatchedVendorIDs, VendorIdsOf
<1>4. QED
  BY <1>1, <1>2, <1>3 DEF FollowInv, DispatchInv, VendorInv, PollInv, DownInv,
     DispatchedIsTracked, WithFleet

LEMMA FollowStep ==
    ASSUME "redirect" \notin Inputs
    PROVE  TypeOK /\ FollowInv /\ [Next]_vars => FollowInv'
<1> SUFFICES ASSUME TypeOK, FollowInv, [Next]_vars PROVE FollowInv'
  OBVIOUS
<1>1. ASSUME NEW m \in Requests, HandleOrderRequest(m) PROVE FollowInv'
  BY <1>1, FollowRequest, CoreAssumption
<1>2. ASSUME NEW m \in Waybills, HandleOrderStorageWaybill(m) PROVE FollowInv'
  BY <1>2, FollowStore, CoreAssumption DEF HandleOrderStorageWaybill, Receive
<1>3. ASSUME NEW u \in Uuids,
             \/ HandleOrderCancel(u)
             \/ HandleOrderReceipt(u)
             \/ \E d \in NewDests : HandleOrderRedirect(u, d)
             \/ \E kind \in {"cancel", "receipt", "redirect"} : DropUnknown(kind, u)
      PROVE FollowInv'
  BY <1>3, FollowByEdge
<1>4. ASSUME NEW o \in DOMAIN orders, TerminateOrder(o) PROVE FollowInv'
  BY <1>4, FollowTerminate
<1>5. ASSUME NEW v \in DOMAIN fleetOrders, FleetProgress(v) \/ PollObserve(v)
      PROVE FollowInv'
  BY <1>5, FollowProgress, FollowObserve
<1>6. CASE UNCHANGED vars
  BY <1>6, FollowQuiet DEF vars
<1>7. CASE RedirectOrder
  BY <1>7 DEF RedirectOrder, FollowInv, DispatchInv
<1>8. QED
  BY <1>1, <1>2, <1>3, <1>4, <1>5, <1>6, <1>7, FollowCreate, FollowRecord, FollowSendAck,
     FollowCancelOrder, FollowCompleteOrder, FollowTerminateWrite,
     FollowResolve, FollowSnapshot, FollowWrite, FollowSettle, FollowCrash,
     FollowStart DEF Next

\* As long as nobody redirects an order, the poller follows the fleet order of
\* every order that core takes to be with the fleet: through crashes, repeated
\* requests, cancellations, terminations, lost answers and every interleaving
\* of the poller with them.
THEOREM TrackedUnlessRedirected ==
    ASSUME "redirect" \notin Inputs
    PROVE  Spec => []DispatchedIsTracked
<1>1. Init => FollowInv
  BY DEF Init, FollowInv, DispatchInv, VendorInv, PollInv, DownInv,
     DispatchedIsTracked, Idle, PollIdle
<1>2. TypeOK /\ FollowInv /\ [Next]_vars => FollowInv'
  BY FollowStep
<1>3. FollowInv => DispatchedIsTracked
  BY DEF FollowInv
<1>4. QED
  BY <1>1, <1>2, <1>3, TypeCorrect, PTL DEF Spec
=============================================================================
