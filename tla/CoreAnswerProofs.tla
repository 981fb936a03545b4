-------------------------- MODULE CoreAnswerProofs --------------------------
(***************************************************************************)
(* What the edge is told, for every plant and every set of messages: each  *)
(* order is answered, and a delivery is told at most once for each         *)
(* transport that arrived.  Redirects, repeated requests, terminate clicks *)
(* and the faults of the fleet's API are all allowed; a crash is not,      *)
(* because it loses the answer a handler was about to give and the end the *)
(* poller had in hand.                                                     *)
(***************************************************************************)
EXTENDS CoreReservationProofs

-----------------------------------------------------------------------------
(* Every order is answered.                                                *)

Answered(u) == \E i \in DOMAIN outbox[u] : outbox[u][i] \in {"ack", "error"}

\* The dispatcher is on its way to the ack or to the error of the order.
Dispatching(o) == dispatcher.pc \in {"create", "record", "ack"} /\ dispatcher.order = o

AnswerInv == \A o \in DOMAIN orders : Dispatching(o) \/ Answered(orders[o].uuid)

\* A dispatch that has begun is not interrupted, as long as core runs.
LEMMA DispatchGoesOn ==
    ASSUME "crash" \notin Inputs, TypeOK, [Next]_vars,
           dispatcher.pc \in {"create", "record", "ack"}
    PROVE  UNCHANGED dispatcher \/ CreateTransportOrder \/ RecordDispatch \/ SendAck
<1>1. ASSUME NEW m \in Request, HandleOrderRequest(m) \/ HandleOrderStorageWaybill(m)
      PROVE  FALSE
  BY <1>1 DEF HandleOrderRequest, HandleOrderStorageWaybill, Receive
<1>2. \A u : /\ ~HandleOrderCancel(u) /\ ~HandleOrderReceipt(u)
             /\ \A d : ~HandleOrderRedirect(u, d)
             /\ \A kind : ~DropUnknown(kind, u)
  BY DEF HandleOrderCancel, HandleOrderReceipt, HandleOrderRedirect, DropUnknown,
     Receive
<1>3. ~CancelOrder /\ ~CompleteOrder /\ ~RedirectOrder /\ ~Crash
  BY DEF CancelOrder, CompleteOrder, RedirectOrder, Crash, TakeInput
<1>4. ASSUME \/ TerminateWrite \/ PollResolve \/ PollSnapshot \/ PollWrite
             \/ PollSettle \/ Start \/ UNCHANGED vars
             \/ \E o \in DOMAIN orders : TerminateOrder(o)
             \/ \E v \in DOMAIN fleetOrders : FleetProgress(v) \/ PollObserve(v)
      PROVE  UNCHANGED dispatcher
  BY <1>4 DEF TerminateWrite, PollResolve, PollSnapshot, PollWrite, PollSettle,
     Start, vars, TerminateOrder, FleetProgress, PollObserve
<1>5. QED
  BY <1>1, <1>2, <1>3, <1>4, CoreAssumption DEF Next

\* A message that is enqueued stands in the queue.
LEMMA MessageStands ==
    ASSUME TypeOK, NEW u \in Uuids, NEW kind \in {"ack", "error"},
           Enqueue(u, <<kind>>)
    PROVE  Answered(u)'
<1>1. <<kind>> \in Seq(MessageKind) /\ outbox[u] \in Seq(MessageKind)
  BY DEF MessageKind, TypeOK
<1>2. outbox'[u] = outbox[u] \o <<kind>>
  BY DEF Enqueue, TypeOK
<1>3. Len(outbox[u]) + 1 \in DOMAIN outbox'[u] /\ outbox'[u][Len(outbox[u]) + 1] = kind
  BY <1>1, <1>2
<1>4. QED
  BY <1>3 DEF Answered

\* An order that has been answered stays so.
LEMMA AnswerKept ==
    ASSUME TypeOK, [Next]_vars, NEW o \in DOMAIN orders, Answered(orders[o].uuid)
    PROVE  Answered(orders[o].uuid)'
<1>1. orders'[o].uuid = orders[o].uuid /\ orders[o].uuid \in Uuids
  BY RowsStay, OrderRow DEF RouteKept, TypeOK, OrdersOK
<1>2. MessagesKept
  BY OutboxStep
<1>3. QED
  BY <1>1, <1>2 DEF MessagesKept, Answered

\* A new order is answered at once or is on its way to the fleet.
LEMMA NewIsAnswered ==
    ASSUME TypeOK, [Next]_vars, NEW o \in DOMAIN orders', o \notin DOMAIN orders
    PROVE  Dispatching(o)' \/ Answered(orders[o].uuid)'
<1>1. o = Len(orders) + 1
  BY NewRowStep
<1>2. PICK m \in Request : RequestMove(m) /\ RowInserted(m)
  BY NewRowStep
<1>3. orders'[o].uuid = m.uuid /\ m.uuid \in Uuids
  BY <1>1, <1>2, AppendProperties
     DEF RowInserted, NewOrder, Request, TypeOK, OrdersOK
<1>4. CASE Refused(m)
  <2>1. Enqueue(m.uuid, <<"error">>)
    BY <1>4 DEF Refused, RejectRequest, FailNew
  <2>2. QED
    BY <1>3, <2>1, MessageStands DEF Answered
<1>5. CASE Sourced(m)
  BY <1>1, <1>5 DEF Sourced, SourceNew, Dispatching
<1>6. QED
  BY <1>2, <1>4, <1>5 DEF RequestMove

\* The steps of a dispatch end in an ack or in an error.
LEMMA DispatchIsAnswered ==
    ASSUME "crash" \notin Inputs, TypeOK, [Next]_vars, NEW o \in DOMAIN orders,
           Dispatching(o)
    PROVE  Dispatching(o)' \/ Answered(orders[o].uuid)'
<1>1. orders'[o].uuid = orders[o].uuid /\ orders[o].uuid \in Uuids
  BY RowsStay, OrderRow DEF RouteKept, TypeOK, OrdersOK
<1>2. dispatcher.order = o
  BY DEF Dispatching
<1>3. CASE UNCHANGED dispatcher
  BY <1>3 DEF Dispatching
<1>4. CASE RecordDispatch
  BY <1>2, <1>4 DEF RecordDispatch, Dispatching, TypeOK, DispatcherOK
<1>5. CASE SendAck
  <2>1. Enqueue(orders[o].uuid, <<"ack">>)
    BY <1>2, <1>5 DEF SendAck
  <2>2. QED
    BY <1>1, <2>1, MessageStands DEF Answered
<1>6. CASE CreateTransportOrder
  <2>1. CASE FailOrder(o)
    <3>1. Enqueue(orders[o].uuid, <<"error">>)
      BY <2>1 DEF FailOrder
    <3>2. QED
      BY <1>1, <3>1, MessageStands DEF Answered
  <2>2. CASE dispatcher' = [dispatcher EXCEPT !.pc = "record",
                                              !.vendor = Len(fleetOrders) + 1]
    BY <1>2, <2>2 DEF Dispatching, TypeOK, DispatcherOK
  <2>3. QED
    BY <1>2, <1>6, <2>1, <2>2 DEF CreateTransportOrder
<1>7. QED
  BY <1>3, <1>4, <1>5, <1>6, DispatchGoesOn DEF Dispatching

\* No handler forgets the edge: once the dispatcher is done with an order, an
\* ack or an error stands in the edge's queue.
THEOREM OrdersAnswered ==
    ASSUME "crash" \notin Inputs
    PROVE  Spec => []EveryOrderAnswered
<1>1. Init => AnswerInv
  BY DEF Init, AnswerInv
<1>2. TypeOK /\ AnswerInv /\ [Next]_vars => AnswerInv'
  BY AnswerKept, NewIsAnswered, DispatchIsAnswered DEF AnswerInv
<1>3. TypeOK /\ AnswerInv => EveryOrderAnswered
  <2> SUFFICES ASSUME TypeOK, AnswerInv, NEW o \in DOMAIN orders, ~InHand(o)
               PROVE  Count(orders[o].uuid, "ack") + Count(orders[o].uuid, "error") > 0
    BY DEF EveryOrderAnswered
  <2> DEFINE u == orders[o].uuid
             Of(kind) == {i \in DOMAIN outbox[u] : outbox[u][i] = kind}
  <2>1. u \in Uuids /\ Answered(u)
    BY OrderRow DEF AnswerInv, Dispatching, InHand, TypeOK, OrdersOK
  <2>2. outbox[u] \in Seq(MessageKind)
    BY <2>1 DEF TypeOK
  <2>3. ASSUME NEW kind PROVE IsFiniteSet(Of(kind))
    <3>1. IsFiniteSet(1 .. Len(outbox[u]))
      BY <2>2, LenProperties, FS_Interval
    <3>2. QED
      BY <2>2, <3>1, FS_Subset, LenProperties
  <2>4. /\ Cardinality(Of("ack")) \in Nat /\ Cardinality(Of("error")) \in Nat
        /\ Of("ack") # {} => Cardinality(Of("ack")) # 0
        /\ Of("error") # {} => Cardinality(Of("error")) # 0
    BY <2>3, FS_CardinalityType, FS_EmptySet
  <2>5. Of("ack") # {} \/ Of("error") # {}
    BY <2>1 DEF Answered
  <2>6. QED
    BY <2>4, <2>5 DEF Count
<1>4. QED
  BY <1>1, <1>2, <1>3, TypeCorrect, PTL DEF Spec

-----------------------------------------------------------------------------
(* A delivery is told once per transport that arrived.                     *)

\* DeliveredIsTrue is not inductive: the transport whose arrival the poller has
\* in hand must not have been told of yet.  The arrivals that may have been told
\* are those that nobody watches, holds or is about to watch...
Reported == {v \in DOMAIN fleetOrders :
               /\ fleetOrders[v].state = "FINISHED"
               /\ v \notin DOMAIN active
               /\ ~(poller.pc # "idle" /\ poller.vendor = v)
               /\ ~(dispatcher.pc = "record" /\ dispatcher.vendor = v)}

ToldOnce == \A u \in Uuids : Cardinality(Told(u)) <= Cardinality(Reported)

\* ...the end that the poller holds is the transport's, which nobody watches
\* any more...
HeldEnd ==
    poller.pc # "idle" /\ IsTerminal(poller.state) =>
        /\ poller.vendor \in DOMAIN fleetOrders \ DOMAIN active
        /\ fleetOrders[poller.vendor].state = poller.state
        /\ ~(dispatcher.pc = "record" /\ dispatcher.vendor = poller.vendor)

\* ...a transport is not watched before its id is in a row...
RecordUnwatched == dispatcher.pc = "record" => dispatcher.vendor \notin DOMAIN active

\* ...and only an end is settled.
SettlesEnd == poller.pc = "settle" => IsTerminal(poller.state)

TellInv == up /\ HeldEnd /\ RecordUnwatched /\ SettlesEnd /\ ToldOnce

\* Without crashes core runs on.
LEMMA StaysUp ==
    ASSUME "crash" \notin Inputs, up, [Next]_vars
    PROVE  up' /\ ~Start /\ ~Crash
<1>1. ~Start /\ ~Crash
  BY DEF Start, Crash, TakeInput
<1>2. UNCHANGED up
  BY <1>1 DEF Next, vars, HandleOrderRequest, HandleOrderStorageWaybill,
     CreateTransportOrder, RecordDispatch, SendAck, HandleOrderCancel, CancelOrder,
     HandleOrderReceipt, CompleteOrder, HandleOrderRedirect, RedirectOrder,
     DropUnknown, TerminateOrder, TerminateWrite, FleetProgress, PollObserve,
     PollResolve, PollSnapshot, PollWrite, PollSettle
<1>3. QED
  BY <1>1, <1>2

\* Only a recorded dispatch makes the poller watch a transport.
LEMMA WatchedStep ==
    ASSUME "crash" \notin Inputs, TypeOK, up, [Next]_vars
    PROVE  \/ DOMAIN active' \subseteq DOMAIN active
           \/ RecordDispatch /\ DOMAIN active' = DOMAIN active \cup {dispatcher.vendor}
<1>1. CASE RecordDispatch
  BY <1>1 DEF RecordDispatch, Track
<1>2. ASSUME NEW v \in DOMAIN fleetOrders, PollObserve(v)
      PROVE  DOMAIN active' \subseteq DOMAIN active
  BY <1>2 DEF PollObserve, WithoutFinished
<1>3. ASSUME ~RecordDispatch, \A v \in DOMAIN fleetOrders : ~PollObserve(v)
      PROVE  UNCHANGED active
  BY <1>3, StaysUp DEF Next, vars, HandleOrderRequest, HandleOrderStorageWaybill,
     CreateTransportOrder, SendAck, HandleOrderCancel, CancelOrder,
     HandleOrderReceipt, CompleteOrder, HandleOrderRedirect, RedirectOrder,
     DropUnknown, TerminateOrder, TerminateWrite, FleetProgress,
     PollResolve, PollSnapshot, PollWrite, PollSettle
<1>4. QED
  BY <1>1, <1>2, <1>3

\* The dispatcher comes to record a transport only by creating it.
LEMMA RecordStep ==
    ASSUME TypeOK, [Next]_vars, dispatcher'.pc = "record"
    PROVE  \/ UNCHANGED dispatcher
           \/ /\ CreateTransportOrder
              /\ dispatcher'.vendor = Len(fleetOrders) + 1
<1>1. ASSUME NEW m \in Request, HandleOrderRequest(m) \/ HandleOrderStorageWaybill(m)
      PROVE  UNCHANGED dispatcher
  <2>1. RequestMove(m)
    BY <1>1, RequestEffect
  <2>2. QED
    BY <2>1 DEF RequestMove, Refused, Sourced, RejectRequest, FailNew, SourceNew
<1>a. dispatcher' # Idle
  BY DEF Idle
<1>b. dispatcher \in [pc: DispatcherPc, order: Nat, src: Names, dst: Names, vendor: Nat]
  BY DEF TypeOK, DispatcherOK
<1>2. CASE CreateTransportOrder
  <2>1. dispatcher' = [dispatcher EXCEPT !.pc = "record", !.vendor = Len(fleetOrders) + 1]
    BY <1>2, <1>a DEF CreateTransportOrder, FailOrder
  <2>2. QED
    BY <1>2, <1>b, <2>1
<1>3. ~RecordDispatch /\ ~SendAck /\ ~CancelOrder /\ ~CompleteOrder /\ ~RedirectOrder /\ ~Crash
  <2>1. ~SendAck /\ ~CancelOrder /\ ~CompleteOrder /\ ~Crash
    BY <1>a DEF SendAck, CancelOrder, CompleteOrder, Crash
  <2>2. RecordDispatch => dispatcher'.pc = "ack"
    BY <1>b DEF RecordDispatch
  <2>3. RedirectOrder => dispatcher'.pc = "create"
    BY <1>a, <1>b DEF RedirectOrder
  <2>4. QED
    BY <2>1, <2>2, <2>3
<1>4. \A u : /\ ~HandleOrderCancel(u) /\ ~HandleOrderReceipt(u)
             /\ \A d : ~HandleOrderRedirect(u, d)
  BY DEF HandleOrderCancel, HandleOrderReceipt, HandleOrderRedirect, Idle
<1>5. ASSUME \/ TerminateWrite \/ PollResolve \/ PollSnapshot \/ PollWrite
             \/ PollSettle \/ Start \/ UNCHANGED vars
             \/ \E o \in DOMAIN orders : TerminateOrder(o)
             \/ \E v \in DOMAIN fleetOrders : FleetProgress(v) \/ PollObserve(v)
             \/ \E u, kind : DropUnknown(kind, u)
      PROVE  UNCHANGED dispatcher
  BY <1>5 DEF TerminateWrite, PollResolve, PollSnapshot, PollWrite, PollSettle,
     Start, vars, TerminateOrder, FleetProgress, PollObserve, DropUnknown
<1>6. QED
  BY <1>1, <1>2, <1>3, <1>4, <1>5, CoreAssumption DEF Next

\* A transport nobody is about to watch stays so, and what has been reported
\* stays reported.
LEMMA ReportedStays ==
    ASSUME "crash" \notin Inputs, TypeOK, up, [Next]_vars
    PROVE  Reported \subseteq Reported'
<1> SUFFICES ASSUME NEW v \in Reported PROVE v \in Reported'
  OBVIOUS
<1>1. /\ v \in DOMAIN fleetOrders /\ fleetOrders[v].state = "FINISHED"
      /\ v \notin DOMAIN active
      /\ ~(poller.pc # "idle" /\ poller.vendor = v)
      /\ ~(dispatcher.pc = "record" /\ dispatcher.vendor = v)
  BY DEF Reported
<1>2. v \in DOMAIN fleetOrders' /\ fleetOrders'[v].state = "FINISHED"
  BY <1>1, FleetStep DEF FleetKept, TransportKept, IsTerminal
<1>3. v \notin DOMAIN active'
  BY <1>1, WatchedStep DEF RecordDispatch
<1>4. ~(poller'.pc # "idle" /\ poller'.vendor = v)
  BY <1>1, PollStep DEF PollMove, PollObserve
<1>5. ~(dispatcher'.pc = "record" /\ dispatcher'.vendor = v)
  BY <1>1, RecordStep, LenProperties DEF TypeOK, FleetOK
<1>6. QED
  BY <1>2, <1>3, <1>4, <1>5 DEF Reported

\* The end the poller holds stays the transport's, and nobody watches it again.
LEMMA HeldEndStep ==
    ASSUME "crash" \notin Inputs, TypeOK, TellInv, [Next]_vars
    PROVE  HeldEnd'
<1> SUFFICES ASSUME poller'.pc # "idle", IsTerminal(poller'.state)
             PROVE  /\ poller'.vendor \in DOMAIN fleetOrders' \ DOMAIN active'
                    /\ fleetOrders'[poller'.vendor].state = poller'.state
                    /\ ~(dispatcher'.pc = "record" /\ dispatcher'.vendor = poller'.vendor)
  BY DEF HeldEnd
<1> DEFINE v == poller'.vendor
<1>1. CASE /\ poller.pc # "idle"
           /\ poller'.vendor = poller.vendor /\ poller'.state = poller.state
  <2>1. /\ v \in DOMAIN fleetOrders \ DOMAIN active
        /\ fleetOrders[v].state = poller'.state
        /\ ~(dispatcher.pc = "record" /\ dispatcher.vendor = v)
    BY <1>1 DEF TellInv, HeldEnd
  <2>2. v \in DOMAIN fleetOrders' /\ fleetOrders'[v].state = poller'.state
    BY <2>1, FleetStep DEF FleetKept, TransportKept
  <2>3. v \notin DOMAIN active'
    BY <2>1, WatchedStep DEF RecordDispatch, TellInv
  <2>4. ~(dispatcher'.pc = "record" /\ dispatcher'.vendor = v)
    BY <2>1, RecordStep, LenProperties DEF TypeOK, FleetOK
  <2>5. QED
    BY <2>2, <2>3, <2>4
<1>2. ASSUME NEW w \in DOMAIN fleetOrders, PollObserve(w), v = w,
             poller'.state = fleetOrders[w].state
      PROVE  /\ v \in DOMAIN fleetOrders' \ DOMAIN active'
             /\ fleetOrders'[v].state = poller'.state
             /\ ~(dispatcher'.pc = "record" /\ dispatcher'.vendor = v)
  <2>1. UNCHANGED <<fleetOrders, dispatcher>> /\ w \in DOMAIN active
    BY <1>2 DEF PollObserve
  <2>2. w \notin DOMAIN active'
    BY <1>2 DEF PollObserve, WithoutFinished
  <2>3. QED
    BY <1>2, <2>1, <2>2 DEF TellInv, RecordUnwatched
<1>3. QED
  BY <1>1, <1>2, PollStep DEF PollMove

\* Only the record of a dispatch adds a transport to the watched ones.
LEMMA RecordUnwatchedStep ==
    ASSUME "crash" \notin Inputs, TypeOK, TellInv, [Next]_vars
    PROVE  RecordUnwatched'
<1> SUFFICES ASSUME dispatcher'.pc = "record" PROVE dispatcher'.vendor \notin DOMAIN active'
  BY DEF RecordUnwatched
<1>1. ~RecordDispatch
  BY DEF RecordDispatch, TypeOK, DispatcherOK
<1>2. DOMAIN active' \subseteq DOMAIN active
  BY <1>1, WatchedStep DEF TellInv
<1>3. CASE UNCHANGED dispatcher
  BY <1>2, <1>3 DEF TellInv, RecordUnwatched
<1>4. CASE dispatcher'.vendor = Len(fleetOrders) + 1
  BY <1>2, <1>4, LenProperties DEF TypeOK, FleetOK
<1>5. QED
  BY <1>3, <1>4, RecordStep

\* The poller comes to settle an order only by writing its end.
LEMMA SettlesEndStep ==
    ASSUME TypeOK, SettlesEnd, [Next]_vars
    PROVE  SettlesEnd'
<1>1. CASE PollWrite
  BY <1>1 DEF PollWrite, Settles, SettlesEnd, PollIdle, TypeOK, PollerOK
<1>2. CASE PollResolve \/ PollSnapshot \/ PollSettle \/ Crash
  <2>1. PollIdle.pc # "settle"
    BY DEF PollIdle
  <2>2. CASE PollResolve \/ PollSnapshot
    BY <2>1, <2>2 DEF PollResolve, PollSnapshot, SettlesEnd, TypeOK, PollerOK
  <2>3. CASE PollSettle \/ Crash
    BY <2>1, <2>3 DEF PollSettle, Crash, SettlesEnd
  <2>4. QED
    BY <1>2, <2>2, <2>3
<1>3. ASSUME NEW v \in DOMAIN fleetOrders, PollObserve(v) PROVE SettlesEnd'
  BY <1>3 DEF PollObserve, PollIdle, SettlesEnd
<1>4. ASSUME ~PollWrite, ~PollResolve, ~PollSnapshot, ~PollSettle, ~Crash,
             \A v \in DOMAIN fleetOrders : ~PollObserve(v)
      PROVE  UNCHANGED poller
  BY <1>4 DEF Next, vars, HandleOrderRequest, HandleOrderStorageWaybill,
     CreateTransportOrder, RecordDispatch, SendAck, HandleOrderCancel, CancelOrder,
     HandleOrderReceipt, CompleteOrder, HandleOrderRedirect, RedirectOrder,
     DropUnknown, TerminateOrder, TerminateWrite, FleetProgress, Start
<1>5. QED
  BY <1>1, <1>2, <1>3, <1>4 DEF SettlesEnd

\* The messages and the arrivals can be counted.
LEMMA CountsAreFinite ==
    TypeOK => \A u \in Uuids : IsFiniteSet(Told(u)) /\ IsFiniteSet(Reported)
<1> SUFFICES ASSUME TypeOK, NEW u \in Uuids
             PROVE  IsFiniteSet(Told(u)) /\ IsFiniteSet(Reported)
  OBVIOUS
<1>1. /\ Len(outbox[u]) \in Nat /\ DOMAIN outbox[u] = 1 .. Len(outbox[u])
      /\ Len(fleetOrders) \in Nat /\ DOMAIN fleetOrders = 1 .. Len(fleetOrders)
  BY LenProperties DEF TypeOK, FleetOK
<1>2. IsFiniteSet(1 .. Len(outbox[u])) /\ IsFiniteSet(1 .. Len(fleetOrders))
  BY <1>1, FS_Interval
<1>3. IsFiniteSet(Told(u))
  <2>1. Told(u) \subseteq 1 .. Len(outbox[u])
    BY <1>1 DEF Told
  <2>2. QED
    BY <1>2, <2>1, FS_Subset
<1>4. IsFiniteSet(Reported)
  <2>1. Reported \subseteq 1 .. Len(fleetOrders)
    BY <1>1 DEF Reported
  <2>2. QED
    BY <1>2, <2>1, FS_Subset
<1>5. QED
  BY <1>3, <1>4

\* One more message goes with one more reported arrival.
LEMMA ToldOnceStep ==
    ASSUME "crash" \notin Inputs, TypeOK, TypeOK', TellInv, [Next]_vars,
           \A u \in Uuids : IsFiniteSet(Told(u)') /\ IsFiniteSet(Reported')
    PROVE  ToldOnce'
<1> SUFFICES ASSUME NEW u \in Uuids
             PROVE  Cardinality(Told(u)') <= Cardinality(Reported')
  BY DEF ToldOnce
<1>1. /\ IsFiniteSet(Told(u)) /\ IsFiniteSet(Reported)
      /\ IsFiniteSet(Told(u)') /\ IsFiniteSet(Reported')
  BY CountsAreFinite
<1>2. /\ Cardinality(Told(u)) \in Nat /\ Cardinality(Reported) \in Nat
      /\ Cardinality(Told(u)') \in Nat /\ Cardinality(Reported') \in Nat
      /\ Cardinality(Told(u)) <= Cardinality(Reported)
  BY <1>1, FS_CardinalityType DEF TellInv, ToldOnce
<1>3. Reported \subseteq Reported'
  BY ReportedStays DEF TellInv
<1>4. Cardinality(Reported) <= Cardinality(Reported')
  BY <1>1, <1>3, FS_Subset
<1>5. CASE Told(u)' = Told(u)
  BY <1>2, <1>4, <1>5
<1>6. CASE PollSettle /\ MapState(poller.state) = "delivered" /\ Told(u)' # Told(u)
  <2> DEFINE v == poller.vendor
             o == poller.order
  <2>1. poller.state = "FINISHED" /\ poller.pc = "settle"
    BY <1>6, MapStateBack DEF PollSettle
  <2>2. /\ v \in DOMAIN fleetOrders \ DOMAIN active
        /\ fleetOrders[v].state = "FINISHED"
        /\ ~(dispatcher.pc = "record" /\ dispatcher.vendor = v)
    BY <2>1 DEF TellInv, HeldEnd, IsTerminal
  <2>3. v \notin Reported /\ v \in Reported'
    <3>1. /\ UNCHANGED <<fleetOrders, active, dispatcher>> /\ poller'.pc = "idle"
      BY <1>6 DEF PollSettle, PollIdle
    <3>2. QED
      BY <2>1, <2>2, <3>1 DEF Reported
  <2>4. orders[o].uuid \in Uuids
    BY <2>1, OrderRow DEF TypeOK, OrdersOK, PollerOK
  <2>5. Enqueue(orders[o].uuid, <<"delivered">>)
    BY <1>6 DEF PollSettle
  <2>6. /\ u = orders[o].uuid
        /\ Told(u)' = Told(u) \cup {Len(outbox[u]) + 1}
    BY <1>6, <2>4, <2>5, OneMoreTold
  <2>7. Cardinality(Told(u)') <= Cardinality(Told(u)) + 1
    <3>1. ASSUME NEW S, IsFiniteSet(S), NEW x
          PROVE  Cardinality(S \cup {x}) <= Cardinality(S) + 1
      <4>1. Cardinality(S) \in Nat
        BY <3>1, FS_CardinalityType
      <4>2. CASE x \in S
        <5>1. S \cup {x} = S
          BY <4>2
        <5>2. QED
          BY <4>1, <5>1
      <4>3. CASE x \notin S
        <5>1. Cardinality(S \cup {x}) = Cardinality(S) + 1
          BY <3>1, <4>3, FS_AddElement
        <5>2. QED
          BY <4>1, <5>1
      <4>4. QED
        BY <4>2, <4>3
    <3>2. QED
      BY <1>1, <2>6, <3>1
  <2>8. Cardinality(Reported) + 1 <= Cardinality(Reported')
    <3>1. /\ IsFiniteSet(Reported \cup {v})
          /\ Cardinality(Reported \cup {v}) = Cardinality(Reported) + 1
      BY <1>1, <2>3, FS_AddElement
    <3>2. Reported \cup {v} \subseteq Reported'
      BY <1>3, <2>3
    <3>3. QED
      BY <1>1, <3>1, <3>2, FS_Subset
  <2>9. QED
    BY <1>2, <2>7, <2>8
<1>7. QED
  BY <1>5, <1>6, OutboxStep DEF Quiet

\* A delivery is told at most once for each transport that arrived, however
\* polling, redirects, repeated requests and terminate clicks interleave.
THEOREM DeliveriesTrue ==
    ASSUME "crash" \notin Inputs
    PROVE  Spec => []DeliveredIsTrue
<1>1. Init => TellInv
  <2> SUFFICES ASSUME Init PROVE TellInv
    OBVIOUS
  <2>1. Reported = {} /\ \A u \in Uuids : Told(u) = {}
    BY DEF Init, Reported, Told
  <2>2. ToldOnce
    BY <2>1, FS_EmptySet DEF ToldOnce
  <2>3. QED
    BY <2>2 DEF Init, TellInv, HeldEnd, RecordUnwatched, SettlesEnd, PollIdle, Idle
<1>2. TypeOK /\ TellInv /\ [Next]_vars => TellInv'
  <2> SUFFICES ASSUME TypeOK, TellInv, [Next]_vars PROVE TellInv'
    OBVIOUS
  <2>1. TypeOK'
    BY TypeStep
  <2>2. up' /\ HeldEnd' /\ RecordUnwatched' /\ SettlesEnd'
    BY StaysUp, HeldEndStep, RecordUnwatchedStep, SettlesEndStep DEF TellInv
  <2>3. TypeOK' => (\A u \in Uuids : IsFiniteSet(Told(u)) /\ IsFiniteSet(Reported))'
    BY CountsAreFinite, PTL
  <2>4. ToldOnce'
    BY <2>1, <2>3, ToldOnceStep
  <2>5. QED
    BY <2>2, <2>4 DEF TellInv
<1>3. TypeOK /\ TellInv => DeliveredIsTrue
  <2> SUFFICES ASSUME TypeOK, TellInv, NEW u \in Uuids
               PROVE  Count(u, "delivered") <=
                        Cardinality({v \in DOMAIN fleetOrders : fleetOrders[v].state = "FINISHED"})
    BY DEF DeliveredIsTrue
  <2> DEFINE Arrivals == {v \in DOMAIN fleetOrders : fleetOrders[v].state = "FINISHED"}
  <2>1. Count(u, "delivered") = Cardinality(Told(u))
    BY DEF Count, Told
  <2>2. IsFiniteSet(Arrivals) /\ IsFiniteSet(Told(u)) /\ IsFiniteSet(Reported)
    <3>1. IsFiniteSet(1 .. Len(fleetOrders)) /\ DOMAIN fleetOrders = 1 .. Len(fleetOrders)
      BY LenProperties, FS_Interval DEF TypeOK, FleetOK
    <3>2. QED
      BY <3>1, FS_Subset, CountsAreFinite
  <2>3. Reported \subseteq Arrivals
    BY DEF Reported
  <2>4. Cardinality(Reported) <= Cardinality(Arrivals)
    BY <2>2, <2>3, FS_Subset
  <2>5. /\ Cardinality(Told(u)) \in Nat /\ Cardinality(Reported) \in Nat
        /\ Cardinality(Arrivals) \in Nat
    BY <2>2, FS_CardinalityType
  <2>6. Cardinality(Told(u)) <= Cardinality(Reported)
    BY DEF TellInv, ToldOnce
  <2>7. QED
    BY <2>1, <2>4, <2>5, <2>6
<1>4. QED
  BY <1>1, <1>2, <1>3, TypeCorrect, PTL DEF Spec
=============================================================================
