--------------------------- MODULE OrderProtocol ----------------------------
(***************************************************************************)
(* The orders of one edge from the operator's click to the robot and back: *)
(* the edge's order manager (EdgeOrders), the transactional outboxes of    *)
(* both sides with their drainers, the two Kafka topics, and core as the   *)
(* edge sees it. Core's inside is CoreDispatch; here an order in core is   *)
(* its status and what its robot does.                                     *)
(*                                                                         *)
(* A message lives in an outbox row until it is published, in a topic      *)
(* until it is read, and the reader commits before it handles. It can be   *)
(* repeated (published but not acknowledged), overtaken (a failed publish  *)
(* is skipped), given up (retries), expired (its lifetime runs from its    *)
(* creation) and lost (a crash or a failed commit after it was consumed, a *)
(* broker that did not keep what core published).                          *)
(*                                                                         *)
(* The edge's reader connects again after every error (client.go:94). The  *)
(* goroutine of core's reader returns with its first error, and a core     *)
(* that finds no broker when it starts or reconnects has neither reader    *)
(* nor writer: `link`, whose inside is KafkaClient. Nothing but a save of  *)
(* the settings or a restart mends it.                                     *)
(***************************************************************************)
EXTENDS EdgeOrders, FiniteSetsExt

CONSTANTS
    MaxOutboxRetries,  \* the edge's limit of delivery attempts
    Batch,             \* LIMIT of ListPendingOutbox
    Faults,            \* the faults that happen in this instance
    MaxFaults,         \* bound on faults
    MaxCoreRows,       \* bound on orders in core
    MaxReplies         \* bound on messages sent by core

ASSUME ProtocolAssumption ==
    /\ MaxOutboxRetries \in Nat \ {0} /\ Batch \in Nat \ {0}
    /\ MaxFaults \in Nat /\ MaxCoreRows \in Nat /\ MaxReplies \in Nat
    /\ Faults \subseteq {"publish", "expire", "crash_edge", "crash_core",
                         "reject", "fleet_ends", "cancel_refused",
                         "reader_ends", "no_broker", "unkept"}

Sides == {"edge", "core"}

VARIABLES
    coreOrders,    \* rows of core's orders table: [order, status, robot]
    coreReader,    \* the row whose ack core's handler still has to send, or 0
    replies,       \* core's outbox: [order, kind]
    posted,        \* by side: the outbox rows with a sent_at
    retries,       \* by side and row
    drain,         \* by side: what is left of the drainer's batch, lowest row first
    topic,         \* by the side that publishes: the rows not yet read
    read,          \* by the side that published: the rows the other side consumed
    link,          \* core's client: "up"; "deaf" if its reader has returned; "down"
    unkept,        \* core's rows that are acknowledged and that no broker kept
    faults         \* faults so far

coreVars == <<coreOrders, coreReader, replies>>
channel == <<posted, retries, drain, topic, read, link, unkept>>
protocolVars == <<edgeVars, coreVars, channel, faults>>

Fault(f) == f \in Faults /\ faults < MaxFaults /\ faults' = faults + 1

Outbox(side) == IF side = "edge" THEN sent ELSE replies

Quits(side, i) == side = "edge" /\ retries[side][i] >= MaxOutboxRetries

\* Core asks for no limit of retries. The edge's purge deletes old rows that are
\* posted or given up: rows that are not in here.
Pending(side) ==
    {i \in DOMAIN Outbox(side) :
        i \notin posted[side] /\ ~Quits(side, i)}

\* IsConnected: the edge's writer is there from the start.
Connected(side) == side = "core" => link # "down"

FirstOf(S) == {i \in S : Cardinality({j \in S : j < i}) < Batch}

(***************************************************************************)
(* The drainers.                                                           *)
(***************************************************************************)
ListPendingOutbox(side) ==
    /\ Connected(side) /\ drain[side] = {} /\ Pending(side) # {}
    /\ drain' = [drain EXCEPT ![side] = FirstOf(Pending(side))]
    /\ UNCHANGED <<edgeVars, coreVars, posted, retries, topic, read, link, unkept, faults>>

\* Deviation: the row after the first.
PublishedNext(side) ==
    /\ Connected(side) /\ drain[side] # {}
    /\ topic' = [topic EXCEPT ![side] = Append(@, Min(drain[side]) + 1)]

Published(side) ==
    /\ Connected(side) /\ drain[side] # {}
    /\ topic' = [topic EXCEPT ![side] = Append(@, Min(drain[side]))]

\* Publish and AckOutbox are one step, but for a crash between them
\* (PublishAndCrash): nobody else looks at sent_at.
PublishAndAck(side) ==
    /\ Published(side)
    /\ posted' = [posted EXCEPT ![side] = @ \cup {Min(drain[side])}]
    /\ drain' = [drain EXCEPT ![side] = @ \ {Min(@)}]
    /\ UNCHANGED <<edgeVars, coreVars, retries, read, link, unkept, faults>>

\* Core's writer asks for no acknowledgement (client.go:78): what it published
\* without an error need not be on the topic.
PublishUnkept ==
    /\ Connected("core") /\ drain["core"] # {} /\ Fault("unkept")
    /\ unkept' = unkept \cup {Min(drain["core"])}
    /\ posted' = [posted EXCEPT !["core"] = @ \cup {Min(drain["core"])}]
    /\ drain' = [drain EXCEPT !["core"] = @ \ {Min(@)}]
    /\ UNCHANGED <<edgeVars, coreVars, retries, topic, read, link>>

\* The rest of a batch, when the connection went after the drainer took it.
PublishUnconnected ==
    /\ ~Connected("core") /\ drain["core"] # {}
    /\ retries' = [retries EXCEPT !["core"][Min(drain["core"])] = @ + 1]
    /\ drain' = [drain EXCEPT !["core"] = @ \ {Min(@)}]
    /\ UNCHANGED <<edgeVars, coreVars, posted, topic, read, link, unkept, faults>>

\* Deviation: what could not be published is acknowledged.
PublishFailsAcked(side) ==
    /\ Fault("publish")
    /\ drain[side] # {}
    /\ posted' = [posted EXCEPT ![side] = @ \cup {Min(drain[side])}]
    /\ drain' = [drain EXCEPT ![side] = @ \ {Min(@)}]
    /\ UNCHANGED <<edgeVars, coreVars, retries, topic, read, link, unkept>>

\* The drainer goes on with the next row. What failed may have arrived. A fault
\* that lasts until the edge gives the row up is one, too.
PublishFails(side) ==
    /\ Fault("publish")
    /\ Published(side) \/ (drain[side] # {} /\ UNCHANGED topic)
    /\ \E attempts \in IF side = "edge" THEN {1, MaxOutboxRetries} ELSE {1} :
           retries' = [retries EXCEPT ![side][Min(drain[side])] = @ + attempts]
    /\ drain' = [drain EXCEPT ![side] = @ \ {Min(@)}]
    /\ UNCHANGED <<edgeVars, coreVars, posted, read, link, unkept>>

(***************************************************************************)
(* The readers: one message at a time, committed before it is handled.     *)
(***************************************************************************)
Consumed(side) ==
    /\ topic[side] # << >>
    /\ topic' = [topic EXCEPT ![side] = Tail(@)]
    /\ read' = [read EXCEPT ![side] = @ \cup {Head(topic[side])}]
    /\ UNCHANGED <<posted, retries, drain, unkept>>

\* A goroutine that reads and has handled what it read.
Readable(side) ==
    IF side = "edge" THEN link = "up" /\ coreReader = 0 ELSE work["reader"] = << >>

\* HandleRaw drops a message that outlived its lifetime, whatever is in it.
DropExpired(side) ==
    /\ Readable(side) /\ Consumed(side) /\ Fault("expire")
    /\ UNCHANGED <<edgeVars, coreVars, link>>

EdgeReads ==
    /\ Readable("core") /\ Consumed("core")
    /\ LET m == replies[Head(topic["core"])]
       IN  /\ MayStart("reader", m.order)
           /\ Goes("reader", HandleDispatchReply(m.order, m.kind))
    /\ UNCHANGED <<orders, slots, sent, coreVars, link, faults>>

Replied(o, kind) == Append(replies, [order |-> o, kind |-> kind])

Newest(o) == LET rows == {r \in DOMAIN coreOrders : coreOrders[r].order = o}
             IN  IF rows = {} THEN 0 ELSE CHOOSE r \in rows : \A q \in rows : q <= r

\* A request or a storage waybill becomes a new row, whoever sent it before.
CoreCreates(o) ==
    /\ Len(coreOrders) < MaxCoreRows
    /\ \/ /\ coreOrders' = Append(coreOrders,
                [order |-> o, status |-> "dispatched", robot |-> "called"])
          /\ coreReader' = Len(coreOrders) + 1
          /\ UNCHANGED <<replies, faults>>
       \/ /\ Fault("reject")
          /\ coreOrders' = Append(coreOrders,
                [order |-> o, status |-> "failed", robot |-> "none"])
          /\ replies' = Replied(o, "error")
          /\ UNCHANGED coreReader

Stopped(robot) == IF robot = "done" THEN "done" ELSE "none"

\* Deviation: only the database hears of a cancellation.
CoreCancelsOnPaper(o, r) ==
    /\ coreOrders' = [coreOrders EXCEPT ![r].status = "cancelled"]
    /\ replies' = Replied(o, "cancelled")
    /\ UNCHANGED <<coreReader, faults>>

CoreCancels(o, r) ==
    /\ \/ coreOrders' = [coreOrders EXCEPT ![r].status = "cancelled",
                                           ![r].robot = Stopped(@)]
          /\ UNCHANGED faults
       \/ /\ Fault("cancel_refused")
          /\ coreOrders' = [coreOrders EXCEPT ![r].status = "cancelled"]
    /\ replies' = Replied(o, "cancelled")
    /\ UNCHANGED coreReader

CoreConfirms(r) ==
    /\ coreOrders' = [coreOrders EXCEPT ![r].status = "confirmed"]
    /\ UNCHANGED <<coreReader, replies, faults>>

\* A redirect is not refused for an order that is over.
CoreRedirects(o, r) ==
    \/ /\ coreOrders' = [coreOrders EXCEPT ![r].status = "dispatched",
                                           ![r].robot = "called"]
       /\ coreReader' = r
       /\ UNCHANGED <<replies, faults>>
    \/ /\ Fault("reject")
       /\ coreOrders' = [coreOrders EXCEPT ![r].robot = Stopped(@)]
       /\ replies' = Replied(o, "error")
       /\ UNCHANGED coreReader

CoreReads ==
    /\ Readable("edge") /\ Consumed("edge")
    /\ LET m == sent[Head(topic["edge"])]
           r == Newest(m.order)
       IN  \/ m.kind \in {"request", "waybill"} /\ CoreCreates(m.order)
           \/ m.kind = "cancel" /\ r # 0 /\ CoreCancels(m.order, r)
           \/ m.kind = "receipt" /\ r # 0 /\ CoreConfirms(r)
           \/ m.kind = "redirect" /\ r # 0 /\ CoreRedirects(m.order, r)
           \/ /\ m.kind \notin {"request", "waybill"} /\ r = 0
              /\ UNCHANGED <<coreVars, faults>>
    /\ UNCHANGED <<edgeVars, link>>

\* ReadMessage fails and the goroutine returns. If it failed in the commit, the
\* message is read again by the next reader, or, the commit having arrived, by none.
ReaderExits ==
    /\ Readable("edge") /\ Fault("reader_ends")
    /\ link' = "deaf"
    /\ Consumed("edge") \/ UNCHANGED <<posted, retries, drain, topic, read, unkept>>
    /\ UNCHANGED <<edgeVars, coreVars>>

\* Somebody saves core's settings. A save while a handler runs would start a
\* second reader beside it: KafkaClient.
Reconfigure ==
    /\ \/ coreReader = 0 /\ link # "up" /\ link' = "up" /\ UNCHANGED faults
       \/ link # "down" /\ link' = "down" /\ Fault("no_broker")
    /\ UNCHANGED <<edgeVars, coreVars, posted, retries, drain, topic, read, unkept>>

SendAck ==
    /\ coreReader # 0
    /\ replies' = Replied(coreOrders[coreReader].order, "ack")
    /\ coreReader' = 0
    /\ UNCHANGED <<edgeVars, coreOrders, channel, faults>>

\* The poller and the engine: they look at the robot, never at the status.
FleetMoves(r) ==
    /\ Len(replies) < MaxReplies
    /\ LET row == coreOrders[r]
       IN  \/ /\ row.robot = "called"
              /\ coreOrders' = [coreOrders EXCEPT
                    ![r].status = "in_transit", ![r].robot = "moving"]
              /\ replies' = Replied(row.order, "waybill")
              /\ UNCHANGED faults
           \/ /\ row.robot = "moving"
              /\ coreOrders' = [coreOrders EXCEPT
                    ![r].status = "delivered", ![r].robot = "done"]
              /\ replies' = Replied(row.order, "delivered")
              /\ UNCHANGED faults
           \/ /\ row.robot \in {"called", "moving"} /\ Fault("fleet_ends")
              /\ coreOrders' = [coreOrders EXCEPT
                    ![r].status = "failed", ![r].robot = "none"]
              /\ replies' = Replied(row.order, "update")
    /\ UNCHANGED <<edgeVars, coreReader, channel>>

(***************************************************************************)
(* A crash loses what a process was doing; the database and Kafka stay.    *)
(***************************************************************************)
Crash(side) ==
    /\ drain' = [drain EXCEPT ![side] = {}]
    /\ IF side = "edge"
       THEN /\ Fault("crash_edge")
            /\ work' = [c \in Callers |-> << >>]
            /\ UNCHANGED <<coreReader, link>>
       ELSE /\ Fault("crash_core")
            /\ coreReader' = 0
            /\ link' = "up" \/ ("no_broker" \in Faults /\ link' = "down")
            /\ UNCHANGED work
    /\ UNCHANGED <<orders, slots, sent, coreOrders, replies, posted, retries, read,
                   unkept>>

PlainCrash(side) == Crash(side) /\ UNCHANGED topic

PublishAndCrash(side) == Published(side) /\ Crash(side)

EdgeWork ==
    /\ \/ \E c \in Callers : Statements(c)
       \/ \E c \in Webs : WebCreate(c) \/ WebOperate(c)
    /\ UNCHANGED <<coreVars, channel, faults>>

Drainer(side) == \/ ListPendingOutbox(side) \/ PublishAndAck(side)
                 \/ side = "core" /\ PublishUnconnected

ProtocolInit ==
    /\ EdgeInit
    /\ coreOrders = << >> /\ coreReader = 0 /\ replies = << >>
    /\ posted = [side \in Sides |-> {}]
    /\ retries = [side \in Sides |-> [i \in 1..(MaxSent + MaxReplies + 1) |-> 0]]
    /\ drain = [side \in Sides |-> {}]
    /\ topic = [side \in Sides |-> << >>]
    /\ read = [side \in Sides |-> {}]
    /\ link = "up" /\ unkept = {}
    /\ faults = 0

ProtocolNext ==
    \/ EdgeWork
    \/ \E side \in Sides :
          \/ Drainer(side) \/ PublishFails(side) \/ DropExpired(side)
          \/ PlainCrash(side) \/ PublishAndCrash(side)
    \/ EdgeReads \/ CoreReads \/ SendAck
    \/ PublishUnkept \/ ReaderExits \/ Reconfigure
    \/ \E r \in DOMAIN coreOrders : FleetMoves(r)

\* The drainers tick and the readers read and handle, core's as long as there is
\* one; nothing is assumed of operators, who may never save the settings, of
\* robots and of faults.
ProtocolFairness ==
    /\ \A side \in Sides : WF_protocolVars(Drainer(side))
    /\ WF_protocolVars(EdgeReads) /\ WF_protocolVars(CoreReads) /\ WF_protocolVars(SendAck)
    /\ WF_protocolVars(Statements("reader") /\ UNCHANGED <<coreVars, channel, faults>>)

ProtocolSpec == ProtocolInit /\ [][ProtocolNext]_protocolVars /\ ProtocolFairness

(***************************************************************************)
(* Properties.                                                             *)
(***************************************************************************)
\* Type: what is posted, read or on a topic is a row of the outbox.
ProtocolTypeOK ==
    /\ \A o \in OrderIds : orders[o].status \in OrderStatus
    /\ \A r \in DOMAIN coreOrders : coreOrders[r] \in
          [order : OrderIds,
           status : {"dispatched", "in_transit", "delivered", "confirmed",
                     "failed", "cancelled"},
           robot : {"called", "moving", "done", "none"}]
    /\ coreReader \in 0..Len(coreOrders)
    /\ \A side \in Sides :
          /\ posted[side] \cup read[side] \subseteq DOMAIN Outbox(side)
          /\ \A i \in DOMAIN topic[side] : topic[side][i] \in DOMAIN Outbox(side)
    /\ link \in {"up", "deaf", "down"} /\ unkept \subseteq DOMAIN replies
    /\ faults \in 0..MaxFaults

SentFor(o, kind) == \E i \in DOMAIN sent : sent[i] = [order |-> o, kind |-> kind]

\* An edge shows an order as delivered, and core has its receipt, only after a
\* robot of core delivered for that very order - whatever is repeated, lost,
\* overtaken or restarted on the way (manager.go:293, wiring.go:124).
DeliveredIsReal ==
    \A o \in OrderIds :
        orders[o].status \in {"delivered", "confirmed"} \/ SentFor(o, "receipt") =>
            \E i \in read["core"] : replies[i] = [order |-> o, kind |-> "delivered"]

\* A confirmed order's receipt is in the outbox, crash or not: ConfirmDelivery
\* enqueues it before the transition, so core can always complete the order.
ConfirmedHasReceipt ==
    \A o \in OrderIds : orders[o].status = "confirmed" => SentFor(o, "receipt")

Quiet == /\ \A c \in Callers : work[c] = << >>
         /\ coreReader = 0
         /\ \A side \in Sides : Pending(side) = {} /\ topic[side] = << >>

\* While nothing fails, an order that the operator aborted and did not redirect
\* has no robot under way once both sides have nothing more to say: the cancel
\* follows the request and finds it, wherever the ack and the waybill stand.
AbortStopsRobot ==
    Quiet /\ faults = 0 =>
        \A o \in OrderIds : SentFor(o, "cancel") /\ ~SentFor(o, "redirect") =>
            \A r \in DOMAIN coreOrders :
                coreOrders[r].order = o => coreOrders[r].robot \in {"done", "none"}

\* The outbox promises delivery at least once: what is enqueued is read by the
\* other side, across crashes and failed publishes. The exceptions are those of
\* the code: ten failed attempts on the edge (store/outbox.go:25), a row of core's
\* that no broker kept, and a core that nobody connected again since its reader
\* returned (client.go:157) or it found no broker. The messages of a behaviour
\* are bounded, so every one is read exactly when from some point on all are.
Undeliverable(side, i) ==
    IF side = "edge" THEN Quits(side, i) \/ link # "up"
                     ELSE i \in unkept \/ link = "down"

SentIsRead ==
    <>[](\A side \in Sides : \A i \in DOMAIN Outbox(side) :
            i \in read[side] \/ Undeliverable(side, i))
=============================================================================
