------------------------ MODULE OrderProtocolProofs ------------------------
(***************************************************************************)
(* Proofs about OrderProtocol: types, and what an edge may believe of its  *)
(* orders - whatever is repeated, lost, overtaken or restarted, and        *)
(* whatever overlaps; then, that an abort stops the robot while nothing    *)
(* fails.                                                                  *)
(***************************************************************************)
EXTENDS OrderProtocol, EdgeOrderProofs, WellFoundedInduction, FiniteSetTheorems

-----------------------------------------------------------------------------
(* Numbers.                                                                *)

\* Every set of numbers that is not empty has a least one.
LEMMA LeastOf ==
    ASSUME NEW S, S \subseteq Nat, S # {}
    PROVE  \E m \in S : \A k \in S : m <= k
<1> DEFINE R == OpToRel(<, Nat)
<1>1. IsWellFoundedOn(R, Nat)
  BY NatLessThanWellFounded
<1>2. \A x \in Nat, y \in Nat : x < y => <<x, y>> \in R
  BY DEF OpToRel
<1> HIDE DEF R
<1>3. PICK m \in S : \A k \in S : ~(<<k, m>> \in R)
  BY <1>1, WFMin
<1>4. \A k \in S : m <= k
  <2> SUFFICES ASSUME NEW k \in S PROVE m <= k
    OBVIOUS
  <2>1. k \in Nat /\ m \in Nat
    OBVIOUS
  <2>2. ~(k < m)
    BY <1>2, <1>3, <2>1, Zenon
  <2>3. QED
    BY <2>1, <2>2
<1>5. QED
  BY <1>4

\* The least number of a set is in it.
LEMMA MinIn ==
    ASSUME NEW S, S \subseteq Nat, S # {}
    PROVE  Min(S) \in S
BY LeastOf DEF Min

\* Every set of row numbers that is not empty has a greatest one.
LEMMA GreatestOf ==
    ASSUME NEW S, NEW n \in Nat, S \subseteq 1..n, S # {}
    PROVE  \E m \in S : \A k \in S : k <= m
<1> DEFINE B == {b \in Nat : \A k \in S : k <= b}
<1>1. n \in B
  OBVIOUS
<1>2. PICK b \in B : \A c \in B : b <= c
  <2>1. B \subseteq Nat /\ B # {}
    BY <1>1
  <2> HIDE DEF B
  <2>2. QED
    BY <2>1, LeastOf
<1>3. CASE b \in S
  BY <1>2, <1>3
<1>4. CASE b \notin S
  <2>1. \A k \in S : k \in Nat /\ k <= b - 1
    BY <1>2, <1>4
  <2>2. b - 1 \in Nat
    <3>1. PICK k \in S : TRUE
      OBVIOUS
    <3>2. QED
      BY <1>2, <2>1, <3>1
  <2>3. b - 1 \in B
    BY <2>1, <2>2
  <2>4. QED
    BY <1>2, <2>3
<1>5. QED
  BY <1>3, <1>4

-----------------------------------------------------------------------------
(* Types.                                                                  *)

CoreStatus == {"dispatched", "in_transit", "delivered", "confirmed",
               "failed", "cancelled"}

Robot == {"called", "moving", "done", "none"}

CoreRow == [order : Nat, status : CoreStatus, robot : Robot]

ReplyKind == {"ack", "waybill", "update", "delivered", "error", "cancelled"}

ReplyRow == [order : Nat, kind : ReplyKind]

CoreTypes ==
    /\ coreOrders \in Seq(CoreRow) /\ replies \in Seq(ReplyRow)
    /\ \A r \in DOMAIN coreOrders : coreOrders[r].order \in OrderIds
    /\ \A i \in DOMAIN replies : replies[i].order \in OrderIds
    /\ coreReader \in 0..Len(coreOrders)
    /\ faults \in 0..MaxFaults

Rows(side) == DOMAIN Outbox(side)

ChannelRows(side) ==
    /\ posted[side] \subseteq Rows(side) /\ drain[side] \subseteq Rows(side)
    /\ read[side] \subseteq Rows(side) /\ topic[side] \in Seq(Rows(side))

ChannelTypes ==
    /\ posted \in [Sides -> SUBSET Nat] /\ drain \in [Sides -> SUBSET Nat]
    /\ read \in [Sides -> SUBSET Nat] /\ topic \in [Sides -> Seq(Nat)]
    /\ \A side \in Sides : ChannelRows(side)

\* Core's client stands as it started until something fails.
LinkTypes ==
    /\ link \in {"up", "deaf", "down"} /\ unkept \subseteq DOMAIN replies
    /\ faults = 0 => link = "up"

ProtocolInv == EdgeInv /\ CoreTypes /\ ChannelTypes /\ LinkTypes

\* Nothing is taken out of the outboxes.
Grows ==
    /\ DOMAIN sent \subseteq DOMAIN sent' /\ DOMAIN replies \subseteq DOMAIN replies'
    /\ OrderIds \subseteq OrderIds'

\* Rows of an outbox are only added.
LEMMA RowsGrow ==
    ASSUME Grows, NEW side \in Sides
    PROVE  Rows(side) \subseteq Rows(side)'
BY DEF Grows, Rows, Outbox, Sides

\* The rows of an outbox are numbers.
LEMMA RowsTyped ==
    ASSUME ProtocolInv, NEW side \in Sides
    PROVE  Rows(side) \subseteq Nat
BY DEF ProtocolInv, EdgeInv, EdgeTypes, CoreTypes, Rows, Outbox, Sides

\* The channel of a side stays typed where it stands and the outboxes grow.
LEMMA ChannelStays ==
    ASSUME ProtocolInv, Grows, NEW side \in Sides,
           posted'[side] = posted[side], drain'[side] = drain[side],
           read'[side] = read[side], topic'[side] = topic[side]
    PROVE  ChannelRows(side)'
<1>1. PICK A, B : A = Rows(side) /\ B = Rows(side)'
  OBVIOUS
<1>2. A \subseteq B
  BY <1>1, RowsGrow
<1>3. ChannelRows(side)
  BY DEF ProtocolInv, ChannelTypes
<1>4. topic[side] \in Seq(A)
  BY <1>1, <1>3 DEF ChannelRows
<1>5. topic[side] \in Seq(B)
  BY <1>2, <1>4, SeqMonotonic
<1>6. QED
  BY <1>1, <1>2, <1>3, <1>5 DEF ChannelRows

\* What a reader takes off a topic is a row of the outbox.
LEMMA ConsumedTyped ==
    ASSUME ProtocolInv, Grows, NEW side \in Sides, Consumed(side)
    PROVE  /\ ChannelTypes'
           /\ Head(topic[side]) \in Rows(side)
           /\ read' = [read EXCEPT ![side] = @ \cup {Head(topic[side])}]
<1>1. /\ topic[side] # << >>
      /\ topic' = [topic EXCEPT ![side] = Tail(@)]
      /\ read' = [read EXCEPT ![side] = @ \cup {Head(topic[side])}]
      /\ UNCHANGED <<posted, retries, drain>>
  BY DEF Consumed
<1>2. /\ posted \in [Sides -> SUBSET Nat] /\ drain \in [Sides -> SUBSET Nat]
      /\ read \in [Sides -> SUBSET Nat] /\ topic \in [Sides -> Seq(Nat)]
  BY DEF ProtocolInv, ChannelTypes
<1>3. PICK A, B : A = Rows(side) /\ B = Rows(side)'
  OBVIOUS
<1>4. A \subseteq B /\ A \subseteq Nat
  BY <1>3, RowsGrow, RowsTyped
<1>5. ChannelRows(side)
  BY DEF ProtocolInv, ChannelTypes
<1>6. PICK t : t = topic[side]
  OBVIOUS
<1>7. t \in Seq(A) /\ t # << >>
  BY <1>1, <1>3, <1>5, <1>6 DEF ChannelRows
<1>8. Head(t) \in A /\ Tail(t) \in Seq(A)
  BY <1>7
<1>9. Tail(t) \in Seq(B) /\ Tail(t) \in Seq(Nat)
  BY <1>4, <1>8, SeqMonotonic
<1>10. /\ topic'[side] = Tail(t) /\ read'[side] = read[side] \cup {Head(t)}
       /\ topic' \in [Sides -> Seq(Nat)] /\ read' \in [Sides -> SUBSET Nat]
  BY <1>1, <1>2, <1>4, <1>6, <1>8, <1>9
<1>11. ChannelRows(side)'
  <2>1. posted[side] \subseteq A /\ drain[side] \subseteq A /\ read[side] \subseteq A
    BY <1>3, <1>5 DEF ChannelRows
  <2>2. /\ posted'[side] \subseteq B /\ drain'[side] \subseteq B
        /\ read'[side] \subseteq B /\ topic'[side] \in Seq(B)
    BY <1>1, <1>4, <1>8, <1>9, <1>10, <2>1
  <2>3. QED
    BY <1>3, <2>2 DEF ChannelRows
<1>12. ASSUME NEW s \in Sides, s # side PROVE ChannelRows(s)'
  <2>1. /\ posted'[s] = posted[s] /\ drain'[s] = drain[s]
        /\ read'[s] = read[s] /\ topic'[s] = topic[s]
    BY <1>1, <1>2, <1>12
  <2>2. QED
    BY <2>1, ChannelStays
<1>13. ChannelTypes'
  BY <1>1, <1>2, <1>10, <1>11, <1>12 DEF ChannelTypes
<1>14. QED
  BY <1>1, <1>3, <1>6, <1>8, <1>13

\* The channels stay typed where every row in them is a row of an outbox that
\* stands.
LEMMA ChannelStep ==
    ASSUME UNCHANGED <<sent, replies>>,
           posted' \in [Sides -> SUBSET Nat], drain' \in [Sides -> SUBSET Nat],
           read' \in [Sides -> SUBSET Nat], topic' \in [Sides -> Seq(Nat)],
           \A s \in Sides : /\ posted'[s] \subseteq Rows(s) /\ drain'[s] \subseteq Rows(s)
                            /\ read'[s] \subseteq Rows(s) /\ topic'[s] \in Seq(Rows(s))
    PROVE  ChannelTypes'
BY DEF ChannelTypes, ChannelRows, Rows, Outbox

\* The channels of all sides, unfolded.
LEMMA ChannelFacts ==
    ASSUME ProtocolInv
    PROVE  /\ posted \in [Sides -> SUBSET Nat] /\ drain \in [Sides -> SUBSET Nat]
           /\ read \in [Sides -> SUBSET Nat] /\ topic \in [Sides -> Seq(Nat)]
           /\ \A s \in Sides :
                 /\ posted[s] \subseteq Rows(s) /\ drain[s] \subseteq Rows(s)
                 /\ read[s] \subseteq Rows(s) /\ topic[s] \in Seq(Rows(s))
                 /\ Rows(s) \subseteq Nat
BY RowsTyped DEF ProtocolInv, ChannelTypes, ChannelRows

\* The row a drainer takes next is a row of its outbox.
LEMMA NextRow ==
    ASSUME ProtocolInv, NEW side \in Sides, drain[side] # {}
    PROVE  Min(drain[side]) \in Rows(side) /\ Min(drain[side]) \in Nat
<1>1. drain[side] \subseteq Rows(side) /\ Rows(side) \subseteq Nat
  BY ChannelFacts
<1>2. QED
  BY <1>1, MinIn

\* What is published is a row of the outbox.
LEMMA PublishedTyped ==
    ASSUME ProtocolInv, NEW side \in Sides, Published(side)
    PROVE  /\ topic' \in [Sides -> Seq(Nat)]
           /\ \A s \in Sides : topic'[s] \in Seq(Rows(s))
<1>1. PICK m : m = Min(drain[side])
  OBVIOUS
<1>2. topic' = [topic EXCEPT ![side] = Append(@, m)] /\ m \in Rows(side) /\ m \in Nat
  BY <1>1, NextRow DEF Published
<1>3. topic \in [Sides -> Seq(Nat)] /\ \A s \in Sides : topic[s] \in Seq(Rows(s))
  BY ChannelFacts
<1>4. Append(topic[side], m) \in Seq(Nat) /\ Append(topic[side], m) \in Seq(Rows(side))
  BY <1>2, <1>3, AppendProperties
<1>5. QED
  BY <1>2, <1>3, <1>4

\* A drainer's batch is taken from the outbox, and one row at a time.
LEMMA TakenTyped ==
    ASSUME ProtocolInv, NEW side \in Sides, drain' = [drain EXCEPT ![side] = @ \ {Min(@)}]
    PROVE  /\ drain' \in [Sides -> SUBSET Nat]
           /\ \A s \in Sides : drain'[s] \subseteq Rows(s)
<1>1. PICK m : drain' = [drain EXCEPT ![side] = @ \ {m}]
  <2>1. drain' = [drain EXCEPT ![side] = @ \ {Min(drain[side])}]
    OBVIOUS
  <2>2. QED
    BY <2>1
<1>2. QED
  BY <1>1, ChannelFacts

\* A drainer's step keeps the types of the channels.
LEMMA DrainerTyped ==
    ASSUME ProtocolInv, NEW side \in Sides, Drainer(side) \/ PublishFails(side)
    PROVE  ChannelTypes'
<1>1. UNCHANGED <<orders, sent, replies, read>>
  BY DEF Drainer, ListPendingOutbox, PublishAndAck, PublishUnconnected, PublishFails,
         edgeVars, coreVars
<1>2. CASE ListPendingOutbox(side)
  <2>1. UNCHANGED <<posted, topic>>
    BY <1>2 DEF ListPendingOutbox
  <2>2. PICK B : drain' = [drain EXCEPT ![side] = B] /\ B \subseteq Rows(side)
    BY <1>2 DEF ListPendingOutbox, FirstOf, Pending, Rows
  <2>3. /\ drain' \in [Sides -> SUBSET Nat]
        /\ \A s \in Sides : drain'[s] \subseteq Rows(s)
    BY <2>2, ChannelFacts
  <2>4. QED
    BY <1>1, <2>1, <2>3, ChannelFacts, ChannelStep
<1>3. CASE PublishAndAck(side)
  <2>1. /\ topic' \in [Sides -> Seq(Nat)]
        /\ \A s \in Sides : topic'[s] \in Seq(Rows(s))
    BY <1>3, PublishedTyped DEF PublishAndAck
  <2>2. /\ drain' \in [Sides -> SUBSET Nat]
        /\ \A s \in Sides : drain'[s] \subseteq Rows(s)
    BY <1>3, TakenTyped DEF PublishAndAck
  <2>3. PICK m \in Rows(side) : posted' = [posted EXCEPT ![side] = @ \cup {m}]
    BY <1>3, NextRow DEF PublishAndAck, Published
  <2>4. /\ posted' \in [Sides -> SUBSET Nat]
        /\ \A s \in Sides : posted'[s] \subseteq Rows(s)
    BY <2>3, ChannelFacts
  <2>5. QED
    BY <1>1, <2>1, <2>2, <2>4, ChannelFacts, ChannelStep
<1>4. CASE PublishFails(side)
  <2>1. /\ topic' \in [Sides -> Seq(Nat)]
        /\ \A s \in Sides : topic'[s] \in Seq(Rows(s))
    <3>1. Published(side) \/ UNCHANGED topic
      BY <1>4 DEF PublishFails
    <3>2. QED
      BY <3>1, PublishedTyped, ChannelFacts
  <2>2. /\ drain' \in [Sides -> SUBSET Nat]
        /\ \A s \in Sides : drain'[s] \subseteq Rows(s)
    BY <1>4, TakenTyped DEF PublishFails
  <2>3. UNCHANGED posted
    BY <1>4 DEF PublishFails
  <2>4. QED
    BY <1>1, <2>1, <2>2, <2>3, ChannelFacts, ChannelStep
<1>5. CASE side = "core" /\ PublishUnconnected
  <2>1. UNCHANGED <<posted, topic>> /\ drain' = [drain EXCEPT ![side] = @ \ {Min(@)}]
    BY <1>5 DEF PublishUnconnected
  <2>2. /\ drain' \in [Sides -> SUBSET Nat]
        /\ \A s \in Sides : drain'[s] \subseteq Rows(s)
    BY <2>1, TakenTyped
  <2>3. QED
    BY <1>1, <2>1, <2>2, ChannelFacts, ChannelStep
<1>6. QED
  BY <1>2, <1>3, <1>4, <1>5 DEF Drainer

\* A crash keeps the types of the channels.
LEMMA CrashTyped ==
    ASSUME ProtocolInv, NEW side \in Sides, PlainCrash(side) \/ PublishAndCrash(side)
    PROVE  ChannelTypes'
<1>1. /\ UNCHANGED <<sent, replies, posted, read>>
      /\ drain' = [drain EXCEPT ![side] = {}]
  BY DEF PlainCrash, PublishAndCrash, Crash
<1>2. /\ drain' \in [Sides -> SUBSET Nat]
      /\ \A s \in Sides : drain'[s] \subseteq Rows(s)
  BY <1>1, ChannelFacts
<1>3. /\ topic' \in [Sides -> Seq(Nat)]
      /\ \A s \in Sides : topic'[s] \in Seq(Rows(s))
  BY PublishedTyped, ChannelFacts DEF PlainCrash, PublishAndCrash
<1>4. QED
  BY <1>1, <1>2, <1>3, ChannelFacts, ChannelStep

\* Where nothing touches the channels, they stay typed as the outboxes grow.
LEMMA ChannelIdle ==
    ASSUME ProtocolInv, Grows, UNCHANGED channel
    PROVE  ChannelTypes'
<1>1. UNCHANGED <<posted, drain, read, topic>>
  BY DEF channel
<1>2. \A s \in Sides : ChannelRows(s)'
  BY <1>1, ChannelStays
<1>3. QED
  BY <1>1, <1>2, ChannelFacts DEF ChannelTypes

\* What becomes of core's client, but for a crash.
LinkMoves == PublishUnkept \/ ReaderExits \/ Reconfigure

\* It keeps the types of the channels.
LEMMA LinkMovesTyped ==
    ASSUME ProtocolInv, LinkMoves
    PROVE  /\ ChannelTypes' /\ UNCHANGED <<edgeVars, coreVars>>
           /\ UNCHANGED read \/ Consumed("edge")
           /\ UNCHANGED faults \/ \E f : Fault(f)
<1>1. UNCHANGED <<edgeVars, coreVars>> /\ UNCHANGED <<orders, sent, replies>>
  BY DEF LinkMoves, PublishUnkept, ReaderExits, Reconfigure, edgeVars, coreVars
<1>2. UNCHANGED faults \/ \E f : Fault(f)
  BY DEF LinkMoves, PublishUnkept, ReaderExits, Reconfigure
<1>3. CASE PublishUnkept
  <2>1. UNCHANGED <<read, topic>> /\ drain["core"] # {}
        /\ drain' = [drain EXCEPT !["core"] = @ \ {Min(@)}]
    BY <1>3 DEF PublishUnkept
  <2>2. /\ drain' \in [Sides -> SUBSET Nat]
        /\ \A s \in Sides : drain'[s] \subseteq Rows(s)
    BY <2>1, TakenTyped DEF Sides
  <2>3. PICK m \in Rows("core") : posted' = [posted EXCEPT !["core"] = @ \cup {m}]
    BY <1>3, <2>1, NextRow DEF PublishUnkept, Sides
  <2>4. /\ posted' \in [Sides -> SUBSET Nat]
        /\ \A s \in Sides : posted'[s] \subseteq Rows(s)
    BY <2>3, ChannelFacts DEF Sides
  <2>5. ChannelTypes'
    BY <1>1, <2>1, <2>2, <2>4, ChannelFacts, ChannelStep
  <2>6. QED
    BY <1>1, <1>2, <2>1, <2>5
<1>4. CASE Consumed("edge")
  <2>1. Grows
    BY <1>1 DEF Grows, OrderIds
  <2>2. QED
    BY <1>1, <1>2, <1>4, <2>1, ConsumedTyped DEF Sides
<1>5. CASE UNCHANGED <<posted, drain, topic, read>>
  <2>1. ChannelTypes'
    BY <1>1, <1>5, ChannelFacts, ChannelStep
  <2>2. QED
    BY <1>1, <1>2, <1>5, <2>1
<1>6. QED
  BY <1>3, <1>4, <1>5 DEF LinkMoves, ReaderExits, Reconfigure

\* What a fault does to the number of faults.
LEMMA FaultCounts ==
    ASSUME ProtocolInv, NEW f, Fault(f)
    PROVE  faults' # 0
BY ProtocolAssumption DEF Fault, ProtocolInv, CoreTypes

\* A step that leaves core's client alone.
LEMMA LinkStays ==
    ASSUME ProtocolInv, UNCHANGED <<link, unkept>>, DOMAIN replies \subseteq DOMAIN replies',
           UNCHANGED faults \/ \E f : Fault(f)
    PROVE  LinkTypes'
<1>1. faults' = 0 => faults = 0
  BY FaultCounts
<1>2. QED
  BY <1>1 DEF ProtocolInv, LinkTypes

\* A step of core's client, or a crash.
LEMMA LinkStep ==
    ASSUME ProtocolInv, UNCHANGED replies,
           LinkMoves \/ \E side \in Sides : Crash(side)
    PROVE  LinkTypes'
<1>1. CASE PublishUnkept
  <2>1. faults' # 0
    BY <1>1, FaultCounts DEF PublishUnkept
  <2>2. Min(drain["core"]) \in DOMAIN replies
    BY <1>1, NextRow DEF PublishUnkept, Rows, Outbox, Sides
  <2>3. QED
    BY <1>1, <2>1, <2>2 DEF PublishUnkept, ProtocolInv, LinkTypes
<1>2. CASE ReaderExits
  <2>1. faults' # 0 /\ link' = "deaf" /\ unkept' = unkept
    BY <1>2, FaultCounts DEF ReaderExits, Consumed
  <2>2. QED
    BY <2>1 DEF ProtocolInv, LinkTypes
<1>3. CASE Reconfigure
  <2>1. link' = "up" \/ (link' = "down" /\ faults' # 0)
    BY <1>3, FaultCounts DEF Reconfigure
  <2>2. QED
    BY <1>3, <2>1 DEF Reconfigure, ProtocolInv, LinkTypes
<1>4. ASSUME NEW side \in Sides, Crash(side) PROVE LinkTypes'
  <2>1. faults' # 0
    BY <1>4, FaultCounts DEF Crash
  <2>2. link' \in {"up", "deaf", "down"} /\ unkept' = unkept
    BY <1>4 DEF Crash, ProtocolInv, LinkTypes
  <2>3. QED
    BY <2>1, <2>2 DEF ProtocolInv, LinkTypes
<1>5. QED
  BY <1>1, <1>2, <1>3, <1>4 DEF LinkMoves

-----------------------------------------------------------------------------
(* Core.                                                                   *)

\* Core's tables stay typed where a row or a message is about a known order.
LEMMA ReplyTyped ==
    ASSUME ProtocolInv, UNCHANGED orders, NEW o \in OrderIds, NEW kind \in ReplyKind,
           replies' = Replied(o, kind)
    PROVE  /\ replies' \in Seq(ReplyRow)
           /\ \A i \in DOMAIN replies' : replies'[i].order \in OrderIds
           /\ DOMAIN replies \subseteq DOMAIN replies'
           /\ \A i \in DOMAIN replies : replies'[i] = replies[i]
<1>1. replies \in Seq(ReplyRow) /\ \A i \in DOMAIN replies : replies[i].order \in OrderIds
  BY DEF ProtocolInv, CoreTypes
<1>2. PICK m : m = [order |-> o, kind |-> kind]
  OBVIOUS
<1>3. OrderIds \subseteq Nat
  BY DEF ProtocolInv, EdgeInv, EdgeTypes, OrderIds
<1>4. m \in ReplyRow /\ m.order = o
  BY <1>2, <1>3 DEF ReplyRow
<1>5. replies' = Append(replies, m)
  BY <1>2 DEF Replied
<1>6. QED
  BY <1>1, <1>4, <1>5

\* A new order of core keeps the types of its table.
LEMMA NewRowTyped ==
    ASSUME ProtocolInv, NEW o \in OrderIds, NEW st \in CoreStatus, NEW robot \in Robot,
           coreOrders' = Append(coreOrders, [order |-> o, status |-> st, robot |-> robot])
    PROVE  /\ coreOrders' \in Seq(CoreRow) /\ Len(coreOrders') = Len(coreOrders) + 1
           /\ \A r \in DOMAIN coreOrders' : coreOrders'[r].order \in OrderIds
<1>1. coreOrders \in Seq(CoreRow) /\ \A r \in DOMAIN coreOrders : coreOrders[r].order \in OrderIds
  BY DEF ProtocolInv, CoreTypes
<1>2. PICK m : m = [order |-> o, status |-> st, robot |-> robot]
  OBVIOUS
<1>3. OrderIds \subseteq Nat
  BY DEF ProtocolInv, EdgeInv, EdgeTypes, OrderIds
<1>4. m \in CoreRow /\ m.order = o
  BY <1>2, <1>3 DEF CoreRow
<1>5. QED
  BY <1>1, <1>2, <1>4

\* A row of core's that changes keeps its order.
LEMMA RowTyped ==
    ASSUME ProtocolInv, NEW r \in DOMAIN coreOrders, NEW m \in CoreRow,
           m.order = coreOrders[r].order, coreOrders' = [coreOrders EXCEPT ![r] = m]
    PROVE  /\ coreOrders' \in Seq(CoreRow) /\ Len(coreOrders') = Len(coreOrders)
           /\ \A q \in DOMAIN coreOrders' : coreOrders'[q].order \in OrderIds
BY DEF ProtocolInv, CoreTypes

\* What a row of core's can become.
LEMMA Rewritten ==
    ASSUME NEW row \in CoreRow, NEW st \in CoreStatus, NEW robot \in Robot
    PROVE  /\ [row EXCEPT !.status = st] \in CoreRow
           /\ [row EXCEPT !.status = st].order = row.order
           /\ [row EXCEPT !.robot = robot] \in CoreRow
           /\ [row EXCEPT !.robot = robot].order = row.order
           /\ [row EXCEPT !.status = st, !.robot = robot] \in CoreRow
           /\ [row EXCEPT !.status = st, !.robot = robot].order = row.order
BY DEF CoreRow

\* The newest row that core has of an order is one of its rows.
LEMMA NewestIn ==
    ASSUME ProtocolInv, NEW o, Newest(o) # 0
    PROVE  Newest(o) \in DOMAIN coreOrders /\ coreOrders[Newest(o)].order = o
<1>1. PICK rows : rows = {r \in DOMAIN coreOrders : coreOrders[r].order = o}
  OBVIOUS
<1>2. Newest(o) = CHOOSE r \in rows : \A q \in rows : q <= r
  BY <1>1 DEF Newest
<1>3. rows # {}
  BY <1>1 DEF Newest
<1>4. coreOrders \in Seq(CoreRow)
  BY DEF ProtocolInv, CoreTypes
<1>5. Len(coreOrders) \in Nat /\ rows \subseteq 1..Len(coreOrders)
  BY <1>1, <1>4
<1>6. \E r \in rows : \A q \in rows : q <= r
  BY <1>3, <1>5, GreatestOf
<1>7. Newest(o) \in rows
  BY <1>2, <1>6
<1>8. QED
  BY <1>1, <1>7

\* What core does with its tables.
CoreStep ==
    /\ coreOrders' \in Seq(CoreRow)
    /\ \A r \in DOMAIN coreOrders' : coreOrders'[r].order \in OrderIds
    /\ replies' \in Seq(ReplyRow)
    /\ \A i \in DOMAIN replies' : replies'[i].order \in OrderIds
    /\ DOMAIN replies \subseteq DOMAIN replies'
    /\ \A i \in DOMAIN replies : replies'[i] = replies[i]
    /\ coreReader' \in 0..Len(coreOrders')
    /\ faults' \in 0..MaxFaults
    /\ UNCHANGED faults \/ \E f : Fault(f)

\* What a step of core finds typed, and a fault stays within its bound.
LEMMA CoreStays ==
    ASSUME ProtocolInv
    PROVE  /\ coreOrders \in Seq(CoreRow) /\ replies \in Seq(ReplyRow)
           /\ \A r \in DOMAIN coreOrders : coreOrders[r].order \in OrderIds
           /\ \A i \in DOMAIN replies : replies[i].order \in OrderIds
           /\ coreReader \in 0..Len(coreOrders) /\ Len(coreOrders) \in Nat
           /\ faults \in 0..MaxFaults
           /\ \A f : Fault(f) => faults' \in 0..MaxFaults
<1>1. /\ coreOrders \in Seq(CoreRow) /\ replies \in Seq(ReplyRow)
      /\ \A r \in DOMAIN coreOrders : coreOrders[r].order \in OrderIds
      /\ \A i \in DOMAIN replies : replies[i].order \in OrderIds
      /\ coreReader \in 0..Len(coreOrders)
      /\ faults \in 0..MaxFaults
  BY DEF ProtocolInv, CoreTypes
<1>2. \A f : Fault(f) => faults' \in 0..MaxFaults
  BY <1>1, ProtocolAssumption DEF Fault
<1>3. QED
  BY <1>1, <1>2

\* Core's row for a new order is a step of core.
LEMMA CreatesStep ==
    ASSUME ProtocolInv, UNCHANGED orders, NEW o \in OrderIds, CoreCreates(o)
    PROVE  CoreStep
<1>1. CASE /\ coreOrders' = Append(coreOrders,
                 [order |-> o, status |-> "dispatched", robot |-> "called"])
           /\ coreReader' = Len(coreOrders) + 1
           /\ UNCHANGED <<replies, faults>>
  <2>1. /\ coreOrders' \in Seq(CoreRow) /\ Len(coreOrders') = Len(coreOrders) + 1
        /\ \A r \in DOMAIN coreOrders' : coreOrders'[r].order \in OrderIds
    BY <1>1, NewRowTyped DEF CoreStatus, Robot
  <2>2. QED
    BY <1>1, <2>1, CoreStays DEF CoreStep
<1>2. CASE /\ Fault("reject")
           /\ coreOrders' = Append(coreOrders,
                 [order |-> o, status |-> "failed", robot |-> "none"])
           /\ replies' = Replied(o, "error")
           /\ UNCHANGED coreReader
  <2>1. /\ coreOrders' \in Seq(CoreRow) /\ Len(coreOrders') = Len(coreOrders) + 1
        /\ \A r \in DOMAIN coreOrders' : coreOrders'[r].order \in OrderIds
    BY <1>2, NewRowTyped DEF CoreStatus, Robot
  <2>2. /\ replies' \in Seq(ReplyRow)
        /\ \A i \in DOMAIN replies' : replies'[i].order \in OrderIds
        /\ DOMAIN replies \subseteq DOMAIN replies'
        /\ \A i \in DOMAIN replies : replies'[i] = replies[i]
    BY <1>2, ReplyTyped DEF ReplyKind
  <2>3. QED
    BY <1>2, <2>1, <2>2, CoreStays DEF CoreStep
<1>3. QED
  BY <1>1, <1>2 DEF CoreCreates

\* A row that core rewrites, a message it may send, and the row it may still
\* have to acknowledge.
LEMMA RewriteStep ==
    ASSUME ProtocolInv, UNCHANGED orders, NEW r \in DOMAIN coreOrders, NEW m \in CoreRow,
           m.order = coreOrders[r].order, coreOrders' = [coreOrders EXCEPT ![r] = m],
           UNCHANGED replies \/ \E o \in OrderIds, kind \in ReplyKind :
                                   replies' = Replied(o, kind),
           coreReader' \in {coreReader, r},
           UNCHANGED faults \/ \E f : Fault(f)
    PROVE  CoreStep
<1>1. /\ coreOrders' \in Seq(CoreRow) /\ Len(coreOrders') = Len(coreOrders)
      /\ \A q \in DOMAIN coreOrders' : coreOrders'[q].order \in OrderIds
  BY RowTyped
<1>2. /\ replies' \in Seq(ReplyRow)
      /\ \A i \in DOMAIN replies' : replies'[i].order \in OrderIds
      /\ DOMAIN replies \subseteq DOMAIN replies'
      /\ \A i \in DOMAIN replies : replies'[i] = replies[i]
  BY ReplyTyped, CoreStays
<1>3. coreReader' \in 0..Len(coreOrders)
  BY CoreStays
<1>4. QED
  BY <1>1, <1>2, <1>3, CoreStays DEF CoreStep

\* Core's cancel, receipt and redirect handlers are steps of core.
LEMMA CancelsStep ==
    ASSUME ProtocolInv, UNCHANGED orders, NEW o \in OrderIds, NEW r \in DOMAIN coreOrders,
           CoreCancels(o, r) \/ CoreConfirms(r) \/ CoreRedirects(o, r)
    PROVE  CoreStep
<1>1. coreOrders[r] \in CoreRow
  BY CoreStays
<1>2. PICK row \in CoreRow, robot \in Robot : row = coreOrders[r] /\ robot = Stopped(row.robot)
  <2>1. Stopped(coreOrders[r].robot) \in Robot
    BY DEF Stopped, Robot
  <2>2. QED
    BY <1>1, <2>1
<1>3. PICK m \in CoreRow : m.order = row.order /\ coreOrders' = [coreOrders EXCEPT ![r] = m]
  <2>1. CASE coreOrders' = [coreOrders EXCEPT ![r].status = "cancelled", ![r].robot = Stopped(@)]
    <3>1. PICK m : m = [row EXCEPT !.status = "cancelled", !.robot = robot]
      OBVIOUS
    <3>2. coreOrders' = [coreOrders EXCEPT ![r] = m]
      BY <1>2, <2>1, <3>1
    <3>3. "cancelled" \in CoreStatus
      BY DEF CoreStatus
    <3>4. m \in CoreRow /\ m.order = row.order
      BY <3>1, <3>3, Rewritten
    <3>5. QED
      BY <3>2, <3>4
  <2>2. CASE coreOrders' = [coreOrders EXCEPT ![r].status = "cancelled"]
    BY <1>2, <2>2, Rewritten DEF CoreStatus
  <2>3. CASE coreOrders' = [coreOrders EXCEPT ![r].status = "confirmed"]
    BY <1>2, <2>3, Rewritten DEF CoreStatus
  <2>4. CASE coreOrders' = [coreOrders EXCEPT ![r].status = "dispatched", ![r].robot = "called"]
    BY <1>2, <2>4, Rewritten DEF CoreStatus, Robot
  <2>5. CASE coreOrders' = [coreOrders EXCEPT ![r].robot = Stopped(@)]
    <3>1. PICK m : m = [row EXCEPT !.robot = robot]
      OBVIOUS
    <3>2. coreOrders' = [coreOrders EXCEPT ![r] = m]
      BY <1>2, <2>5, <3>1
    <3>3. "cancelled" \in CoreStatus
      BY DEF CoreStatus
    <3>4. m \in CoreRow /\ m.order = row.order
      BY <3>1, <3>3, Rewritten
    <3>5. QED
      BY <3>2, <3>4
  <2>6. QED
    BY <2>1, <2>2, <2>3, <2>4, <2>5 DEF CoreCancels, CoreConfirms, CoreRedirects
<1>4. /\ UNCHANGED replies \/ replies' = Replied(o, "cancelled") \/ replies' = Replied(o, "error")
      /\ coreReader' \in {coreReader, r}
      /\ UNCHANGED faults \/ \E f : Fault(f)
  BY DEF CoreCancels, CoreConfirms, CoreRedirects
<1>5. QED
  BY <1>2, <1>3, <1>4, RewriteStep DEF ReplyKind

\* Core's handler of a message is a step of core that takes one message.
LEMMA CoreReadsStep ==
    ASSUME ProtocolInv, CoreReads
    PROVE  CoreStep /\ Consumed("edge") /\ UNCHANGED edgeVars /\ UNCHANGED link
<1>1. Consumed("edge") /\ UNCHANGED edgeVars /\ UNCHANGED link
  BY DEF CoreReads
<1>2. topic["edge"] # << >> /\ topic["edge"] \in Seq(DOMAIN sent)
  BY <1>1, ChannelFacts DEF Consumed, Rows, Outbox, Sides
<1>3. Head(topic["edge"]) \in DOMAIN sent
  BY <1>2
<1>4. PICK o, kind : o = sent[Head(topic["edge"])].order
                      /\ kind = sent[Head(topic["edge"])].kind
  OBVIOUS
<1>5. o \in OrderIds
  BY <1>3, <1>4 DEF ProtocolInv, EdgeInv, EdgeTypes
<1>6. PICK r : r = Newest(o)
  OBVIOUS
<1>7. r # 0 => r \in DOMAIN coreOrders
  BY <1>6, NewestIn
<1>8. \/ CoreCreates(o)
      \/ r # 0 /\ (CoreCancels(o, r) \/ CoreConfirms(r) \/ CoreRedirects(o, r))
      \/ UNCHANGED <<coreVars, faults>>
  BY <1>4, <1>6 DEF CoreReads
<1>9. UNCHANGED orders
  BY <1>1 DEF edgeVars
<1>10. CASE CoreCreates(o)
  BY <1>1, <1>5, <1>9, <1>10, CreatesStep
<1>11. CASE r # 0 /\ (CoreCancels(o, r) \/ CoreConfirms(r) \/ CoreRedirects(o, r))
  BY <1>1, <1>5, <1>7, <1>9, <1>11, CancelsStep
<1>12. CASE UNCHANGED <<coreVars, faults>>
  <2>1. UNCHANGED <<coreOrders, coreReader, replies, faults>>
    BY <1>12 DEF coreVars
  <2>2. QED
    BY <1>1, <2>1, CoreStays DEF CoreStep
<1>13. QED
  BY <1>8, <1>10, <1>11, <1>12

\* The acknowledgement is a step of core.
LEMMA SendAckStep ==
    ASSUME ProtocolInv, SendAck
    PROVE  CoreStep
<1>1. /\ coreReader \in DOMAIN coreOrders /\ coreReader' = 0
      /\ replies' = Replied(coreOrders[coreReader].order, "ack")
      /\ UNCHANGED <<coreOrders, orders, faults>>
  BY CoreStays DEF SendAck, edgeVars
<1>2. PICK o \in OrderIds : o = coreOrders[coreReader].order
  BY <1>1, CoreStays
<1>3. /\ replies' \in Seq(ReplyRow)
      /\ \A i \in DOMAIN replies' : replies'[i].order \in OrderIds
      /\ DOMAIN replies \subseteq DOMAIN replies'
      /\ \A i \in DOMAIN replies : replies'[i] = replies[i]
  BY <1>1, <1>2, ReplyTyped DEF ReplyKind
<1>4. QED
  BY <1>1, <1>3, CoreStays DEF CoreStep

\* What the fleet makes of a row is a step of core.
LEMMA FleetStep ==
    ASSUME ProtocolInv, NEW r \in DOMAIN coreOrders, FleetMoves(r)
    PROVE  CoreStep
<1>1. UNCHANGED <<orders, coreReader>>
  BY DEF FleetMoves, edgeVars
<1>2. PICK row \in CoreRow : row = coreOrders[r]
  BY CoreStays
<1>3. PICK st \in CoreStatus, robot \in Robot, kind \in ReplyKind :
           /\ coreOrders' = [coreOrders EXCEPT ![r].status = st, ![r].robot = robot]
           /\ replies' = Replied(row.order, kind)
           /\ UNCHANGED faults \/ Fault("fleet_ends")
  BY <1>2 DEF FleetMoves, CoreStatus, Robot, ReplyKind
<1>4. PICK m : m = [row EXCEPT !.status = st, !.robot = robot]
  OBVIOUS
<1>5. m \in CoreRow /\ m.order = row.order
  BY <1>4, Rewritten
<1>6. coreOrders' = [coreOrders EXCEPT ![r] = m]
  BY <1>2, <1>3, <1>4
<1>7. row.order \in OrderIds
  BY <1>2, CoreStays
<1>8. QED
  BY <1>1, <1>2, <1>3, <1>5, <1>6, <1>7, RewriteStep

-----------------------------------------------------------------------------
(* The types are an invariant.                                             *)

\* The statements and the requests of an edge only add rows.
LEMMA EdgeGrows ==
    ASSUME EdgeInv, EdgeInv', NEW c \in Callers, EdgeAction(c)
    PROVE  /\ DOMAIN sent \subseteq DOMAIN sent' /\ OrderIds \subseteq OrderIds'
<1>1. \A o \in OrderIds : o \in OrderIds'
  BY RowsKept
<1>2. DOMAIN sent \subseteq DOMAIN sent'
  <2>1. UNCHANGED sent \/ \E m : sent' = Append(sent, m)
    BY DEF EdgeAction, Statements, Decide, WriteStatus, UpdateOrderFinalCount,
         EnqueueOutbox, ResetPayload, WebCreate, WebOperate, HandleReply, CreateOrder
  <2>2. sent \in Seq([order : Nat, kind : MessageKind])
    BY DEF EdgeInv, EdgeTypes
  <2>3. QED
    BY <2>1, <2>2
<1>3. QED
  BY <1>1, <1>2

\* What the edge does to its orders in a step of the protocol.
EdgeActs(c) == EdgeAction(c) /\ UNCHANGED <<coreVars, faults>>

\* An edge that reads an answer acts on it and takes it from its topic.
LEMMA EdgeReadsIs ==
    ASSUME ProtocolInv, EdgeReads
    PROVE  /\ EdgeActs("reader") /\ "reader" \in Callers /\ Consumed("core")
           /\ UNCHANGED <<orders, slots, sent, link>>
           /\ \E i \in DOMAIN replies :
                 /\ i = Head(topic["core"])
                 /\ replies[i].order \in OrderIds /\ replies[i].kind \in ReplyKind
                 /\ HandleReply(replies[i].order, replies[i].kind)
<1>1. /\ Consumed("core") /\ UNCHANGED <<orders, slots, sent, coreVars, link, faults>>
      /\ "reader" \in Callers
  BY EdgeAssumption DEF EdgeReads
<1>2. topic["core"] # << >> /\ topic["core"] \in Seq(DOMAIN replies)
  BY <1>1, ChannelFacts DEF Consumed, Rows, Outbox, Sides
<1>3. PICK i \in DOMAIN replies : i = Head(topic["core"])
  BY <1>2
<1>4. replies[i] \in ReplyRow /\ replies[i].order \in OrderIds
  BY CoreStays
<1>5. HandleReply(replies[i].order, replies[i].kind)
  BY <1>1, <1>3 DEF EdgeReads, HandleReply
<1>6. PICK o \in OrderIds, kind \in ReplyKind : HandleReply(o, kind)
  BY <1>4, <1>5 DEF ReplyRow
<1>7. EdgeAction("reader")
  BY <1>6 DEF EdgeAction, ReplyKind
<1>8. replies[i].kind \in ReplyKind
  BY <1>4 DEF ReplyRow
<1>9. QED
  BY <1>1, <1>3, <1>4, <1>5, <1>7, <1>8 DEF EdgeActs

\* What the edge does of itself leaves the channels alone.
LEMMA EdgeWorkIs ==
    ASSUME EdgeWork
    PROVE  \E c \in Callers : EdgeActs(c) /\ UNCHANGED channel
BY EdgeAssumption DEF EdgeWork, EdgeActs, EdgeAction

\* The edge's steps keep the types.
LEMMA EdgeActsTyped ==
    ASSUME ProtocolInv, NEW c \in Callers, EdgeActs(c),
           UNCHANGED channel \/ (Consumed("core") /\ UNCHANGED link)
    PROVE  ProtocolInv'
<1>1. EdgeInv'
  BY EdgeInvStep DEF ProtocolInv, EdgeActs
<1>2. UNCHANGED <<coreOrders, coreReader, replies, faults>>
  BY DEF EdgeActs, coreVars
<1>3. Grows
  BY <1>1, <1>2, EdgeGrows DEF Grows, ProtocolInv, EdgeActs
<1>4. CoreTypes'
  BY <1>2, <1>3 DEF ProtocolInv, CoreTypes, Grows
<1>5. ChannelTypes'
  BY <1>3, ChannelIdle, ConsumedTyped DEF Sides
<1>6. LinkTypes'
  BY <1>2, LinkStays DEF channel, Consumed
<1>7. QED
  BY <1>1, <1>4, <1>5, <1>6 DEF ProtocolInv

\* The steps of core and the fleet keep the types.
LEMMA CoreStepTyped ==
    ASSUME ProtocolInv, CoreStep, UNCHANGED edgeVars,
           UNCHANGED channel \/ (Consumed("edge") /\ UNCHANGED link)
    PROVE  ProtocolInv'
<1>1. UNCHANGED <<orders, slots, sent, work>>
  BY DEF edgeVars
<1>2. EdgeInv'
  BY <1>1 DEF ProtocolInv, EdgeInv, EdgeTypes, WorkInv, GoodWork, OrderIds
<1>3. OrderIds' = OrderIds
  BY <1>1 DEF OrderIds
<1>4. CoreTypes'
  BY <1>3 DEF CoreStep, CoreTypes
<1>5. Grows
  BY <1>1, <1>3 DEF CoreStep, Grows
<1>6. ChannelTypes'
  BY <1>5, ChannelIdle, ConsumedTyped DEF Sides
<1>7. LinkTypes'
  BY LinkStays DEF CoreStep, channel, Consumed
<1>8. QED
  BY <1>2, <1>4, <1>6, <1>7 DEF ProtocolInv

\* A step in which neither an order nor a message of either side changes.
LEMMA QuietTyped ==
    ASSUME ProtocolInv, ChannelTypes', LinkTypes', UNCHANGED <<orders, slots, sent, replies, coreOrders>>,
           UNCHANGED work \/ work' = [c \in Callers |-> << >>],
           coreReader' \in {coreReader, 0}, UNCHANGED faults \/ \E f : Fault(f)
    PROVE  ProtocolInv'
<1>1. OrderIds' = OrderIds
  BY DEF OrderIds
<1>2. EdgeInv'
  <2>1. CASE UNCHANGED work
    BY <1>1, <2>1 DEF ProtocolInv, EdgeInv, EdgeTypes, WorkInv, GoodWork
  <2>2. CASE work' = [c \in Callers |-> << >>]
    <3>1. WorkInv'
      BY <2>2, NothingLeft DEF WorkInv, GoodWork
    <3>2. QED
      BY <1>1, <2>2, <3>1 DEF ProtocolInv, EdgeInv, EdgeTypes
  <2>3. QED
    BY <2>1, <2>2
<1>3. CoreTypes'
  BY <1>1, CoreStays DEF CoreTypes
<1>4. QED
  BY <1>2, <1>3 DEF ProtocolInv

\* What the steps of the channels leave alone.
LEMMA QuietIs ==
    ASSUME NEW side \in Sides,
           \/ Drainer(side) \/ PublishFails(side) \/ DropExpired(side)
           \/ PlainCrash(side) \/ PublishAndCrash(side)
    PROVE  /\ UNCHANGED <<orders, slots, sent, replies, coreOrders>>
           /\ UNCHANGED work \/ work' = [c \in Callers |-> << >>]
           /\ coreReader' \in {coreReader, 0}
           /\ UNCHANGED faults \/ \E f : Fault(f)
           /\ \A s \in DOMAIN read : read'[s] = read[s] \/ DropExpired(side)
<1>1. CASE Drainer(side) \/ PublishFails(side)
  BY <1>1 DEF Drainer, ListPendingOutbox, PublishAndAck, PublishUnconnected, PublishFails,
              edgeVars, coreVars
<1>2. CASE DropExpired(side)
  BY <1>2 DEF DropExpired, edgeVars, coreVars
<1>3. CASE PlainCrash(side) \/ PublishAndCrash(side)
  BY <1>3 DEF PlainCrash, PublishAndCrash, Crash
<1>4. QED
  BY <1>1, <1>2, <1>3

\* Every step of the protocol keeps the types.
LEMMA ProtocolStep ==
    ASSUME ProtocolInv, [ProtocolNext]_protocolVars
    PROVE  ProtocolInv'
<1>1. CASE EdgeWork
  BY <1>1, EdgeWorkIs, EdgeActsTyped
<1>2. CASE EdgeReads
  BY <1>2, EdgeReadsIs, EdgeActsTyped
<1>3. CASE CoreReads
  BY <1>3, CoreReadsStep, CoreStepTyped
<1>4. CASE SendAck
  BY <1>4, SendAckStep, CoreStepTyped DEF SendAck
<1>5. ASSUME NEW r \in DOMAIN coreOrders, FleetMoves(r) PROVE ProtocolInv'
  BY <1>5, FleetStep, CoreStepTyped DEF FleetMoves
<1>6. ASSUME NEW side \in Sides,
             \/ Drainer(side) \/ PublishFails(side) \/ DropExpired(side)
             \/ PlainCrash(side) \/ PublishAndCrash(side)
      PROVE  ProtocolInv'
  <2>1. ChannelTypes'
    <3>1. CASE Drainer(side) \/ PublishFails(side)
      BY <3>1, DrainerTyped
    <3>2. CASE DropExpired(side)
      <4>1. Consumed(side) /\ UNCHANGED <<orders, sent, replies>>
        BY <3>2 DEF DropExpired, edgeVars, coreVars
      <4>2. Grows
        BY <4>1 DEF Grows, OrderIds
      <4>3. QED
        BY <4>1, <4>2, ConsumedTyped
    <3>3. CASE PlainCrash(side) \/ PublishAndCrash(side)
      BY <3>3, CrashTyped
    <3>4. QED
      BY <1>6, <3>1, <3>2, <3>3
  <2>2. /\ UNCHANGED <<orders, slots, sent, replies, coreOrders>>
        /\ UNCHANGED work \/ work' = [c \in Callers |-> << >>]
        /\ coreReader' \in {coreReader, 0}
        /\ UNCHANGED faults \/ \E f : Fault(f)
    BY <1>6, QuietIs
  <2>3. LinkTypes'
    <3>1. CASE Drainer(side) \/ PublishFails(side) \/ DropExpired(side)
      <4>1. UNCHANGED <<link, unkept>>
        BY <3>1 DEF Drainer, ListPendingOutbox, PublishAndAck, PublishUnconnected,
                    PublishFails, DropExpired, Consumed
      <4>2. QED
        BY <2>2, <4>1, LinkStays
    <3>2. CASE Crash(side)
      BY <2>2, <3>2, LinkStep
    <3>3. QED
      BY <1>6, <3>1, <3>2 DEF PlainCrash, PublishAndCrash
  <2>4. QED
    BY <2>1, <2>2, <2>3, QuietTyped
<1>7. CASE LinkMoves
  <2>1. /\ ChannelTypes' /\ UNCHANGED <<edgeVars, coreVars>>
        /\ UNCHANGED faults \/ \E f : Fault(f)
    BY <1>7, LinkMovesTyped
  <2>2. UNCHANGED <<orders, slots, sent, work, coreOrders, coreReader, replies>>
    BY <2>1 DEF edgeVars, coreVars
  <2>3. LinkTypes'
    BY <1>7, <2>2, LinkStep
  <2>4. QED
    BY <2>1, <2>2, <2>3, QuietTyped
<1>8. CASE UNCHANGED protocolVars
  <2>1. UNCHANGED <<orders, slots, sent, work, coreOrders, coreReader, replies, faults>>
        /\ UNCHANGED channel
    BY <1>8 DEF protocolVars, edgeVars, coreVars
  <2>2. Grows
    BY <2>1 DEF Grows, OrderIds
  <2>3. ChannelTypes' /\ LinkTypes'
    BY <2>1, <2>2, ChannelIdle, LinkStays DEF channel
  <2>4. QED
    BY <2>1, <2>3, QuietTyped
<1>9. QED
  BY <1>1, <1>2, <1>3, <1>4, <1>5, <1>6, <1>7, <1>8 DEF ProtocolNext, LinkMoves

\* The types hold at the start.
LEMMA ProtocolInvInit ==
    ASSUME ProtocolInit
    PROVE  ProtocolInv
<1>1. EdgeInv
  BY EdgeInvInit DEF ProtocolInit
<1>2. CoreTypes
  BY ProtocolAssumption DEF ProtocolInit, CoreTypes
<1>3. ChannelTypes
  <2>1. /\ posted = [side \in Sides |-> {}] /\ drain = [side \in Sides |-> {}]
        /\ read = [side \in Sides |-> {}] /\ topic = [side \in Sides |-> << >>]
    BY DEF ProtocolInit
  <2>2. QED
    BY <2>1 DEF ChannelTypes, ChannelRows
<1>4. LinkTypes
  BY DEF ProtocolInit, LinkTypes
<1>5. QED
  BY <1>1, <1>2, <1>3, <1>4 DEF ProtocolInv

\* What is posted, read or under way on a topic is a row of the outbox it came
\* from, and core's rows and messages are about orders of the edge: whatever
\* overlaps and whatever fails.
THEOREM ProtocolTyped == ProtocolSpec => []ProtocolTypeOK
<1>1. ProtocolInv => ProtocolTypeOK
  <2> SUFFICES ASSUME ProtocolInv PROVE ProtocolTypeOK
    OBVIOUS
  <2>1. \A o \in OrderIds : orders[o].status \in OrderStatus
    <3>1. \A o \in OrderIds : orders[o] \in OrderRow
      BY DEF ProtocolInv, EdgeInv, EdgeTypes, OrderIds
    <3>2. QED
      BY <3>1 DEF OrderRow
  <2>2. \A r \in DOMAIN coreOrders : coreOrders[r] \in
          [order : OrderIds,
           status : {"dispatched", "in_transit", "delivered", "confirmed",
                     "failed", "cancelled"},
           robot : {"called", "moving", "done", "none"}]
    <3> TAKE r \in DOMAIN coreOrders
    <3>1. PICK row \in CoreRow : row = coreOrders[r] /\ row.order \in OrderIds
      BY CoreStays
    <3>2. QED
      BY <3>1 DEF CoreRow, CoreStatus, Robot
  <2>3. ASSUME NEW side \in Sides
        PROVE  /\ posted[side] \cup read[side] \subseteq DOMAIN Outbox(side)
               /\ \A i \in DOMAIN topic[side] : topic[side][i] \in DOMAIN Outbox(side)
    BY ChannelFacts DEF Rows
  <2>4. QED
    BY <2>1, <2>2, <2>3, CoreStays DEF ProtocolTypeOK, ProtocolInv, LinkTypes
<1>2. ProtocolInit => ProtocolInv
  BY ProtocolInvInit
<1>3. ProtocolInv /\ [ProtocolNext]_protocolVars => ProtocolInv'
  BY ProtocolStep
<1>4. QED
  BY <1>1, <1>2, <1>3, PTL DEF ProtocolSpec

-----------------------------------------------------------------------------
(* Delivered and confirmed are real.                                       *)

\* The edge has read that order o was delivered.
Told(o) == \E i \in read["core"] : replies[i] = [order |-> o, kind |-> "delivered"]

\* What the statement at the head of an operation knows: of a delivery, that it
\* was read; of a confirmation, that its receipt is in the outbox.
HeadReal(w, o) ==
    /\ w[1].do \in {"check", "write"} /\ w[1].arg \in {"delivered", "confirmed"} => Told(o)
    /\ w[1].do \in {"check", "write"} /\ w[1].arg = "confirmed" => Said(o, "receipt")
    /\ w[1].do = "enqueue" /\ w[1].arg = "receipt" => Told(o)
    /\ w[1].do = "count" /\ Len(w) > 1 /\ w[2].do = "enqueue" => Told(o)

WorkReal == \A c \in Callers : work[c] # << >> => HeadReal(work[c], Owner(work[c]))

RowReal(o) ==
    /\ orders[o].status \in {"delivered", "confirmed"} \/ Said(o, "receipt") => Told(o)
    /\ orders[o].status = "confirmed" => Said(o, "receipt")

RealInv == ProtocolInv /\ WorkReal /\ \A o \in OrderIds : RowReal(o)

\* What was read stays read.
Remembers ==
    /\ read["core"] \subseteq read'["core"]
    /\ \A i \in DOMAIN replies : replies'[i] = replies[i]

\* What the edge has read of an order it does not forget.
LEMMA ToldKept ==
    ASSUME ProtocolInv, Remembers
    PROVE  \A o : Told(o) => Told(o)'
<1> SUFFICES ASSUME NEW o, Told(o) PROVE Told(o)'
  OBVIOUS
<1>1. PICK i \in read["core"] : replies[i] = [order |-> o, kind |-> "delivered"]
  BY DEF Told
<1>2. i \in DOMAIN replies
  BY ChannelFacts DEF Rows, Outbox, Sides
<1>3. i \in read'["core"] /\ replies'[i] = [order |-> o, kind |-> "delivered"]
  BY <1>1, <1>2 DEF Remembers
<1>4. QED
  BY <1>3 DEF Told

\* Reading adds to what is read; nothing else touches it.
LEMMA ReadGrows ==
    ASSUME ProtocolInv, NEW side \in Sides, UNCHANGED read \/ Consumed(side)
    PROVE  read["core"] \subseteq read'["core"]
BY ChannelFacts DEF Consumed, Sides

\* A head stays real while what was read and said stays.
LEMMA HeadKept ==
    ASSUME NEW w, NEW o, HeadReal(w, o), Told(o) => Told(o)',
           Said(o, "receipt") => Said(o, "receipt")'
    PROVE  HeadReal(w, o)'
BY DEF HeadReal

\* The next statement of goroutine c is real after the step.
NextReal(c) ==
    work'[c] # << >> => \E w, o : w = work'[c] /\ o = Owner(w) /\ HeadReal(w, o)'

\* What c has to do at o: the facts every statement needs.
RealWork(c, o, v) ==
    /\ v = work[c] /\ v # << >> /\ o = Owner(v) /\ o \in OrderIds /\ o \in Nat
    /\ Program(v, o) /\ v[1] \in Step /\ Head(v) = v[1] /\ v[1].order = o
    /\ HeadReal(v, o) /\ RowReal(o)

\* A goroutine that has something left is at an order of the edge.
LEMMA AtHead ==
    ASSUME RealInv, NEW c \in Callers, work[c] # << >>
    PROVE  \E o, v : RealWork(c, o, v)
<1>1. PICK o, v : v = work[c] /\ o = Owner(v)
  OBVIOUS
<1>2. EdgeInv
  BY DEF RealInv, ProtocolInv
<1>3. /\ Program(v, o) /\ o \in OrderIds /\ o \in Nat
      /\ Head(v) = v[1] /\ v[1] \in Step /\ v[1].order = o
  <2>1. v # << >>
    BY <1>1
  <2>2. QED
    BY <1>1, <1>2, <2>1, HeadOf DEF Owner
<1>4. HeadReal(v, o)
  BY <1>1 DEF RealInv, WorkReal
<1>5. RowReal(o)
  BY <1>3 DEF RealInv
<1>6. QED
  BY <1>1, <1>3, <1>4, <1>5 DEF RealWork

\* What goroutine c has left after a step that runs its first statement.
LEMMA TailReal ==
    ASSUME NEW c \in Callers, NEW o, NEW v, RealWork(c, o, v),
           work'[c] = Tail(v), Tail(v) # << >>,
           Told(o) => Told(o)', Said(o, "receipt") => Said(o, "receipt")',
           v[1].do = "if_delivered" => orders[o].status = "delivered",
           v[1].do = "enqueue" /\ v[1].arg = "receipt" => Said(o, "receipt")'
    PROVE  NextReal(c)
<1>1. PICK w : w = Tail(v)
  OBVIOUS
<1>2. /\ w[1] = v[2] /\ After(v[1], w[1])
      /\ w[1].order = o /\ Len(v) > 1
      /\ Program(w, o)
  <2>1. /\ w[1] = v[2] /\ After(v[1], v[2]) /\ Program(w, o) /\ Len(v) > 1
    BY <1>1, TailChain DEF RealWork
  <2>2. w \in Seq(Step) /\ w # << >>
    BY <1>1, <2>1 DEF Program, Chain
  <2>3. 1 \in 1..Len(w)
    BY <2>2, EmptySeq
  <2>4. QED
    BY <2>1, <2>3 DEF Program, Chain
<1>3. HeadReal(w, o)'
  <2>1. v[1].do \in {"count", "if_delivered"} => w[1].do # "write"
    BY <1>2 DEF After
  <2>2. v[1].do = "check" => w[1].do = "write" /\ w[1].arg = v[1].arg
    BY <1>2 DEF After
  <2>3. w[1].do = "check" /\ w[1].arg \in {"delivered", "confirmed"}
            => v[1].do = "enqueue" /\ v[1].arg = "receipt" /\ w[1].arg = "confirmed"
    BY <1>2 DEF After
  <2>4. w[1].do = "write" => v[1].do = "check"
    BY <1>2 DEF After
  <2>5. w[1].do = "enqueue" /\ w[1].arg = "receipt" => v[1].do = "count"
    BY <1>2 DEF After
  <2>6. w[1].do = "count" => v[1].do = "if_delivered"
    BY <1>2 DEF After
  <2>7. HeadReal(v, o) /\ RowReal(o)
    BY DEF RealWork
  <2>8. w[1].do \in {"check", "write"} /\ w[1].arg \in {"delivered", "confirmed"} => Told(o)'
    BY <2>2, <2>3, <2>4, <2>7 DEF HeadReal
  <2>9. w[1].do \in {"check", "write"} /\ w[1].arg = "confirmed" => Said(o, "receipt")'
    BY <2>2, <2>3, <2>4, <2>7 DEF HeadReal
  <2>10. w[1].do = "enqueue" /\ w[1].arg = "receipt" => Told(o)'
    BY <1>2, <2>5, <2>7 DEF HeadReal
  <2>11. w[1].do = "count" => Told(o)'
    BY <2>6, <2>7 DEF RowReal
  <2>12. QED
    BY <2>8, <2>9, <2>10, <2>11 DEF HeadReal
<1>4. QED
  BY <1>1, <1>2, <1>3 DEF NextReal, Owner

\* A statement leaves the next one real.
LEMMA StatementsReal ==
    ASSUME RealInv, NEW c \in Callers, Statements(c), Remembers
    PROVE  NextReal(c)
<1>1. work[c] # << >>
  BY DEF Statements, Decide, WriteStatus, UpdateOrderFinalCount, EnqueueOutbox,
         ResetPayload, At
<1>2. PICK o, v : RealWork(c, o, v)
  BY <1>1, AtHead
<1>3. EdgeInv /\ work \in [Callers -> Seq(Step)]
  BY DEF RealInv, ProtocolInv, EdgeInv, EdgeTypes
<1>4. Told(o) => Told(o)'
  BY ToldKept DEF RealInv
<1>5. \A p, kind : Said(p, kind)' <=>
          \/ Said(p, kind)
          \/ /\ EnqueueOutbox(c) /\ work[c] # << >>
             /\ p = Owner(work[c]) /\ kind = work[c][1].arg
  BY <1>3, SaidKept DEF EdgeAction
<1>6. Said(o, "receipt") => Said(o, "receipt")'
  BY <1>5
<1>7. /\ v = work[c] /\ v # << >> /\ o = Owner(v) /\ o \in Nat
      /\ Program(v, o) /\ Head(v) = v[1] /\ v[1].order = o /\ v[1] \in Step
  BY <1>2 DEF RealWork
<1>8. \A w : Goes(c, w) => work'[c] = w
  BY <1>3 DEF Goes
<1>9. CASE Decide(c)
  <2>1. \/ Goes(c, << >>)
        \/ Goes(c, Tail(v)) /\ (v[1].do = "if_delivered" => orders[o].status = "delivered")
    BY <1>7, <1>9 DEF Decide, At
  <2>2. v[1].do # "enqueue"
    BY <1>7, <1>9 DEF Decide, At
  <2>3. CASE work'[c] = << >>
    BY <2>3 DEF NextReal
  <2>4. CASE work'[c] = Tail(v) /\ Tail(v) # << >>
    BY <1>2, <1>4, <1>6, <1>8, <2>1, <2>2, <2>4, TailReal
  <2>5. QED
    BY <1>8, <2>1, <2>3, <2>4
<1>10. CASE WriteStatus(c)
  <2>1. PICK s : s = v[1].arg
    OBVIOUS
  <2>2. v[1].do = "write"
    BY <1>7, <1>10 DEF WriteStatus, At
  <2>3. PICK r : r = AfterWrite(o, s, v)
    OBVIOUS
  <2>4. work'[c] = r
    <3>1. Goes(c, r)
      BY <1>7, <1>10, <2>1, <2>3 DEF WriteStatus, AfterWrite
    <3>2. QED
      BY <1>8, <3>1
  <2>5. /\ Program(r, o)
        /\ \/ r = Tail(v)
           \/ r = ConfirmSteps(o)
           \/ r[1] = Statement("refill", o, "none")
    BY <1>7, <2>1, <2>2, <2>3, WriteGoes
  <2>6. CASE r = Tail(v) /\ r # << >>
    BY <1>2, <1>4, <1>6, <2>2, <2>4, <2>6, TailReal
  <2>7. CASE r # << >> /\ (r = ConfirmSteps(o) \/ r[1] = Statement("refill", o, "none"))
    <3>1. r[1].do \in {"if_delivered", "refill"}
      BY <1>7, <2>7, ConfirmProgram, Fields
    <3>2. PICK p : p = Owner(r)
      OBVIOUS
    <3>3. HeadReal(r, p)'
      BY <3>1 DEF HeadReal
    <3>4. QED
      BY <2>4, <3>2, <3>3 DEF NextReal
  <2>8. QED
    BY <2>4, <2>5, <2>6, <2>7 DEF NextReal
<1>11. CASE UpdateOrderFinalCount(c) \/ ResetPayload(c) \/ EnqueueOutbox(c)
  <2>1. work'[c] = Tail(v)
    BY <1>7, <1>8, <1>11 DEF UpdateOrderFinalCount, ResetPayload, EnqueueOutbox
  <2>2. v[1].do # "if_delivered"
    BY <1>7, <1>11 DEF UpdateOrderFinalCount, ResetPayload, EnqueueOutbox, At
  <2>3. v[1].do = "enqueue" /\ v[1].arg = "receipt" => Said(o, "receipt")'
    <3>1. v[1].do = "enqueue" => EnqueueOutbox(c)
      BY <1>7, <1>11 DEF UpdateOrderFinalCount, ResetPayload, At
    <3>2. QED
      BY <1>5, <1>7, <3>1
  <2>4. QED
    BY <1>2, <1>4, <1>6, <2>1, <2>2, <2>3, TailReal DEF NextReal
<1>12. QED
  BY <1>9, <1>10, <1>11 DEF Statements

\* No request of an operator begins with what only core can say.
LEMMA CommandHead ==
    ASSUME NEW o \in Nat,
           NEW command \in {"submit", "abort", "redirect", "confirm", "count"},
           NEW w, w = OrderSteps(command, o)
    PROVE  \/ w[1].do \in {"unless_over", "if_delivered"}
           \/ w[1].do = "count" /\ Len(w) = 1
           \/ w[1].do = "check" /\ w[1].arg = "submitted"
<1>1. CASE command = "submit"
  <2>1. w = SubmitSteps(o)
    BY <1>1 DEF OrderSteps
  <2>2. QED
    BY <2>1, SubmitProgram, Fields
<1>2. CASE command = "abort"
  <2>1. w = AbortSteps(o)
    BY <1>2 DEF OrderSteps
  <2>2. QED
    BY <2>1, AbortProgram, Fields
<1>3. CASE command = "redirect"
  <2>1. w = RedirectSteps(o)
    BY <1>3 DEF OrderSteps
  <2>2. QED
    BY <2>1, RedirectProgram, Fields
<1>4. CASE command = "confirm"
  <2>1. w = ConfirmSteps(o)
    BY <1>4 DEF OrderSteps
  <2>2. QED
    BY <2>1, ConfirmProgram, Fields
<1>5. CASE command = "count"
  <2>1. w = <<Statement("count", o, "none")>>
    BY <1>5 DEF OrderSteps
  <2>2. QED
    BY <2>1, CountProgram, Fields
<1>6. QED
  BY <1>1, <1>2, <1>3, <1>4, <1>5

\* What an operator starts begins with a statement that is real of itself.
LEMMA WebReal ==
    ASSUME RealInv, NEW c \in Callers, WebCreate(c) \/ WebOperate(c)
    PROVE  NextReal(c)
<1>1. \A w : Goes(c, w) => work'[c] = w
  BY DEF Goes, RealInv, ProtocolInv, EdgeInv, EdgeTypes
<1>2. orders \in Seq(OrderRow)
  BY DEF RealInv, ProtocolInv, EdgeInv, EdgeTypes
<1>3. PICK w : Goes(c, w) /\ \/ w[1].do \in {"unless_over", "if_delivered"}
                             \/ w[1].do = "count" /\ (Len(w) = 1 \/ w[2].do = "check")
                             \/ w[1].do = "check" /\ w[1].arg = "submitted"
                             \/ w[1].do = "enqueue" /\ w[1].arg = "request"
  <2>1. CASE WebCreate(c)
    <3>1. PICK type, w, o : o = Len(orders) + 1 /\ w = CreateSteps(type, o) /\ Goes(c, w)
      BY <2>1 DEF WebCreate, CreateOrder, CreateSteps
    <3>2. o \in Nat
      BY <1>2, <3>1
    <3>3. \/ w[1] = Statement("enqueue", o, "request")
          \/ /\ w[1] = Statement("count", o, "none")
             /\ w[2] = Statement("check", o, "submitted")
      BY <3>1, <3>2, CreateBegins
    <3>4. QED
      BY <3>1, <3>3, Fields
  <2>2. CASE WebOperate(c)
    <3>1. PICK command \in {"submit", "abort", "redirect", "confirm", "count"},
               o \in OrderIds : Goes(c, OrderSteps(command, o))
      BY <2>2 DEF WebOperate
    <3>2. o \in Nat
      BY <1>2 DEF OrderIds
    <3>3. PICK w : w = OrderSteps(command, o) /\ Goes(c, w)
      BY <3>1
    <3>4. QED
      BY <3>2, <3>3, CommandHead
  <2>3. QED
    BY <2>1, <2>2
<1>4. PICK o : o = Owner(w)
  OBVIOUS
<1>5. HeadReal(w, o)'
  BY <1>3 DEF HeadReal
<1>6. QED
  BY <1>1, <1>3, <1>4, <1>5 DEF NextReal

\* A reply that says delivered has been read by the time it is handled.
LEMMA ReplyReal ==
    ASSUME RealInv, EdgeReads
    PROVE  NextReal("reader")
<1>1. /\ EdgeActs("reader") /\ "reader" \in Callers /\ Consumed("core")
  BY EdgeReadsIs DEF RealInv
<1>2. PICK i \in DOMAIN replies :
                 /\ i = Head(topic["core"])
                 /\ replies[i].order \in OrderIds /\ replies[i].kind \in ReplyKind
                 /\ HandleReply(replies[i].order, replies[i].kind)
  BY EdgeReadsIs DEF RealInv
<1>3. PICK o \in OrderIds, kind \in ReplyKind : o = replies[i].order /\ kind = replies[i].kind
  BY <1>2
<1>4. PICK w : w = HandleDispatchReply(o, kind)
  OBVIOUS
<1>5. work'["reader"] = w
  <2>1. Goes("reader", w)
    BY <1>2, <1>3, <1>4 DEF HandleReply
  <2>2. QED
    BY <1>1, <2>1 DEF Goes, RealInv, ProtocolInv, EdgeInv, EdgeTypes
<1>6. i \in read'["core"] /\ replies' = replies
  <2>1. read' = [read EXCEPT !["core"] = @ \cup {i}]
    BY <1>1, <1>2 DEF Consumed
  <2>2. read \in [Sides -> SUBSET Nat] /\ "core" \in Sides
    BY ChannelFacts DEF RealInv, Sides
  <2>3. replies' = replies
    BY <1>1 DEF EdgeActs, coreVars
  <2>4. QED
    BY <2>1, <2>2, <2>3
<1>7. kind = "delivered" => Told(o)'
  <2>1. replies[i] \in ReplyRow
    BY CoreStays DEF RealInv
  <2>2. kind = "delivered" => replies[i] = [order |-> o, kind |-> "delivered"]
    BY <1>3, <2>1 DEF ReplyRow
  <2>3. QED
    BY <1>6, <2>2 DEF Told
<1>8. CASE kind = "update"
  <2>1. w = << >>
    BY <1>4, <1>8 DEF HandleDispatchReply
  <2>2. QED
    BY <1>5, <2>1 DEF NextReal
<1>9. CASE kind # "update"
  <2>1. PICK s \in OrderStatus : /\ s = ReplyStatus[kind] /\ s # "confirmed"
                                 /\ s = "delivered" => kind = "delivered"
    BY <1>9 DEF ReplyStatus, ReplyKind, OrderStatus
  <2>2. w = TransitionOrder(o, s)
    BY <1>4, <1>9, <2>1 DEF HandleDispatchReply
  <2>3. o \in Nat
    BY DEF RealInv, ProtocolInv, EdgeInv, EdgeTypes, OrderIds
  <2>4. w[1] = Statement("check", o, s)
    BY <2>2, <2>3, TransitionProgram
  <2>5. w[1].do = "check" /\ w[1].arg = s /\ Owner(w) = o
    BY <2>4, Fields DEF Owner
  <2>6. HeadReal(w, o)'
    BY <1>7, <2>1, <2>5 DEF HeadReal
  <2>7. QED
    BY <1>5, <2>5, <2>6 DEF NextReal
<1>10. QED
  BY <1>8, <1>9

\* A new order is pending, and nothing was said of it.
LEMMA NewOrderPending ==
    ASSUME EdgeInv, EdgeInv', NEW c \in Callers, EdgeAction(c),
           NEW o \in OrderIds', o \notin OrderIds
    PROVE  orders'[o].status = "pending" /\ \A kind : ~Said(o, kind)'
<1>1. orders \in Seq(OrderRow) /\ \A i \in DOMAIN sent : sent[i].order \in OrderIds
  BY DEF EdgeInv, EdgeTypes
<1>2. PICK type, slot, auto : CreateOrder(c, type, slot, auto)
  <2>1. \/ OrderIds' = OrderIds
        \/ \E type, slot, auto : CreateOrder(c, type, slot, auto)
    <3>1. \/ UNCHANGED orders \/ WriteStatus(c) \/ UpdateOrderFinalCount(c)
          \/ \E type, slot, auto : CreateOrder(c, type, slot, auto)
      BY DEF EdgeAction, Statements, Decide, EnqueueOutbox, ResetPayload, WebCreate,
             WebOperate, HandleReply
    <3>2. WriteStatus(c) \/ UpdateOrderFinalCount(c) => DOMAIN orders' = DOMAIN orders
      BY <1>1 DEF WriteStatus, UpdateOrderFinalCount
    <3>3. QED
      BY <3>1, <3>2 DEF OrderIds
  <2>2. QED
    BY <2>1
<1>3. PICK row : orders' = Append(orders, row) /\ row.status = "pending"
  BY <1>2 DEF CreateOrder, NewOrder
<1>4. orders'[o].status = "pending"
  BY <1>1, <1>3 DEF OrderIds
<1>5. UNCHANGED sent
  BY <1>2 DEF CreateOrder
<1>6. \A kind : ~Said(o, kind)'
  BY <1>1, <1>5 DEF Said
<1>7. QED
  BY <1>4, <1>6

\* A step of a goroutine of the edge keeps RealInv if the goroutine's next
\* statement is real.
LEMMA EdgeActsReal ==
    ASSUME RealInv, NEW c \in Callers, EdgeActs(c), Remembers, ProtocolInv', NextReal(c)
    PROVE  RealInv'
<1>1. EdgeInv /\ EdgeInv' /\ EdgeAction(c)
  BY DEF RealInv, ProtocolInv, EdgeActs
<1>2. \A p : Told(p) => Told(p)'
  BY ToldKept DEF RealInv
<1>3. \A p, kind : Said(p, kind)' <=>
          \/ Said(p, kind)
          \/ /\ EnqueueOutbox(c) /\ work[c] # << >>
             /\ p = Owner(work[c]) /\ kind = work[c][1].arg
  BY <1>1, SaidKept
<1>4. WorkReal'
  <2> SUFFICES ASSUME NEW d \in Callers, work'[d] # << >>
               PROVE  HeadReal(work[d], Owner(work[d]))'
    BY DEF WorkReal
  <2>1. CASE d = c
    <3>1. PICK w, o : w = work'[d] /\ o = Owner(w) /\ HeadReal(w, o)'
      BY <2>1 DEF NextReal
    <3>2. QED
      BY <3>1 DEF HeadReal, Owner, Told, Said
  <2>2. CASE d # c
    <3>1. work'[d] = work[d]
      BY <1>1, <2>2, OthersWork
    <3>2. PICK w, o : w = work[d] /\ o = Owner(w)
      OBVIOUS
    <3>3. HeadReal(w, o)
      BY <3>1, <3>2 DEF RealInv, WorkReal
    <3>4. HeadReal(w, o)'
      BY <1>2, <1>3, <3>3, HeadKept
    <3>5. QED
      BY <3>1, <3>2, <3>4 DEF HeadReal, Owner, Told, Said
  <2>3. QED
    BY <2>1, <2>2
<1>5. ASSUME NEW o \in OrderIds' PROVE RowReal(o)'
  <2>1. CASE o \notin OrderIds
    BY <1>1, <2>1, NewOrderPending DEF RowReal
  <2>2. CASE o \in OrderIds
    <3>1. RowReal(o)
      BY <2>2 DEF RealInv
    <3>2. Said(o, "receipt")' => Told(o)'
      <4>1. CASE Said(o, "receipt")
        BY <1>2, <3>1, <4>1 DEF RowReal
      <4>2. CASE EnqueueOutbox(c) /\ work[c] # << >>
                 /\ o = Owner(work[c]) /\ "receipt" = work[c][1].arg
        <5>1. PICK p, v : RealWork(c, p, v)
          BY <4>2, AtHead
        <5>2. v[1].do = "enqueue" /\ v[1].arg = "receipt" /\ p = o
          BY <4>2, <5>1 DEF RealWork, EnqueueOutbox, At
        <5>3. Told(o)
          BY <5>1, <5>2 DEF RealWork, HeadReal
        <5>4. QED
          BY <1>2, <5>3
      <4>3. QED
        BY <1>3, <4>1, <4>2
    <3>3. CASE orders'[o].status = orders[o].status
      BY <1>2, <1>3, <3>1, <3>2, <3>3 DEF RowReal
    <3>4. CASE /\ work[c] # << >> /\ work[c][1].do = "write" /\ o = Owner(work[c])
               /\ orders'[o].status = work[c][1].arg
      <4>1. PICK v : v = work[c]
        OBVIOUS
      <4>2. HeadReal(v, o) /\ v[1].do = "write" /\ orders'[o].status = v[1].arg
        BY <3>4, <4>1 DEF RealInv, WorkReal
      <4>3. /\ orders'[o].status \in {"delivered", "confirmed"} => Told(o)'
            /\ orders'[o].status = "confirmed" => Said(o, "receipt")'
        BY <1>2, <1>3, <4>2 DEF HeadReal
      <4>4. QED
        BY <3>2, <4>3 DEF RowReal
    <3>5. QED
      BY <1>1, <2>2, <3>3, <3>4, RowsKept
  <2>3. QED
    BY <2>1, <2>2
<1>6. QED
  BY <1>4, <1>5 DEF RealInv

\* A step that leaves the edge's orders alone keeps RealInv.
LEMMA RestReal ==
    ASSUME RealInv, ProtocolInv', Remembers, UNCHANGED <<orders, sent>>,
           UNCHANGED work \/ work' = [c \in Callers |-> << >>]
    PROVE  RealInv'
<1>1. \A p : Told(p) => Told(p)'
  BY ToldKept DEF RealInv
<1>2. \A p, kind : Said(p, kind)' <=> Said(p, kind)
  BY DEF Said
<1>3. WorkReal'
  <2> SUFFICES ASSUME NEW d \in Callers, work'[d] # << >>
               PROVE  HeadReal(work[d], Owner(work[d]))'
    BY DEF WorkReal
  <2>1. work'[d] = work[d]
    OBVIOUS
  <2>2. PICK w, o : w = work[d] /\ o = Owner(w)
    OBVIOUS
  <2>3. HeadReal(w, o)
    BY <2>1, <2>2 DEF RealInv, WorkReal
  <2>4. HeadReal(w, o)'
    BY <1>1, <1>2, <2>3, HeadKept
  <2>5. QED
    BY <2>1, <2>2, <2>4 DEF HeadReal, Owner, Told, Said
<1>4. OrderIds' = OrderIds
  BY DEF OrderIds
<1>5. ASSUME NEW o \in OrderIds PROVE RowReal(o)'
  <2>1. RowReal(o)
    BY DEF RealInv
  <2>2. QED
    BY <1>1, <1>2, <2>1 DEF RowReal
<1>6. QED
  BY <1>3, <1>4, <1>5 DEF RealInv

\* Every step keeps what the edge may believe.
LEMMA RealStep ==
    ASSUME RealInv, [ProtocolNext]_protocolVars
    PROVE  RealInv'
<1>1. ProtocolInv /\ ProtocolInv'
  BY ProtocolStep DEF RealInv
<1>2. CASE EdgeWork
  <2>1. PICK c \in Callers :
             /\ EdgeActs(c) /\ UNCHANGED <<replies, read>>
             /\ Statements(c) \/ WebCreate(c) \/ WebOperate(c)
    BY <1>2, EdgeAssumption DEF EdgeWork, EdgeActs, EdgeAction, coreVars, channel
  <2>2. Remembers
    BY <2>1 DEF Remembers
  <2>3. NextReal(c)
    BY <2>1, <2>2, StatementsReal, WebReal
  <2>4. QED
    BY <1>1, <2>1, <2>2, <2>3, EdgeActsReal
<1>3. CASE EdgeReads
  <2>1. EdgeActs("reader") /\ "reader" \in Callers /\ Consumed("core")
    BY <1>1, <1>3, EdgeReadsIs
  <2>2. Remembers
    BY <1>1, <2>1, ReadGrows DEF Remembers, EdgeActs, coreVars, Sides
  <2>3. QED
    BY <1>1, <1>3, <2>1, <2>2, ReplyReal, EdgeActsReal
<1>4. CASE CoreReads
  <2>1. CoreStep /\ Consumed("edge") /\ UNCHANGED edgeVars
    BY <1>1, <1>4, CoreReadsStep
  <2>2. Remembers
    BY <1>1, <2>1, ReadGrows DEF Remembers, CoreStep, Sides
  <2>3. QED
    BY <1>1, <2>1, <2>2, RestReal DEF edgeVars
<1>5. ASSUME SendAck \/ \E r \in DOMAIN coreOrders : FleetMoves(r) PROVE RealInv'
  <2>1. CoreStep /\ UNCHANGED <<edgeVars, channel>>
    BY <1>1, <1>5, SendAckStep, FleetStep DEF SendAck, FleetMoves
  <2>2. Remembers
    BY <2>1 DEF Remembers, CoreStep, channel
  <2>3. QED
    BY <1>1, <2>1, <2>2, RestReal DEF edgeVars
<1>6. ASSUME NEW side \in Sides,
             \/ Drainer(side) \/ PublishFails(side) \/ DropExpired(side)
             \/ PlainCrash(side) \/ PublishAndCrash(side)
      PROVE  RealInv'
  <2>1. UNCHANGED read \/ Consumed(side)
    BY <1>6 DEF Drainer, ListPendingOutbox, PublishAndAck, PublishUnconnected,
                PublishFails, DropExpired, PlainCrash, PublishAndCrash, Crash
  <2>2. /\ UNCHANGED <<orders, sent, replies>>
        /\ UNCHANGED work \/ work' = [c \in Callers |-> << >>]
    BY <1>6, QuietIs
  <2>3. Remembers
    BY <1>1, <2>1, <2>2, ReadGrows DEF Remembers
  <2>4. QED
    BY <1>1, <2>2, <2>3, RestReal
<1>7. CASE LinkMoves
  <2>1. UNCHANGED <<orders, sent, work, replies>> /\ (UNCHANGED read \/ Consumed("edge"))
    BY <1>1, <1>7, LinkMovesTyped DEF edgeVars, coreVars
  <2>2. Remembers
    BY <1>1, <2>1, ReadGrows DEF Remembers, Sides
  <2>3. QED
    BY <1>1, <2>1, <2>2, RestReal
<1>8. CASE UNCHANGED protocolVars
  <2>1. UNCHANGED <<orders, sent, work, replies, read>>
    BY <1>8 DEF protocolVars, edgeVars, coreVars, channel
  <2>2. Remembers
    BY <2>1 DEF Remembers
  <2>3. QED
    BY <1>1, <2>1, <2>2, RestReal
<1>9. QED
  BY <1>2, <1>3, <1>4, <1>5, <1>6, <1>7, <1>8 DEF ProtocolNext, LinkMoves

\* At the start the edge believes nothing.
LEMMA RealInit ==
    ASSUME ProtocolInit
    PROVE  RealInv
<1>1. ProtocolInv
  BY ProtocolInvInit
<1>2. OrderIds = {} /\ \A c \in Callers : work[c] = << >>
  BY DEF ProtocolInit, EdgeInit, OrderIds
<1>3. QED
  BY <1>1, <1>2 DEF RealInv, WorkReal

\* An edge shows an order as delivered, and core has its receipt, only once the
\* edge has read that a robot delivered for that order: whatever is repeated,
\* lost, overtaken, expired or restarted, and whoever works on the order at the
\* same time.
THEOREM DeliveredReal == ProtocolSpec => []DeliveredIsReal
<1>1. RealInv => DeliveredIsReal
  <2>1. \A o : SentFor(o, "receipt") <=> Said(o, "receipt")
    BY DEF SentFor, Said
  <2>2. QED
    BY <2>1 DEF RealInv, RowReal, Told, DeliveredIsReal
<1>2. ProtocolInit => RealInv
  BY RealInit
<1>3. RealInv /\ [ProtocolNext]_protocolVars => RealInv'
  BY RealStep
<1>4. QED
  BY <1>1, <1>2, <1>3, PTL DEF ProtocolSpec

\* The receipt of a confirmed order is in the outbox, wherever a crash stopped the
\* goroutine that confirmed it.
THEOREM ReceiptFirst == ProtocolSpec => []ConfirmedHasReceipt
<1>1. RealInv => ConfirmedHasReceipt
  <2>1. \A o : SentFor(o, "receipt") <=> Said(o, "receipt")
    BY DEF SentFor, Said
  <2>2. QED
    BY <2>1 DEF RealInv, RowReal, ConfirmedHasReceipt
<1>2. ProtocolInit => RealInv
  BY RealInit
<1>3. RealInv /\ [ProtocolNext]_protocolVars => RealInv'
  BY RealStep
<1>4. QED
  BY <1>1, <1>2, <1>3, PTL DEF ProtocolSpec

-----------------------------------------------------------------------------
(* An abort stops the robot.                                               *)

\* The kinds of messages that core makes an order of.
Requests == {"request", "waybill"}

Asked(o) == \E kind \in Requests : Said(o, kind)

\* The statements that are left.
Left(w) == {w[i] : i \in DOMAIN w}

\* Somewhere in what is left there is a request.
Asking(w) == \E s \in Left(w) : s.do = "enqueue" /\ s.arg \in Requests

\* What the goroutine that creates an order has left up to its request.
Opening(w, o, row) ==
    IF row.type # "store" THEN w = RequestSteps(o)
    ELSE \/ row.status = "pending" /\ w = StoreSteps(o)
         \/ /\ row.status = "pending" /\ row.counted
            /\ w \in {Tail(StoreSteps(o)), Tail(Tail(StoreSteps(o)))}
         \/ row.status = "submitted" /\ w = Tail(Tail(Tail(StoreSteps(o))))

\* Nothing was said of an order.
Silent(o) == \A i \in DOMAIN sent : sent[i].order # o

\* Goroutine c is creating the order, and nobody else is at it.
Opener(c, o) ==
    /\ Opening(work[c], o, orders[o])
    /\ \A d \in Callers \ {c} : work[d] # << >> => Owner(work[d]) # o

\* Nobody but the opener knows of an order before core is asked for it.
Unheard(o) == Silent(o) /\ \E c \in Webs : Opener(c, o)

\* A second submission of a store order, which fails its check.
Resubmits(w, o) ==
    orders[o].type = "store" /\ w[1].do = "check" /\ w[1].arg = "submitted"

\* Core is asked once, and before anything else is said.
AskedFirst(o) ==
    \A i, j \in DOMAIN sent :
        sent[i].order = o /\ sent[j].order = o /\ sent[i].kind \in Requests => i <= j

AskedOnce(o) ==
    /\ AskedFirst(o)
    /\ orders[o].type = "store" => orders[o].status # "pending"
    /\ \A c \in Callers :
          work[c] # << >> /\ Owner(work[c]) = o /\ Asking(work[c]) => Resubmits(work[c], o)

Opened(o) == IF Asked(o) THEN AskedOnce(o) ELSE Unheard(o)

\* No statement takes an order back to pending.
Onward(w) == \A s \in Left(w) : s.do \in {"check", "write"} => s.arg # "pending"

\* The edge's rows are published and read in their order.
FifoAt(a, p, b) ==
    /\ a <= p /\ p <= b /\ b <= Len(sent)
    /\ read["edge"] = 1..a /\ posted["edge"] = 1..p /\ drain["edge"] = p + 1 .. b
    /\ Len(topic["edge"]) = p - a /\ \A i \in 1 .. p - a : topic["edge"][i] = a + i

Fifo == \E a, p, b \in Nat : FifoAt(a, p, b)

NoRetries == Len(sent) <= MaxSent /\ \A i \in 1..MaxSent : retries["edge"][i] = 0

\* Core has read of o a message of that kind.
Has(o, kind) == \E i \in read["edge"] : sent[i] = [order |-> o, kind |-> kind]

Stands(robot) == robot \in {"done", "none"}

\* Core has one row of an order it was asked for, and its robot has stopped once
\* the abort was read, unless the order was redirected.
InCore(o) ==
    /\ \A r, q \in DOMAIN coreOrders :
          coreOrders[r].order = o /\ coreOrders[q].order = o => r = q
    /\ \A r \in DOMAIN coreOrders :
          coreOrders[r].order = o => \E kind \in Requests : Has(o, kind)
    /\ Has(o, "cancel") /\ ~Said(o, "redirect") =>
          \A r \in DOMAIN coreOrders :
              coreOrders[r].order = o => Stands(coreOrders[r].robot)

Heeded == \A i \in DOMAIN replies : Asked(replies[i].order)

Sound ==
    /\ Fifo /\ NoRetries /\ Heeded
    /\ \A c \in Callers : Onward(work[c])
    /\ \A o \in OrderIds : Opened(o) /\ InCore(o)

AbortInv == ProtocolInv /\ (faults = 0 => Sound)

\* Operators do not work on one order at the same time.
InTurn == "order" \notin Overlaps \/ \A c, d \in Webs : c = d
-----------------------------------------------------------------------------
(* The channel from the edge to core.                                      *)

\* The first rows of an interval are an interval.
LEMMA FirstRows ==
    ASSUME NEW p \in Nat, NEW n \in Nat, p <= n
    PROVE  \E b \in Nat : p <= b /\ b <= n /\ FirstOf(p + 1 .. n) = p + 1 .. b
<1>1. PICK S, F : S = p + 1 .. n /\ F = FirstOf(S)
  OBVIOUS
<1>2. F \subseteq S /\ F \subseteq 1..n
  BY <1>1 DEF FirstOf
<1>3. ASSUME NEW i \in F, NEW j \in S, j < i PROVE j \in F
  <2>1. PICK J, I : J = {k \in S : k < j} /\ I = {k \in S : k < i}
    OBVIOUS
  <2>2. IsFiniteSet(I)
    <3>1. IsFiniteSet(S)
      BY <1>1, FS_Interval
    <3>2. QED
      BY <2>1, <3>1, FS_Subset
  <2>3. J \subseteq I
    BY <1>1, <1>2, <1>3, <2>1
  <2>4. Cardinality(J) <= Cardinality(I) /\ Cardinality(J) \in Nat /\ Cardinality(I) \in Nat
    BY <2>2, <2>3, FS_Subset, FS_CardinalityType
  <2>5. Cardinality(I) < Batch
    BY <1>1, <2>1 DEF FirstOf
  <2>6. Cardinality(J) < Batch
    BY <2>4, <2>5, ProtocolAssumption
  <2>7. QED
    BY <1>1, <2>1, <2>6 DEF FirstOf
<1>4. CASE F = {}
  BY <1>1, <1>4
<1>5. CASE F # {}
  <2>1. PICK b \in F : \A k \in F : k <= b
    BY <1>2, <1>5, GreatestOf
  <2>2. b \in Nat /\ p <= b /\ b <= n
    BY <1>1, <1>2, <2>1
  <2>3. ASSUME NEW k \in p + 1 .. b PROVE k \in F
    BY <1>1, <1>2, <1>3, <2>1, <2>2, <2>3
  <2>4. F = p + 1 .. b
    <3>1. ASSUME NEW k \in F PROVE k \in p + 1 .. b
      <4>1. k \in p + 1 .. n /\ k <= b
        BY <1>1, <1>2, <2>1
      <4>2. QED
        BY <2>2, <4>1
    <3>2. QED
      BY <2>3, <3>1
  <2>5. QED
    BY <1>1, <2>2, <2>4
<1>6. QED
  BY <1>4, <1>5

\* The drainer lists rows that follow the posted ones.
LEMMA ListFifo ==
    ASSUME ProtocolInv, Fifo, NoRetries, ListPendingOutbox("edge")
    PROVE  Fifo'
<1>1. PICK a, p, b \in Nat : FifoAt(a, p, b)
  BY DEF Fifo
<1>2. PICK n : n = Len(sent)
  OBVIOUS
<1>3. n \in Nat /\ DOMAIN sent = 1..n /\ drain \in [Sides -> SUBSET Nat] /\ n <= MaxSent
  BY <1>2, ChannelFacts DEF NoRetries, ProtocolInv, EdgeInv, EdgeTypes
<1>4. drain["edge"] = {} /\ drain' = [drain EXCEPT !["edge"] = FirstOf(Pending("edge"))]
      /\ UNCHANGED <<sent, read, posted, topic>>
  BY DEF ListPendingOutbox, edgeVars
<1>5. b = p /\ p <= n /\ posted["edge"] = 1..p
  <2>1. p <= b /\ b <= n /\ drain["edge"] = p + 1 .. b /\ posted["edge"] = 1..p
    BY <1>1, <1>2 DEF FifoAt
  <2>2. p < b => b \in p + 1 .. b
    BY <1>1
  <2>3. ~(p < b)
    BY <1>4, <2>1, <2>2
  <2>4. p = b
    BY <1>1, <2>1, <2>3
  <2>5. QED
    BY <2>1, <2>4
<1>6. Pending("edge") = p + 1 .. n
  <2>1. \A i \in 1..n : retries["edge"][i] = 0
    BY <1>3, ProtocolAssumption, EdgeAssumption DEF NoRetries
  <2>2. \A i \in 1..n : ~Quits("edge", i)
    BY <2>1, ProtocolAssumption DEF Quits
  <2>3. Pending("edge") = {i \in 1..n : i \notin 1..p}
    BY <1>3, <1>5, <2>2 DEF Pending, Outbox
  <2>4. ASSUME NEW i PROVE i \in Pending("edge") <=> i \in p + 1 .. n
    BY <1>1, <1>3, <1>5, <2>3
  <2>5. QED
    BY <2>4
<1>7. PICK e \in Nat : p <= e /\ e <= n /\ FirstOf(p + 1 .. n) = p + 1 .. e
  BY <1>3, <1>5, FirstRows
<1>8. drain'["edge"] = p + 1 .. e
  BY <1>3, <1>4, <1>6, <1>7 DEF Sides
<1>9. FifoAt(a, p, e)'
  BY <1>1, <1>2, <1>4, <1>5, <1>7, <1>8 DEF FifoAt
<1>10. QED
  BY <1>9 DEF Fifo

\* What is published next is the row after those posted.
LEMMA AckFifo ==
    ASSUME ProtocolInv, Fifo, PublishAndAck("edge")
    PROVE  Fifo'
<1>1. PICK a, p, b \in Nat : FifoAt(a, p, b)
  BY DEF Fifo
<1>2. /\ drain \in [Sides -> SUBSET Nat] /\ posted \in [Sides -> SUBSET Nat]
      /\ topic \in [Sides -> Seq(Nat)] /\ "edge" \in Sides
  BY ChannelFacts DEF Sides
<1>3. PICK m : m = Min(drain["edge"])
  OBVIOUS
<1>4. /\ drain["edge"] # {} /\ topic' = [topic EXCEPT !["edge"] = Append(@, m)]
      /\ posted' = [posted EXCEPT !["edge"] = @ \cup {m}]
      /\ drain' = [drain EXCEPT !["edge"] = @ \ {m}]
      /\ UNCHANGED <<sent, read>>
  <2>1. drain' = [drain EXCEPT !["edge"] = drain["edge"] \ {Min(drain["edge"])}]
    BY DEF PublishAndAck
  <2>2. QED
    BY <1>3, <2>1 DEF PublishAndAck, Published, edgeVars
<1>5. /\ a <= p /\ p <= b /\ b <= Len(sent)
      /\ read["edge"] = 1..a /\ posted["edge"] = 1..p /\ drain["edge"] = p + 1 .. b
      /\ Len(topic["edge"]) = p - a /\ \A i \in 1 .. p - a : topic["edge"][i] = a + i
  BY <1>1 DEF FifoAt
<1>6. m = p + 1 /\ p + 1 <= b
  <2>1. drain["edge"] \subseteq Nat
    BY <1>2
  <2>2. PICK k \in drain["edge"] : \A j \in drain["edge"] : k <= j
    BY <1>4, <2>1, LeastOf
  <2>3. m \in drain["edge"] /\ \A j \in drain["edge"] : m <= j
    BY <1>3, <2>2 DEF Min
  <2>4. k \in p + 1 .. b
    BY <1>5, <2>2
  <2>5. p + 1 \in p + 1 .. b /\ m \in p + 1 .. b /\ p + 1 <= b
    BY <1>1, <1>5, <2>3, <2>4
  <2>6. m <= p + 1
    BY <1>5, <2>3, <2>5
  <2>7. QED
    BY <1>1, <2>5, <2>6
<1>7. posted'["edge"] = 1 .. p + 1 /\ drain'["edge"] = p + 2 .. b
  <2>1. posted'["edge"] = (1..p) \cup {p + 1} /\ drain'["edge"] = (p + 1 .. b) \ {p + 1}
    BY <1>2, <1>4, <1>5, <1>6
  <2>2. QED
    BY <2>1
<1>8. PICK t : t = topic["edge"]
  OBVIOUS
<1>9. t \in Seq(Nat) /\ topic'["edge"] = Append(t, p + 1)
  BY <1>2, <1>4, <1>6, <1>8
<1>10. Len(topic'["edge"]) = p + 1 - a /\ \A i \in 1 .. p + 1 - a : topic'["edge"][i] = a + i
  <2>1. p + 1 \in Nat
    BY <1>1
  <2>2. /\ Len(Append(t, p + 1)) = p - a + 1
        /\ \A i \in 1 .. p - a : Append(t, p + 1)[i] = t[i]
        /\ Append(t, p + 1)[p - a + 1] = p + 1
    <3>1. /\ Len(Append(t, p + 1)) = Len(t) + 1
          /\ \A i \in 1 .. Len(t) : Append(t, p + 1)[i] = t[i]
          /\ Append(t, p + 1)[Len(t) + 1] = p + 1
      BY <1>9, <2>1, AppendProperties
    <3>2. Len(t) = p - a
      BY <1>5, <1>8
    <3>3. QED
      BY <3>1, <3>2
  <2>3. \A i \in 1 .. p - a : Append(t, p + 1)[i] = a + i
    BY <1>5, <1>8, <2>2
  <2>4. \A i \in 1 .. p + 1 - a : i \in 1 .. p - a \/ i = p - a + 1
    BY <1>1, <1>5
  <2>5. a + (p - a + 1) = p + 1 /\ p - a + 1 = p + 1 - a
    BY <1>1
  <2>6. QED
    BY <1>9, <2>2, <2>3, <2>4, <2>5
<1>11. FifoAt(a, p + 1, b)'
  BY <1>1, <1>4, <1>5, <1>6, <1>7, <1>10 DEF FifoAt
<1>12. QED
  BY <1>1, <1>11 DEF Fifo

\* Core reads the row after those it has read.
LEMMA ReadFifo ==
    ASSUME ProtocolInv, Fifo, Consumed("edge"), UNCHANGED sent
    PROVE  /\ Fifo'
           /\ \E a \in Nat : /\ read["edge"] = 1..a /\ read'["edge"] = 1 .. a + 1
                             /\ Head(topic["edge"]) = a + 1 /\ a + 1 \in DOMAIN sent
<1>1. PICK a, p, b \in Nat : FifoAt(a, p, b)
  BY DEF Fifo
<1>2. /\ read \in [Sides -> SUBSET Nat] /\ topic \in [Sides -> Seq(Nat)] /\ "edge" \in Sides
      /\ sent \in Seq([order : Nat, kind : MessageKind])
  BY ChannelFacts DEF Sides, ProtocolInv, EdgeInv, EdgeTypes
<1>3. PICK t, n : t = topic["edge"] /\ n = Len(sent)
  OBVIOUS
<1>4. /\ t # << >> /\ topic' = [topic EXCEPT !["edge"] = Tail(t)]
      /\ read' = [read EXCEPT !["edge"] = @ \cup {Head(t)}]
      /\ UNCHANGED <<posted, drain>>
  BY <1>3 DEF Consumed
<1>5. /\ a <= p /\ p <= b /\ b <= n /\ n \in Nat /\ DOMAIN sent = 1..n
      /\ read["edge"] = 1..a /\ posted["edge"] = 1..p /\ drain["edge"] = p + 1 .. b
      /\ Len(t) = p - a /\ \A i \in 1 .. p - a : t[i] = a + i
  BY <1>1, <1>2, <1>3 DEF FifoAt
<1>6. /\ t \in Seq(Nat) /\ Len(t) \in Nat \ {0} /\ Head(t) = t[1]
      /\ Len(Tail(t)) = Len(t) - 1 /\ \A i \in 1 .. Len(t) - 1 : Tail(t)[i] = t[i + 1]
  <2>1. t \in Seq(Nat)
    BY <1>2, <1>3
  <2>2. Len(t) \in Nat \ {0}
    BY <1>4, <2>1, EmptySeq
  <2>3. Len(Tail(t)) = Len(t) - 1 /\ \A i \in 1 .. Len(Tail(t)) : Tail(t)[i] = t[i + 1]
    BY <1>4, <2>1, HeadTailProperties
  <2>4. QED
    BY <2>1, <2>2, <2>3
<1>7. Head(t) = a + 1 /\ a + 1 <= p
  BY <1>1, <1>5, <1>6
<1>8. read'["edge"] = 1 .. a + 1
  <2>1. read'["edge"] = (1..a) \cup {a + 1}
    BY <1>2, <1>4, <1>5, <1>7
  <2>2. QED
    BY <2>1
<1>9. /\ topic'["edge"] = Tail(t) /\ Len(Tail(t)) = p - (a + 1)
      /\ \A i \in 1 .. p - (a + 1) : Tail(t)[i] = (a + 1) + i
  BY <1>1, <1>2, <1>4, <1>5, <1>6, <1>7
<1>10. FifoAt(a + 1, p, b)'
  BY <1>1, <1>3, <1>4, <1>5, <1>7, <1>8, <1>9 DEF FifoAt
<1>11. QED
  BY <1>1, <1>3, <1>5, <1>7, <1>8, <1>10 DEF Fifo

\* The channel of the edge stands while its outbox grows.
LEMMA FifoStays ==
    ASSUME ProtocolInv, Fifo, Len(sent) <= Len(sent)', Len(sent)' \in Nat,
           drain'["edge"] = drain["edge"], posted'["edge"] = posted["edge"],
           read'["edge"] = read["edge"], topic'["edge"] = topic["edge"]
    PROVE  Fifo'
<1>1. PICK a, p, b \in Nat : FifoAt(a, p, b)
  BY DEF Fifo
<1>2. Len(sent) \in Nat
  BY DEF ProtocolInv, EdgeInv, EdgeTypes
<1>3. FifoAt(a, p, b)'
  BY <1>1, <1>2 DEF FifoAt
<1>4. QED
  BY <1>3 DEF Fifo

-----------------------------------------------------------------------------
(* What is left, as a set.                                                 *)

\* The first statement is one of those left.
LEMMA HeadLeft ==
    ASSUME NEW w \in Seq(Step), w # << >>
    PROVE  w[1] \in Left(w) /\ Head(w) = w[1]
<1>1. 1 \in DOMAIN w
  BY EmptySeq
<1>2. QED
  BY <1>1 DEF Left

\* A step leaves nothing new of what was left.
LEMMA TailLeft ==
    ASSUME NEW w \in Seq(Step), w # << >>
    PROVE  Left(Tail(w)) \subseteq Left(w)
<1>1. Len(w) \in Nat \ {0} /\ DOMAIN w = 1..Len(w)
  BY EmptySeq
<1>2. /\ Len(Tail(w)) = Len(w) - 1 /\ DOMAIN Tail(w) = 1..Len(Tail(w))
      /\ \A i \in 1 .. Len(Tail(w)) : Tail(w)[i] = w[i + 1]
  BY <1>1, HeadTailProperties
<1>3. SUFFICES ASSUME NEW i \in DOMAIN Tail(w) PROVE Tail(w)[i] \in Left(w)
  BY DEF Left
<1>4. i + 1 \in DOMAIN w /\ Tail(w)[i] = w[i + 1]
  BY <1>1, <1>2
<1>5. QED
  BY <1>4 DEF Left

\* What two parts leave is what each leaves.
LEMMA JoinLeft ==
    ASSUME NEW p \in Seq(Step), NEW q \in Seq(Step)
    PROVE  Left(p \o q) = Left(p) \cup Left(q)
<1>1. /\ Len(p \o q) = Len(p) + Len(q)
      /\ \A i \in 1 .. Len(p) + Len(q) :
            (p \o q)[i] = IF i <= Len(p) THEN p[i] ELSE q[i - Len(p)]
      /\ p \o q \in Seq(Step)
  BY ConcatProperties
<1>2. Len(p) \in Nat /\ Len(q) \in Nat
  OBVIOUS
<1>3. ASSUME NEW i \in DOMAIN (p \o q) PROVE (p \o q)[i] \in Left(p) \cup Left(q)
  <2>1. i \in 1 .. Len(p) + Len(q)
    BY <1>1
  <2>2. CASE i <= Len(p)
    <3>1. i \in DOMAIN p /\ (p \o q)[i] = p[i]
      BY <1>1, <1>2, <2>1, <2>2
    <3>2. QED
      BY <3>1 DEF Left
  <2>3. CASE ~(i <= Len(p))
    <3>1. i - Len(p) \in DOMAIN q /\ (p \o q)[i] = q[i - Len(p)]
      BY <1>1, <1>2, <2>1, <2>3
    <3>2. QED
      BY <3>1 DEF Left
  <2>4. QED
    BY <2>2, <2>3
<1>4. ASSUME NEW i \in DOMAIN p PROVE p[i] \in Left(p \o q)
  <2>1. i \in 1 .. Len(p) + Len(q) /\ i <= Len(p)
    BY <1>2
  <2>2. i \in DOMAIN (p \o q) /\ (p \o q)[i] = p[i]
    BY <1>1, <2>1
  <2>3. QED
    BY <2>2 DEF Left
<1>5. ASSUME NEW i \in DOMAIN q PROVE q[i] \in Left(p \o q)
  <2>1. /\ Len(p) + i \in 1 .. Len(p) + Len(q) /\ ~(Len(p) + i <= Len(p))
        /\ Len(p) + i - Len(p) = i
    BY <1>2
  <2>2. Len(p) + i \in DOMAIN (p \o q) /\ (p \o q)[Len(p) + i] = q[i]
    BY <1>1, <2>1
  <2>3. QED
    BY <2>2 DEF Left
<1>6. Left(p \o q) \subseteq Left(p) \cup Left(q)
  BY <1>3 DEF Left
<1>7. Left(p) \cup Left(q) \subseteq Left(p \o q)
  <2>1. Left(p) \subseteq Left(p \o q)
    <3> SUFFICES ASSUME NEW i \in DOMAIN p PROVE p[i] \in Left(p \o q)
      BY DEF Left
    <3>1. QED
      BY <1>4
  <2>2. Left(q) \subseteq Left(p \o q)
    <3> SUFFICES ASSUME NEW i \in DOMAIN q PROVE q[i] \in Left(p \o q)
      BY DEF Left
    <3>1. QED
      BY <1>5
  <2>3. QED
    BY <2>1, <2>2
<1>8. QED
  BY <1>6, <1>7

\* What short programs leave.
LEMMA FewLeft ==
    /\ Left(<< >>) = {}
    /\ \A a : Left(<<a>>) = {a}
    /\ \A a, b : Left(<<a, b>>) = {a, b}
<1>1. Left(<< >>) = {}
  BY DEF Left
<1>2. ASSUME NEW a PROVE Left(<<a>>) = {a}
  <2>1. DOMAIN <<a>> = {1} /\ <<a>>[1] = a
    OBVIOUS
  <2>2. QED
    BY <2>1 DEF Left
<1>3. ASSUME NEW a, NEW b PROVE Left(<<a, b>>) = {a, b}
  <2>1. DOMAIN <<a, b>> = {1, 2} /\ <<a, b>>[1] = a /\ <<a, b>>[2] = b
    OBVIOUS
  <2>2. Left(<<a, b>>) = {<<a, b>>[i] : i \in {1, 2}}
    BY <2>1 DEF Left
  <2>3. QED
    BY <2>1, <2>2
<1>4. QED
  BY <1>1, <1>2, <1>3

\* What a transition, a message and a single statement leave.
LEMMA PartsLeft ==
    ASSUME NEW o \in Nat
    PROVE  /\ \A s \in OrderStatus :
                 /\ TransitionOrder(o, s) \in Seq(Step)
                 /\ Left(TransitionOrder(o, s)) =
                       {Statement("check", o, s), Statement("write", o, s)}
           /\ \A kind \in MessageKind :
                 /\ Enqueue(o, kind) \in Seq(Step)
                 /\ Left(Enqueue(o, kind)) = {Statement("enqueue", o, kind)}
           /\ \A do \in {"count", "unless_over", "if_delivered", "refill"} :
                 /\ <<Statement(do, o, "none")>> \in Seq(Step)
                 /\ Left(<<Statement(do, o, "none")>>) = {Statement(do, o, "none")}
<1>1. ASSUME NEW s \in OrderStatus
      PROVE  /\ TransitionOrder(o, s) \in Seq(Step)
             /\ Left(TransitionOrder(o, s)) =
                   {Statement("check", o, s), Statement("write", o, s)}
  BY TransitionChain, FewLeft DEF TransitionOrder
<1>2. ASSUME NEW kind \in MessageKind
      PROVE  /\ Enqueue(o, kind) \in Seq(Step)
             /\ Left(Enqueue(o, kind)) = {Statement("enqueue", o, kind)}
  BY SingleChain, StatementTyped, FewLeft DEF Enqueue
<1>3. ASSUME NEW do \in {"count", "unless_over", "if_delivered", "refill"}
      PROVE  /\ <<Statement(do, o, "none")>> \in Seq(Step)
             /\ Left(<<Statement(do, o, "none")>>) = {Statement(do, o, "none")}
  BY SingleChain, StatementTyped, FewLeft
<1>4. QED
  BY <1>1, <1>2, <1>3

\* A statement that neither asks core for an order nor takes one back.
Mild(s) == /\ s.do = "enqueue" => s.arg \notin Requests
           /\ s.do \in {"check", "write"} => s.arg # "pending"

\* Nothing in w asks core for an order or takes one back to pending.
Harmless(w) == ~Asking(w) /\ Onward(w)

\* Single statements are harmless, and so are parts that are.
LEMMA HarmlessParts ==
    ASSUME NEW o \in Nat
    PROVE  /\ Harmless(<< >>)
           /\ \A s \in OrderStatus \ {"pending"} : Harmless(TransitionOrder(o, s))
           /\ \A kind \in MessageKind \ Requests : Harmless(Enqueue(o, kind))
           /\ \A do \in {"count", "unless_over", "if_delivered", "refill"} :
                 Harmless(<<Statement(do, o, "none")>>)
<1>1. Harmless(<< >>)
  BY FewLeft DEF Harmless, Asking, Onward
<1>2. ASSUME NEW w, NEW a, NEW b, Left(w) \subseteq {a, b}, Mild(a), Mild(b)
      PROVE  Harmless(w)
  BY <1>2 DEF Harmless, Asking, Onward, Mild
<1>3. ASSUME NEW s \in OrderStatus \ {"pending"} PROVE Harmless(TransitionOrder(o, s))
  <2>1. Mild(Statement("check", o, s)) /\ Mild(Statement("write", o, s))
    BY <1>3 DEF Statement, Mild
  <2>2. QED
    BY <1>2, <2>1, PartsLeft
<1>4. ASSUME NEW kind \in MessageKind \ Requests PROVE Harmless(Enqueue(o, kind))
  <2>1. Mild(Statement("enqueue", o, kind))
    BY <1>4 DEF Statement, Mild
  <2>2. Left(Enqueue(o, kind)) = {Statement("enqueue", o, kind)}
    BY <1>4, PartsLeft
  <2>3. QED
    BY <1>2, <2>1, <2>2
<1>5. ASSUME NEW do \in {"count", "unless_over", "if_delivered", "refill"}
      PROVE  Harmless(<<Statement(do, o, "none")>>)
  <2>1. Mild(Statement(do, o, "none"))
    BY <1>5 DEF Statement, Mild
  <2>2. Left(<<Statement(do, o, "none")>>) = {Statement(do, o, "none")}
    BY <1>5, PartsLeft
  <2>3. QED
    BY <1>2, <2>1, <2>2
<1>6. QED
  BY <1>1, <1>3, <1>4, <1>5

\* What is put together of harmless parts is harmless.
LEMMA HarmlessJoin ==
    ASSUME NEW p \in Seq(Step), NEW q \in Seq(Step), Harmless(p), Harmless(q)
    PROVE  p \o q \in Seq(Step) /\ Harmless(p \o q)
<1>1. p \o q \in Seq(Step)
  BY ConcatProperties
<1>2. QED
  BY <1>1, JoinLeft DEF Harmless, Asking, Onward

\* No part takes an order back to pending.
LEMMA OnwardParts ==
    ASSUME NEW o \in Nat
    PROVE  /\ Onward(<< >>)
           /\ \A s \in OrderStatus \ {"pending"} : Onward(TransitionOrder(o, s))
           /\ \A kind \in MessageKind : Onward(Enqueue(o, kind))
           /\ Onward(<<Statement("count", o, "none")>>)
<1>1. Onward(<< >>) /\ Onward(<<Statement("count", o, "none")>>)
  BY HarmlessParts DEF Harmless
<1>2. \A s \in OrderStatus \ {"pending"} : Onward(TransitionOrder(o, s))
  BY HarmlessParts DEF Harmless
<1>3. ASSUME NEW kind \in MessageKind PROVE Onward(Enqueue(o, kind))
  <2>1. Left(Enqueue(o, kind)) = {Statement("enqueue", o, kind)}
    BY PartsLeft
  <2>2. Statement("enqueue", o, kind).do = "enqueue"
    BY Fields
  <2>3. QED
    BY <2>1, <2>2 DEF Onward
<1>4. QED
  BY <1>1, <1>2, <1>3

\* Nor do parts that are put together.
LEMMA OnwardJoin ==
    ASSUME NEW p \in Seq(Step), NEW q \in Seq(Step), Onward(p), Onward(q)
    PROVE  p \o q \in Seq(Step) /\ Onward(p \o q)
<1>1. p \o q \in Seq(Step)
  BY ConcatProperties
<1>2. QED
  BY <1>1, JoinLeft DEF Onward

\* The confirmation is harmless.
LEMMA ConfirmHarmless ==
    ASSUME NEW o \in Nat
    PROVE  ConfirmSteps(o) \in Seq(Step) /\ Harmless(ConfirmSteps(o))
<1> DEFINE a == Statement("if_delivered", o, "none")
           b == Statement("count", o, "none")
           p == <<a, b>>
           q == Enqueue(o, "receipt")
           r == TransitionOrder(o, "confirmed")
<1>1. p \in Seq(Step) /\ Harmless(p)
  <2>1. a \in Step /\ b \in Step
    BY StatementTyped
  <2>2. Mild(a) /\ Mild(b)
    BY Fields DEF Mild
  <2> HIDE DEF a, b
  <2>3. p \in Seq(Step)
    BY <2>1
  <2>4. Left(p) = {a, b}
    BY FewLeft
  <2>5. QED
    BY <2>2, <2>3, <2>4 DEF Harmless, Asking, Onward, Mild
<1>2. q \in Seq(Step) /\ Harmless(q)
  <2>1. "receipt" \in MessageKind \ Requests
    BY DEF MessageKind, Requests
  <2>2. QED
    BY <2>1, PartsLeft, HarmlessParts
<1>3. r \in Seq(Step) /\ Harmless(r)
  <2>1. "confirmed" \in OrderStatus \ {"pending"}
    BY DEF OrderStatus
  <2>2. QED
    BY <2>1, PartsLeft, HarmlessParts
<1>4. ConfirmSteps(o) = (p \o q) \o r
  BY DEF ConfirmSteps
<1> HIDE DEF p, q, r
<1>5. p \o q \in Seq(Step) /\ Harmless(p \o q)
  BY <1>1, <1>2, HarmlessJoin
<1>6. QED
  BY <1>3, <1>4, <1>5, HarmlessJoin

\* Of the operators' commands only a second submission asks core for an order.
LEMMA CommandHarmless ==
    ASSUME NEW o \in Nat,
           NEW command \in {"submit", "abort", "redirect", "confirm", "count"},
           NEW w, w = OrderSteps(command, o)
    PROVE  Onward(w) /\ (Asking(w) => Resubmits(w, o))
<1>1. CASE command = "submit"
  <2> DEFINE p == TransitionOrder(o, "submitted")
             q == IF orders[o].type = "store" THEN Enqueue(o, "waybill") ELSE << >>
  <2>1. w = SubmitSteps(o) /\ SubmitSteps(o) = p \o q
    BY <1>1 DEF OrderSteps, SubmitSteps
  <2>2. "submitted" \in OrderStatus \ {"pending"} /\ "waybill" \in MessageKind
    BY DEF OrderStatus, MessageKind
  <2>3. p \in Seq(Step) /\ Harmless(p)
    BY <2>2, PartsLeft, HarmlessParts
  <2>4. q \in Seq(Step) /\ Onward(q)
    <3>1. Enqueue(o, "waybill") \in Seq(Step) /\ Onward(Enqueue(o, "waybill"))
      BY <2>2, PartsLeft, OnwardParts
    <3>2. << >> \in Seq(Step)
      OBVIOUS
    <3>3. Onward(<< >>)
      BY OnwardParts
    <3>4. QED
      BY <3>1, <3>2, <3>3
  <2>5. orders[o].type # "store" => Harmless(q)
    BY HarmlessParts
  <2>6. w[1] = Statement("check", o, "submitted")
    BY <2>1, SubmitProgram
  <2> HIDE DEF p, q
  <2>7. Onward(w)
    BY <2>1, <2>3, <2>4, OnwardJoin DEF Harmless
  <2>8. orders[o].type # "store" => ~Asking(w)
    BY <2>1, <2>3, <2>4, <2>5, HarmlessJoin DEF Harmless
  <2>9. QED
    BY <2>6, <2>7, <2>8, Fields DEF Resubmits
<1>2. CASE command = "abort"
  <2> DEFINE p == <<Statement("unless_over", o, "none")>>
             q == TransitionOrder(o, "cancelled")
             r == Enqueue(o, "cancel")
  <2>1. w = (p \o q) \o r
    BY <1>2 DEF OrderSteps, AbortSteps
  <2>2. "cancelled" \in OrderStatus \ {"pending"} /\ "cancel" \in MessageKind \ Requests
    BY DEF OrderStatus, MessageKind, Requests
  <2>3. p \in Seq(Step) /\ Harmless(p)
    BY PartsLeft, HarmlessParts
  <2>4. q \in Seq(Step) /\ Harmless(q)
    BY <2>2, PartsLeft, HarmlessParts
  <2>5. r \in Seq(Step) /\ Harmless(r)
    BY <2>2, PartsLeft, HarmlessParts
  <2> HIDE DEF p, q, r
  <2>6. p \o q \in Seq(Step) /\ Harmless(p \o q)
    BY <2>3, <2>4, HarmlessJoin
  <2>7. Harmless(w)
    BY <2>1, <2>5, <2>6, HarmlessJoin
  <2>8. QED
    BY <2>7 DEF Harmless
<1>3. CASE command = "redirect"
  <2> DEFINE p == <<Statement("unless_over", o, "none")>>
             r == Enqueue(o, "redirect")
  <2>1. w = p \o r
    BY <1>3 DEF OrderSteps, RedirectSteps
  <2>2. "redirect" \in MessageKind \ Requests
    BY DEF MessageKind, Requests
  <2>3. p \in Seq(Step) /\ Harmless(p)
    BY PartsLeft, HarmlessParts
  <2>4. r \in Seq(Step) /\ Harmless(r)
    BY <2>2, PartsLeft, HarmlessParts
  <2> HIDE DEF p, r
  <2>5. QED
    BY <2>1, <2>3, <2>4, HarmlessJoin DEF Harmless
<1>4. CASE command = "confirm"
  BY <1>4, ConfirmHarmless DEF OrderSteps, Harmless
<1>5. CASE command = "count"
  BY <1>5, HarmlessParts DEF OrderSteps, Harmless
<1>6. QED
  BY <1>1, <1>2, <1>3, <1>4, <1>5

\* No reply of core makes the edge ask for an order.
LEMMA ReplyHarmless ==
    ASSUME NEW o \in Nat, NEW kind \in ReplyKind
    PROVE  Harmless(HandleDispatchReply(o, kind))
<1>1. CASE kind = "update"
  BY <1>1, HarmlessParts DEF HandleDispatchReply
<1>2. CASE kind # "update"
  <2>1. ReplyStatus[kind] \in OrderStatus \ {"pending"}
    BY <1>2 DEF ReplyStatus, OrderStatus, ReplyKind
  <2>2. QED
    BY <1>2, <2>1, HarmlessParts DEF HandleDispatchReply
<1>3. QED
  BY <1>1, <1>2

\* What a write of a status adds to what is left is harmless.
LEMMA WriteHarmless ==
    ASSUME NEW o \in Nat, NEW s, NEW w \in Seq(Step), w # << >>
    PROVE  /\ Asking(AfterWrite(o, s, w)) => Asking(w)
           /\ Onward(w) => Onward(AfterWrite(o, s, w))
<1> DEFINE p == CompletedSteps(o, s)
           q == IF s = "delivered" /\ orders[o].auto THEN ConfirmSteps(o) ELSE << >>
           t == Tail(w)
<1> DEFINE u == <<Statement("refill", o, "none")>>
<1>0. /\ u \in Seq(Step) /\ Harmless(u)
      /\ << >> \in Seq(Step) /\ Harmless(<< >>)
  <2>1. << >> \in Seq(Step)
    OBVIOUS
  <2>2. Harmless(<< >>) /\ Harmless(u)
    BY HarmlessParts
  <2>3. u \in Seq(Step)
    BY PartsLeft
  <2>4. QED
    BY <2>1, <2>2, <2>3
<1>1. p \in Seq(Step) /\ Harmless(p)
  <2>1. p = u \/ p = << >>
    BY DEF CompletedSteps
  <2>2. QED
    BY <1>0, <2>1
<1>2. q \in Seq(Step) /\ Harmless(q)
  <2>1. q = ConfirmSteps(o) \/ q = << >>
    OBVIOUS
  <2>2. QED
    BY <1>0, <2>1, ConfirmHarmless
<1>3. t \in Seq(Step) /\ Left(t) \subseteq Left(w)
  BY TailLeft
<1>4. AfterWrite(o, s, w) = (p \o q) \o t
  BY DEF AfterWrite
<1> HIDE DEF p, q, t
<1>5. p \o q \in Seq(Step) /\ Harmless(p \o q)
  BY <1>1, <1>2, HarmlessJoin
<1>6. Left(AfterWrite(o, s, w)) = Left(p \o q) \cup Left(t)
  BY <1>3, <1>4, <1>5, JoinLeft
<1>7. QED
  BY <1>3, <1>5, <1>6 DEF Harmless, Asking, Onward

\* What creating an order leaves to do, statement by statement.
LEMMA CreateIs ==
    ASSUME NEW o \in Nat
    PROVE  /\ StoreSteps(o) = <<Statement("count", o, "none"),
                                Statement("check", o, "submitted"),
                                Statement("write", o, "submitted"),
                                Statement("enqueue", o, "waybill")>>
           /\ RequestSteps(o) = <<Statement("enqueue", o, "request"),
                                  Statement("check", o, "submitted"),
                                  Statement("write", o, "submitted")>>
<1> DEFINE a == Statement("count", o, "none")
           b == Statement("check", o, "submitted")
           d == Statement("write", o, "submitted")
           e == Statement("enqueue", o, "waybill")
           f == Statement("enqueue", o, "request")
<1>1. /\ StoreSteps(o) = (<<a>> \o <<b, d>>) \o <<e>>
      /\ RequestSteps(o) = <<f>> \o <<b, d>>
  BY DEF StoreSteps, RequestSteps, TransitionOrder, Enqueue
<1>2. a \in Step /\ b \in Step /\ d \in Step /\ e \in Step /\ f \in Step
  BY StatementTyped DEF OrderStatus, MessageKind
<1> HIDE DEF a, b, d, e, f
<1>3. ASSUME NEW k \in Step PROVE <<k>> \o <<b, d>> = <<k, b, d>>
  <2> DEFINE p == <<k>> \o <<b, d>>
             q == <<k, b, d>>
  <2>1. /\ <<k>> \in Seq(Step) /\ Len(<<k>>) = 1 /\ <<k>>[1] = k
        /\ <<b, d>> \in Seq(Step) /\ Len(<<b, d>>) = 2
        /\ <<b, d>>[1] = b /\ <<b, d>>[2] = d
    BY <1>2
  <2>2. /\ p \in Seq(Step) /\ Len(p) = 1 + 2
        /\ \A i \in 1 .. 1 + 2 : p[i] = IF i <= 1 THEN <<k>>[i] ELSE <<b, d>>[i - 1]
    BY <2>1, ConcatProperties
  <2>3. q \in Seq(Step) /\ Len(q) = 3 /\ q[1] = k /\ q[2] = b /\ q[3] = d
    BY <1>2
  <2> HIDE DEF p, q
  <2>4. p[1] = k /\ p[2] = b /\ p[3] = d /\ Len(p) = 3
    BY <2>1, <2>2
  <2>5. \A i \in 1 .. Len(p) : p[i] = q[i]
    <3>1. \A i \in 1..3 : i = 1 \/ i = 2 \/ i = 3
      OBVIOUS
    <3>2. QED
      BY <2>3, <2>4, <3>1
  <2>6. p = q
    BY <2>2, <2>3, <2>4, <2>5, SeqEqual
  <2>7. QED
    BY <2>6 DEF p, q
<1>4. <<a, b, d>> \o <<e>> = <<a, b, d, e>>
  <2> DEFINE s == <<a, b, d>>
             p == s \o <<e>>
             q == <<a, b, d, e>>
  <2>1. /\ <<e>> \in Seq(Step) /\ Len(<<e>>) = 1 /\ <<e>>[1] = e
        /\ s \in Seq(Step) /\ Len(s) = 3 /\ s[1] = a /\ s[2] = b /\ s[3] = d
    BY <1>2
  <2> HIDE DEF s
  <2>2. /\ p \in Seq(Step) /\ Len(p) = 3 + 1
        /\ \A i \in 1 .. 3 + 1 : p[i] = IF i <= 3 THEN s[i] ELSE <<e>>[i - 3]
    BY <2>1, ConcatProperties
  <2>3. q \in Seq(Step) /\ Len(q) = 4 /\ q[1] = a /\ q[2] = b /\ q[3] = d /\ q[4] = e
    BY <1>2
  <2> HIDE DEF p, q
  <2>4. p[1] = a /\ p[2] = b /\ p[3] = d /\ p[4] = e /\ Len(p) = 4
    BY <2>1, <2>2
  <2>5. \A i \in 1 .. Len(p) : p[i] = q[i]
    <3>1. \A i \in 1..4 : i = 1 \/ i = 2 \/ i = 3 \/ i = 4
      OBVIOUS
    <3>2. QED
      BY <2>3, <2>4, <3>1
  <2>6. p = q
    BY <2>2, <2>3, <2>4, <2>5, SeqEqual
  <2>7. QED
    BY <2>6 DEF p, q, s
<1>5. QED
  BY <1>1, <1>2, <1>3, <1>4 DEF a, b, d, e, f

\* An order's creation is onward, too.
LEMMA CreateOnward ==
    ASSUME NEW o \in Nat, NEW type
    PROVE  Onward(CreateSteps(type, o))
<1> DEFINE a == <<Statement("count", o, "none")>>
           b == TransitionOrder(o, "submitted")
           d == Enqueue(o, "waybill")
           e == Enqueue(o, "request")
<1>1. "submitted" \in OrderStatus \ {"pending"} /\ {"waybill", "request"} \subseteq MessageKind
  BY DEF OrderStatus, MessageKind
<1>2. a \in Seq(Step) /\ b \in Seq(Step) /\ d \in Seq(Step) /\ e \in Seq(Step)
  BY <1>1, PartsLeft
<1>3. Onward(a) /\ Onward(b) /\ Onward(d) /\ Onward(e)
  BY <1>1, OnwardParts
<1>4. StoreSteps(o) = (a \o b) \o d /\ RequestSteps(o) = e \o b
  BY DEF StoreSteps, RequestSteps
<1> HIDE DEF a, b, d, e
<1>5. a \o b \in Seq(Step) /\ Onward(a \o b)
  BY <1>2, <1>3, OnwardJoin
<1>6. Onward(StoreSteps(o)) /\ Onward(RequestSteps(o))
  BY <1>2, <1>3, <1>4, <1>5, OnwardJoin
<1>7. QED
  BY <1>6 DEF CreateSteps

-----------------------------------------------------------------------------
(* The edge asks once, and first.                                          *)

\* What goroutine c has left before and after its statement on order o.
Ran(c, o, v, r) ==
    /\ v = work[c] /\ v \in Seq(Step) /\ r \in Seq(Step) /\ v # << >>
    /\ o = Owner(v) /\ o \in OrderIds /\ o \in Nat /\ Head(v) = v[1]
    /\ Program(v, o) /\ Program(r, o) /\ work' = [work EXCEPT ![c] = r]
    /\ Asking(r) => Asking(v)
    /\ Onward(v) => Onward(r)
    /\ v[1].do # "write" => r \in {<< >>, Tail(v)}

\* A statement adds no request to what is left.
LEMMA StatementRan ==
    ASSUME EdgeInv, NEW c \in Callers, Statements(c)
    PROVE  \E o, v, r : Ran(c, o, v, r)
<1>1. work[c] # << >>
  BY DEF Statements, Decide, WriteStatus, UpdateOrderFinalCount, EnqueueOutbox,
         ResetPayload, At
<1>2. PICK v, o : v = work[c] /\ o = Owner(v)
  OBVIOUS
<1>3. /\ v \in Seq(Step) /\ o \in OrderIds /\ o \in Nat /\ Head(v) = v[1]
      /\ Program(v, o) /\ Program(Tail(v), o) /\ Head(v).order = o
  BY <1>1, <1>2, HeadOf DEF EdgeInv, EdgeTypes
<1>4. Left(Tail(v)) \subseteq Left(v) /\ Tail(v) \in Seq(Step)
  BY <1>1, <1>2, <1>3, TailLeft DEF Program, Chain
<1>5. CASE \E r \in {<< >>, Tail(v)} : Goes(c, r)
  <2>1. PICK r \in {<< >>, Tail(v)} : work' = [work EXCEPT ![c] = r]
    BY <1>5 DEF Goes
  <2>2. Program(r, o) /\ r \in Seq(Step) /\ Left(r) \subseteq Left(v)
    BY <1>3, <1>4, <2>1, NothingLeft, FewLeft DEF Program, Chain
  <2>3. Ran(c, o, v, r)
    BY <1>1, <1>2, <1>3, <2>1, <2>2 DEF Ran, Asking, Onward
  <2>4. QED
    BY <2>3
<1>6. CASE WriteStatus(c)
  <2>1. PICK s : s = v[1].arg
    OBVIOUS
  <2>2. v[1].do = "write" /\ Goes(c, AfterWrite(o, s, v))
    BY <1>2, <1>3, <1>6, <2>1 DEF WriteStatus, At, AfterWrite
  <2>3. PICK r : r = AfterWrite(o, s, v)
    OBVIOUS
  <2>4. Program(r, o)
    BY <1>1, <1>2, <1>3, <2>1, <2>2, <2>3, WriteGoes
  <2>5. (Asking(r) => Asking(v)) /\ (Onward(v) => Onward(r))
    BY <1>1, <1>2, <1>3, <2>3, WriteHarmless
  <2>6. Ran(c, o, v, r)
    BY <1>1, <1>2, <1>3, <2>2, <2>3, <2>4, <2>5 DEF Ran, Goes, Program, Chain
  <2>7. QED
    BY <2>6
<1>7. ASSUME Decide(c) PROVE \E r \in {<< >>, Tail(v)} : Goes(c, r)
  BY <1>2, <1>7 DEF Decide
<1>8. QED
  BY <1>2, <1>5, <1>6, <1>7 DEF Statements, UpdateOrderFinalCount, EnqueueOutbox, ResetPayload

\* What an edge does in the protocol; core answers what it was asked for.
EdgeMoves(c) ==
    \/ Statements(c)
    \/ c \in Webs /\ (WebCreate(c) \/ WebOperate(c))
    \/ /\ c = "reader"
       /\ \E o \in OrderIds, kind \in ReplyKind : Asked(o) /\ HandleReply(o, kind)

\* Those moves are among what an edge may do.
LEMMA MovesAct ==
    ASSUME NEW c \in Callers, EdgeMoves(c)
    PROVE  EdgeAction(c)
BY DEF EdgeMoves, EdgeAction, ReplyKind

\* A step writes the row of the order it is at.
LEMMA OtherRows ==
    ASSUME EdgeInv, NEW c \in Callers, EdgeAction(c), NEW o \in OrderIds,
           work[c] # << >> => Owner(work[c]) # o
    PROVE  o \in OrderIds' /\ orders'[o] = orders[o]
<1>1. orders \in Seq(OrderRow)
  BY DEF EdgeInv, EdgeTypes
<1>2. CASE UNCHANGED orders
  BY <1>2 DEF OrderIds
<1>3. CASE WriteStatus(c) \/ UpdateOrderFinalCount(c)
  <2>1. work[c] # << >>
    BY <1>3 DEF WriteStatus, UpdateOrderFinalCount, At
  <2>2. Head(work[c]).order # o /\ Head(work[c]).order \in OrderIds
    BY <2>1, HeadOf
  <2>3. PICK p, row : p \in OrderIds /\ p # o /\ orders' = [orders EXCEPT ![p] = row]
    <3>1. CASE WriteStatus(c)
      BY <2>2, <3>1 DEF WriteStatus
    <3>2. CASE UpdateOrderFinalCount(c)
      BY <2>2, <3>2 DEF UpdateOrderFinalCount
    <3>3. QED
      BY <1>3, <3>1, <3>2
  <2>4. QED
    BY <1>1, <2>3 DEF OrderIds
<1>4. CASE \E row : orders' = Append(orders, row)
  BY <1>1, <1>4 DEF OrderIds
<1>5. \/ UNCHANGED orders \/ WriteStatus(c) \/ UpdateOrderFinalCount(c)
      \/ \E row : orders' = Append(orders, row)
  BY DEF EdgeAction, Statements, Decide, EnqueueOutbox, ResetPayload, WebCreate,
         WebOperate, HandleReply, CreateOrder
<1>6. QED
  BY <1>2, <1>3, <1>4, <1>5

\* What a step adds to the outbox of the edge.
Adds(c, n) ==
    /\ Len(sent) = n /\ n \in Nat /\ DOMAIN sent = 1..n
    /\ \A i \in 1..n : sent'[i] = sent[i]
    /\ \/ DOMAIN sent' = 1..n /\ ~EnqueueOutbox(c) /\ UNCHANGED sent
       \/ /\ DOMAIN sent' = 1 .. n + 1 /\ Len(sent') = n + 1 /\ EnqueueOutbox(c)
          /\ work[c] # << >> /\ n < MaxSent /\ work[c][1].do = "enqueue"
          /\ sent'[n + 1] = [order |-> Owner(work[c]), kind |-> work[c][1].arg]

\* A step adds the message at the head of what is left, or none.
LEMMA StepAdds ==
    ASSUME EdgeInv, NEW c \in Callers, EdgeAction(c)
    PROVE  \E n : Adds(c, n)
<1>1. PICK n : n = Len(sent)
  OBVIOUS
<1>2. sent \in Seq([order : Nat, kind : MessageKind]) /\ n \in Nat /\ DOMAIN sent = 1..n
  BY <1>1 DEF EdgeInv, EdgeTypes
<1>3. CASE EnqueueOutbox(c)
  <2>1. work[c] # << >> /\ n < MaxSent /\ Head(work[c]).do = "enqueue"
    BY <1>1, <1>3 DEF EnqueueOutbox, At
  <2>2. /\ Head(work[c]) = work[c][1] /\ Head(work[c]).order = Owner(work[c])
        /\ work[c][1] \in Step
    BY <2>1, HeadOf
  <2>3. PICK m : /\ m = [order |-> Owner(work[c]), kind |-> work[c][1].arg]
                 /\ sent' = Append(sent, m)
    BY <1>3, <2>2 DEF EnqueueOutbox
  <2>4. /\ DOMAIN sent' = 1 .. n + 1 /\ Len(sent') = n + 1 /\ sent'[n + 1] = m
        /\ \A i \in 1..n : sent'[i] = sent[i]
    BY <1>1, <1>2, <2>3
  <2>5. Adds(c, n)
    BY <1>1, <1>2, <1>3, <2>1, <2>2, <2>3, <2>4 DEF Adds
  <2>6. QED
    BY <2>5
<1>4. CASE ~EnqueueOutbox(c)
  <2>1. UNCHANGED sent
    BY <1>4 DEF EdgeAction, Statements, Decide, WriteStatus, UpdateOrderFinalCount,
                ResetPayload, WebCreate, WebOperate, HandleReply, CreateOrder
  <2>2. Adds(c, n)
    BY <1>1, <1>2, <1>4, <2>1 DEF Adds
  <2>3. QED
    BY <2>2
<1>5. QED
  BY <1>3, <1>4

\* What was asked for stays so.
LEMMA AskedStays ==
    ASSUME EdgeInv, NEW c \in Callers, EdgeAction(c)
    PROVE  \A o : Asked(o) => Asked(o)'
BY SaidKept DEF Asked

\* Whoever moves has, of an order already asked for, at most a submission that
\* fails left.
LEMMA MovesResubmit ==
    ASSUME EdgeInv, EdgeInv', NEW c \in Callers, EdgeMoves(c), NEW o \in OrderIds,
           AskedOnce(o), work'[c] # << >>, Owner(work'[c]) = o, Asking(work'[c])
    PROVE  Resubmits(work'[c], o)
<1>1. work \in [Callers -> Seq(Step)] /\ orders \in Seq(OrderRow)
  BY DEF EdgeInv, EdgeTypes
<1>2. CASE Statements(c)
  <2>1. PICK p, v, r : Ran(c, p, v, r)
    BY <1>2, StatementRan
  <2>2. work'[c] = r /\ r # << >> /\ Asking(r)
    BY <1>1, <2>1 DEF Ran
  <2>3. r[1].order = p
    BY <2>1, <2>2, EmptySeq DEF Ran, Program, Chain
  <2>4. p = o
    BY <2>2, <2>3 DEF Owner
  <2>5. Asking(v) /\ Resubmits(v, o)
    BY <2>1, <2>2, <2>4 DEF Ran, AskedOnce
  <2>6. v[1].do = "check" /\ v[1].arg = "submitted" /\ orders[o].type = "store"
    BY <2>5 DEF Resubmits
  <2>7. Decide(c)
    BY <1>2, <2>1, <2>6 DEF Ran, Statements, WriteStatus, UpdateOrderFinalCount,
                            EnqueueOutbox, ResetPayload, At
  <2>8. IsValidTransition(orders[o].status, "submitted") \/ r = << >>
    <3>1. v = work[c] /\ Head(v) = v[1] /\ v[1].order = o
      BY <2>1, <2>4 DEF Ran, Owner
    <3>2. \/ IsValidTransition(orders[o].status, "submitted")
          \/ Goes(c, << >>)
      BY <2>6, <2>7, <3>1 DEF Decide, At
    <3>3. QED
      BY <1>1, <2>2, <3>2 DEF Goes
  <2>9. orders[o].status = "pending"
    BY <2>2, <2>8 DEF IsValidTransition
  <2>10. QED
    BY <2>6, <2>9 DEF AskedOnce
<1>3. CASE WebCreate(c)
  <2>1. PICK type, slot, auto : CreateOrder(c, type, slot, auto)
    BY <1>3 DEF WebCreate
  <2>2. PICK p : p = Len(orders) + 1
    OBVIOUS
  <2>3. p \in Nat /\ p \notin OrderIds
    BY <1>1, <2>2 DEF OrderIds
  <2>4. work'[c] = CreateSteps(type, p)
    BY <1>1, <2>1, <2>2 DEF CreateOrder, CreateSteps, Goes
  <2>5. work'[c][1].order = p
    <3>1. PICK w : w = work'[c]
      OBVIOUS
    <3>2. \/ w[1] = Statement("enqueue", p, "request")
          \/ w[1] = Statement("count", p, "none")
      BY <2>3, <2>4, <3>1, CreateBegins
    <3>3. w[1].order = p
      BY <3>2, Fields
    <3>4. QED
      BY <3>1, <3>3
  <2>6. QED
    BY <2>3, <2>5 DEF Owner
<1>4. CASE WebOperate(c)
  <2>1. PICK command \in {"submit", "abort", "redirect", "confirm", "count"}, p \in OrderIds :
             Goes(c, OrderSteps(command, p)) /\ UNCHANGED orders
    BY <1>4 DEF WebOperate
  <2>2. PICK w : w = OrderSteps(command, p)
    OBVIOUS
  <2>3. work'[c] = w /\ p \in Nat
    BY <1>1, <2>1, <2>2 DEF Goes, OrderIds
  <2>4. Program(w, p)
    BY <2>1, <2>2, <2>3, CommandBegins DEF Begins
  <2>5. p = o
    BY <2>3, <2>4, EmptySeq DEF Owner, Program, Chain
  <2>6. Asking(w) => Resubmits(w, p)
    BY <2>1, <2>2, <2>3, CommandHarmless
  <2>7. QED
    BY <2>3, <2>5, <2>6
<1>5. CASE \E p \in OrderIds, kind \in ReplyKind : c = "reader" /\ HandleReply(p, kind)
  <2>1. PICK p \in OrderIds, kind \in ReplyKind : c = "reader" /\ HandleReply(p, kind)
    BY <1>5
  <2>2. work'[c] = HandleDispatchReply(p, kind) /\ p \in Nat
    BY <1>1, <2>1 DEF HandleReply, Goes, OrderIds
  <2>3. ~Asking(work'[c])
    BY <2>2, ReplyHarmless DEF Harmless
  <2>4. QED
    BY <2>3
<1>6. QED
  BY <1>2, <1>3, <1>4, <1>5 DEF EdgeMoves

\* An order core was asked for once is not asked for again.
LEMMA AskedOnceStep ==
    ASSUME EdgeInv, EdgeInv', NEW c \in Callers, EdgeMoves(c), Onward(work[c]),
           NEW o \in OrderIds, AskedOnce(o)
    PROVE  AskedOnce(o)'
<1>1. EdgeAction(c)
  BY MovesAct
<1>2. o \in OrderIds' /\ orders'[o].type = orders[o].type
  BY <1>1, RowsKept DEF Kept
<1>3. PICK n : Adds(c, n)
  BY <1>1, StepAdds
<1>4. AskedFirst(o)'
  <2>1. CASE UNCHANGED sent
    BY <2>1 DEF AskedOnce, AskedFirst
  <2>2. CASE EnqueueOutbox(c) /\ Owner(work[c]) = o
    <3>1. /\ work[c] # << >> /\ work[c][1].do = "enqueue" /\ DOMAIN sent' = 1 .. n + 1
          /\ sent'[n + 1].kind = work[c][1].arg
      BY <1>3, <2>2 DEF Adds
    <3>2. work[c] \in Seq(Step)
      BY DEF EdgeInv, EdgeTypes
    <3>3. work[c][1] \in Left(work[c])
      BY <3>1, <3>2, HeadLeft
    <3>4. sent'[n + 1].kind \notin Requests
      BY <2>2, <3>1, <3>3 DEF AskedOnce, Asking, Resubmits
    <3>5. \A i \in 1 .. n + 1 : i \in 1..n \/ i = n + 1
      BY <1>3 DEF Adds
    <3>6. \A i \in 1..n, j \in 1..n :
             sent[i].order = o /\ sent[j].order = o /\ sent[i].kind \in Requests => i <= j
      BY <1>3 DEF Adds, AskedOnce, AskedFirst
    <3>7. \A i \in 1..n : sent'[i] = sent[i] /\ i <= n + 1
      BY <1>3 DEF Adds
    <3>8. QED
      BY <3>1, <3>4, <3>5, <3>6, <3>7 DEF AskedFirst
  <2>3. CASE EnqueueOutbox(c) /\ Owner(work[c]) # o
    <3>1. DOMAIN sent' = 1 .. n + 1 /\ sent'[n + 1].order # o
      BY <1>3, <2>3 DEF Adds
    <3>2. \A i \in 1 .. n + 1 : i \in 1..n \/ i = n + 1
      BY <1>3 DEF Adds
    <3>3. \A i \in 1..n, j \in 1..n :
             sent[i].order = o /\ sent[j].order = o /\ sent[i].kind \in Requests => i <= j
      BY <1>3 DEF Adds, AskedOnce, AskedFirst
    <3>4. \A i \in 1..n : sent'[i] = sent[i]
      BY <1>3 DEF Adds
    <3>5. QED
      BY <3>1, <3>2, <3>3, <3>4 DEF AskedFirst
  <2>4. QED
    BY <1>3, <2>1, <2>2, <2>3 DEF Adds
<1>5. orders[o].type = "store" => orders'[o].status # "pending"
  <2>1. CASE orders'[o].status = orders[o].status
    BY <2>1 DEF AskedOnce
  <2>2. CASE /\ work[c] # << >> /\ work[c][1].do = "write"
             /\ orders'[o].status = work[c][1].arg
    <3>1. work[c][1] \in Left(work[c])
      BY <2>2, HeadLeft DEF EdgeInv, EdgeTypes
    <3>2. QED
      BY <2>2, <3>1 DEF Onward
  <2>3. QED
    BY <1>1, <2>1, <2>2, RowsKept
<1>6. ASSUME NEW d \in Callers, work'[d] # << >>, Owner(work'[d]) = o, Asking(work'[d])
      PROVE  Resubmits(work'[d], o)
  <2>1. CASE d = c
    BY <1>6, <2>1, MovesResubmit
  <2>2. CASE d # c
    <3>1. work'[d] = work[d]
      BY <1>1, <2>2, OthersWork
    <3>2. QED
      BY <1>6, <3>1 DEF AskedOnce
  <2>3. QED
    BY <2>1, <2>2
<1>7. QED
  BY <1>2, <1>4, <1>5, <1>6 DEF AskedOnce, Resubmits

\* Where nothing was said of an order, core was not asked for it.
LEMMA SilentUnasked ==
    ASSUME NEW o, Silent(o)
    PROVE  ~Asked(o)
BY DEF Silent, Asked, Said

\* What is said of other orders leaves an order silent.
LEMMA SilentStays ==
    ASSUME NEW c, NEW n, Adds(c, n), NEW o, Silent(o),
           EnqueueOutbox(c) => Owner(work[c]) # o
    PROVE  Silent(o)'
<1>1. SUFFICES ASSUME NEW i \in DOMAIN sent' PROVE sent'[i].order # o
  BY DEF Silent
<1>2. CASE i \in 1..n
  BY <1>2 DEF Adds, Silent
<1>3. CASE i \notin 1..n
  <2>1. n \in Nat
    BY DEF Adds
  <2>2. i = n + 1 /\ EnqueueOutbox(c)
    BY <1>1, <1>3, <2>1 DEF Adds
  <2>3. sent'[n + 1].order = Owner(work[c])
    BY <1>1, <1>3, <2>2 DEF Adds
  <2>4. QED
    BY <2>2, <2>3
<1>4. QED
  BY <1>2, <1>3

\* The first message of an order asks core for it.
LEMMA AskedNow ==
    ASSUME NEW c, NEW n, Adds(c, n), NEW o, Silent(o), EnqueueOutbox(c),
           Owner(work[c]) = o, work[c][1].arg \in Requests
    PROVE  Asked(o)' /\ AskedFirst(o)'
<1>1. /\ n \in Nat /\ DOMAIN sent = 1..n /\ DOMAIN sent' = 1 .. n + 1
      /\ sent'[n + 1] = [order |-> o, kind |-> work[c][1].arg]
      /\ \A i \in 1..n : sent'[i] = sent[i]
  BY DEF Adds
<1>2. n + 1 \in DOMAIN sent'
  BY <1>1
<1>3. Asked(o)'
  BY <1>1, <1>2 DEF Asked, Said
<1>4. \A i \in DOMAIN sent' : sent'[i].order = o => i = n + 1
  <2>1. \A i \in 1 .. n + 1 : i \in 1..n \/ i = n + 1
    BY <1>1
  <2>2. QED
    BY <1>1, <2>1 DEF Silent
<1>5. QED
  BY <1>1, <1>3, <1>4 DEF AskedFirst

\* The statements of a store order's creation.
Step1(o) == Statement("count", o, "none")
Step2(o) == Statement("check", o, "submitted")
Step3(o) == Statement("write", o, "submitted")
Step4(o) == Statement("enqueue", o, "waybill")

\* What an opener has left, case by case.
LEMMA OpeningIs ==
    ASSUME NEW o \in Nat, NEW w, NEW row, Opening(w, o, row)
    PROVE  /\ w # << >> /\ Owner(w) = o
           /\ \/ /\ row.type # "store" /\ Head(w) = Statement("enqueue", o, "request")
                 /\ ~Asking(Tail(w)) /\ w[1] = Head(w)
              \/ /\ row.type = "store" /\ row.status = "pending" /\ w = StoreSteps(o)
                 /\ Head(w) = Step1(o)
              \/ /\ row.type = "store" /\ row.status = "pending" /\ row.counted
                 /\ w = Tail(StoreSteps(o)) /\ Head(w) = Step2(o)
              \/ /\ row.type = "store" /\ row.status = "pending" /\ row.counted
                 /\ w = Tail(Tail(StoreSteps(o))) /\ Head(w) = Step3(o)
              \/ /\ row.type = "store" /\ row.status = "submitted"
                 /\ Head(w) = Step4(o) /\ ~Asking(Tail(w)) /\ w[1] = Head(w)
<1> DEFINE a == Step1(o)
           b == Step2(o)
           d == Step3(o)
           e == Step4(o)
           f == Statement("enqueue", o, "request")
<1>1. StoreSteps(o) = <<a, b, d, e>> /\ RequestSteps(o) = <<f, b, d>>
  BY CreateIs DEF Step1, Step2, Step3, Step4
<1>2. a.order = o /\ b.order = o /\ d.order = o /\ e.order = o /\ f.order = o
  BY DEF Step1, Step2, Step3, Step4, Statement
<1>3. ~Asking(<<b, d>>)
  <2>1. b.do # "enqueue" /\ d.do # "enqueue"
    BY DEF Step2, Step3, Statement
  <2>2. QED
    BY <2>1, FewLeft DEF Asking
<1>4. ~Asking(<< >>)
  BY FewLeft DEF Asking
<1> HIDE DEF a, b, d, e, f
<1>5. /\ Tail(<<a, b, d, e>>) = <<b, d, e>> /\ Tail(<<b, d, e>>) = <<d, e>>
      /\ Tail(<<d, e>>) = <<e>> /\ Tail(<<e>>) = << >> /\ Tail(<<f, b, d>>) = <<b, d>>
  OBVIOUS
<1>6. CASE row.type # "store"
  <2>1. w = <<f, b, d>>
    BY <1>1, <1>6 DEF Opening
  <2>2. w # << >> /\ w[1] = f /\ Head(w) = f /\ Tail(w) = <<b, d>>
    BY <2>1
  <2>3. QED
    BY <1>2, <1>3, <1>6, <2>2 DEF Owner, f
<1>7. CASE row.type = "store" /\ row.status = "pending" /\ w = StoreSteps(o)
  <2>1. w # << >> /\ w[1] = a /\ Head(w) = a
    BY <1>1, <1>7
  <2>2. QED
    BY <1>2, <1>7, <2>1 DEF Owner, a
<1>8. CASE row.type = "store" /\ row.status = "pending" /\ row.counted /\ w = Tail(StoreSteps(o))
  <2>1. w # << >> /\ w[1] = b /\ Head(w) = b
    BY <1>1, <1>5, <1>8
  <2>2. QED
    BY <1>2, <1>8, <2>1 DEF Owner, b
<1>9. CASE /\ row.type = "store" /\ row.status = "pending" /\ row.counted
           /\ w = Tail(Tail(StoreSteps(o)))
  <2>1. w # << >> /\ w[1] = d /\ Head(w) = d
    BY <1>1, <1>5, <1>9
  <2>2. QED
    BY <1>2, <1>9, <2>1 DEF Owner, d
<1>10. CASE /\ row.type = "store" /\ row.status = "submitted"
            /\ w = Tail(Tail(Tail(StoreSteps(o))))
  <2>1. w = <<e>>
    BY <1>1, <1>5, <1>10
  <2>2. w # << >> /\ w[1] = e /\ Head(w) = e /\ Tail(w) = << >>
    BY <1>5, <2>1
  <2>3. QED
    BY <1>2, <1>4, <1>10, <2>2 DEF Owner, e
<1>11. QED
  BY <1>6, <1>7, <1>8, <1>9, <1>10 DEF Opening

\* The opener's statements take it to the request.
LEMMA OpenerStep ==
    ASSUME EdgeInv, EdgeInv', NEW c \in Callers, c \in Webs, Statements(c),
           NEW o \in OrderIds, Silent(o), Opener(c, o)
    PROVE  Opened(o)'
<1>1. PICK w, row : w = work[c] /\ row = orders[o]
  OBVIOUS
<1>2. /\ work \in [Callers -> Seq(Step)] /\ orders \in Seq(OrderRow) /\ o \in Nat
      /\ row \in OrderRow
  BY <1>1 DEF EdgeInv, EdgeTypes, OrderIds
<1>3. Opening(w, o, row)
  BY <1>1 DEF Opener
<1>4. w # << >> /\ Owner(w) = o /\ Head(w) = w[1] /\ EdgeAction(c)
  BY <1>1, <1>2, <1>3, OpeningIs, HeadOf DEF EdgeAction
<1>5. PICK n : Adds(c, n)
  BY <1>4, StepAdds
<1>6. /\ o \in OrderIds' /\ orders'[o].type = row.type
      /\ \A d \in Callers \ {c} : work'[d] # << >> => Owner(work'[d]) # o
  BY <1>1, <1>4, RowsKept, OthersWork DEF Kept, Opener
<1>7. ASSUME Head(w).do = "enqueue", Head(w).arg \in Requests, ~Asking(Tail(w)),
             row.type = "store" => row.status # "pending"
      PROVE  Opened(o)'
  <2>1. EnqueueOutbox(c) /\ UNCHANGED orders /\ work' = [work EXCEPT ![c] = Tail(w)]
    BY <1>1, <1>7 DEF Statements, Decide, WriteStatus, UpdateOrderFinalCount, EnqueueOutbox,
                      ResetPayload, At, Goes
  <2>2. Asked(o)' /\ AskedFirst(o)'
    BY <1>1, <1>4, <1>5, <1>7, <2>1, AskedNow
  <2>3. ASSUME NEW d \in Callers, work'[d] # << >>, Owner(work'[d]) = o
        PROVE  ~Asking(work'[d])
    <3>1. d = c
      BY <1>6, <2>3
    <3>2. work'[c] = Tail(w)
      BY <1>2, <2>1
    <3>3. QED
      BY <1>7, <3>1, <3>2
  <2>4. orders'[o].type = "store" => orders'[o].status # "pending"
    BY <1>1, <1>7, <2>1
  <2>5. AskedOnce(o)'
    BY <2>2, <2>3, <2>4 DEF AskedOnce
  <2>6. QED
    BY <2>2, <2>5 DEF Opened
<1>8. ASSUME Head(w).do # "enqueue", Opening(work'[c], o, orders'[o])
      PROVE  Opened(o)'
  <2>1. ~EnqueueOutbox(c)
    BY <1>1, <1>8 DEF EnqueueOutbox, At
  <2>2. Silent(o)' /\ ~Asked(o)'
    <3>1. Silent(o)'
      BY <1>5, <2>1, SilentStays
    <3>2. ~Asked(o)'
      BY <3>1 DEF Silent, Asked, Said
    <3>3. QED
      BY <3>1, <3>2
  <2>3. Opener(c, o)'
    BY <1>6, <1>8 DEF Opener
  <2>4. QED
    BY <2>2, <2>3 DEF Opened, Unheard
<1>9. CASE row.type # "store" /\ Head(w) = Statement("enqueue", o, "request") /\ ~Asking(Tail(w))
  BY <1>7, <1>9 DEF Statement, Requests
<1>10. CASE /\ row.type = "store" /\ row.status = "submitted"
            /\ Head(w) = Step4(o) /\ ~Asking(Tail(w))
  BY <1>7, <1>10 DEF Statement, Requests, Step4
<1>11. CASE /\ row.type = "store" /\ row.status = "pending" /\ w = StoreSteps(o)
            /\ Head(w) = Step1(o)
  <2>1. Head(w).do = "count" /\ Head(w).order = o
    BY <1>11 DEF Step1, Statement
  <2>2. UpdateOrderFinalCount(c)
    BY <1>1, <2>1 DEF Statements, Decide, WriteStatus, UpdateOrderFinalCount, EnqueueOutbox,
                      ResetPayload, At
  <2>3. orders' = [orders EXCEPT ![o].counted = TRUE] /\ work' = [work EXCEPT ![c] = Tail(w)]
    BY <1>1, <2>1, <2>2 DEF UpdateOrderFinalCount, Goes
  <2>4. orders'[o].status = "pending" /\ orders'[o].counted /\ orders'[o].type = "store"
    <3>1. orders'[o] = [row EXCEPT !.counted = TRUE]
      BY <1>1, <1>2, <2>3 DEF OrderIds
    <3>2. /\ [row EXCEPT !.counted = TRUE].status = row.status
          /\ [row EXCEPT !.counted = TRUE].counted
      BY <1>2 DEF OrderRow
    <3>3. QED
      BY <1>6, <1>11, <3>1, <3>2
  <2>5. work'[c] = Tail(StoreSteps(o))
    BY <1>2, <1>11, <2>3
  <2>6. QED
    BY <1>8, <2>1, <2>4, <2>5 DEF Opening
<1>12. CASE /\ row.type = "store" /\ row.status = "pending" /\ row.counted
            /\ w = Tail(StoreSteps(o)) /\ Head(w) = Step2(o)
  <2>1. Head(w).do = "check" /\ Head(w).order = o /\ Head(w).arg = "submitted"
    <3>1. Head(w) = Step2(o)
      BY <1>12
    <3>2. QED
      BY <3>1, Fields DEF Step2
  <2>2. Decide(c)
    BY <1>1, <2>1 DEF Statements, Decide, WriteStatus, UpdateOrderFinalCount, EnqueueOutbox,
                      ResetPayload, At
  <2>3. IsValidTransition(row.status, "submitted")
    BY <1>12 DEF IsValidTransition
  <2>4. Goes(c, Tail(w)) /\ UNCHANGED orders
    BY <1>1, <1>12, <2>1, <2>2, <2>3 DEF Decide, At
  <2>5. work'[c] = Tail(Tail(StoreSteps(o)))
    BY <1>2, <1>12, <2>4 DEF Goes
  <2>6. QED
    BY <1>1, <1>8, <1>12, <2>1, <2>4, <2>5 DEF Opening
<1>13. CASE /\ row.type = "store" /\ row.status = "pending" /\ row.counted
            /\ w = Tail(Tail(StoreSteps(o))) /\ Head(w) = Step3(o)
  <2>1. Head(w).do = "write" /\ Head(w).order = o /\ Head(w).arg = "submitted"
    <3>1. Head(w) = Step3(o)
      BY <1>13
    <3>2. QED
      BY <3>1, Fields DEF Step3
  <2>2. WriteStatus(c)
    BY <1>1, <2>1 DEF Statements, Decide, WriteStatus, UpdateOrderFinalCount, EnqueueOutbox,
                      ResetPayload, At
  <2>3. /\ orders' = [orders EXCEPT ![o].status = "submitted"]
        /\ Goes(c, AfterWrite(o, "submitted", w))
    BY <1>1, <2>1, <2>2 DEF WriteStatus, AfterWrite
  <2>4. orders'[o].status = "submitted" /\ orders'[o].type = "store"
    <3>1. orders'[o] = [row EXCEPT !.status = "submitted"]
      BY <1>1, <1>2, <2>3 DEF OrderIds
    <3>2. [row EXCEPT !.status = "submitted"].status = "submitted"
      BY <1>2 DEF OrderRow
    <3>3. QED
      BY <1>6, <1>13, <3>1, <3>2
  <2>5. AfterWrite(o, "submitted", w) = Tail(w)
    <3>1. AfterWrite(o, "submitted", w) = (<< >> \o << >>) \o Tail(w)
      BY DEF AfterWrite, CompletedSteps, IsTerminal
    <3>2. Tail(w) \in Seq(Step) /\ << >> \in Seq(Step)
      BY <1>1, <1>2, <1>4
    <3>3. QED
      BY <3>1, <3>2, ConcatEmptySeq
  <2>6. work'[c] = Tail(Tail(Tail(StoreSteps(o))))
    BY <1>2, <1>13, <2>3, <2>5 DEF Goes
  <2>7. QED
    BY <1>8, <2>1, <2>4, <2>6 DEF Opening
<1>14. QED
  BY <1>2, <1>3, <1>9, <1>10, <1>11, <1>12, <1>13, OpeningIs

\* Whose order a goroutine works on after its step: the one it was at, a new
\* one, one that is free, or one that core was asked for.
LEMMA NewOwner ==
    ASSUME EdgeInv, NEW c \in Callers, EdgeMoves(c), NEW o \in OrderIds,
           work'[c] # << >>, Owner(work'[c]) = o
    PROVE  \/ work[c] # << >> /\ Owner(work[c]) = o
           \/ c \in Webs /\ MayStart(c, o)
           \/ Asked(o)
<1>1. work \in [Callers -> Seq(Step)] /\ orders \in Seq(OrderRow)
  BY DEF EdgeInv, EdgeTypes
<1>2. CASE Statements(c)
  <2>1. PICK p, v, r : Ran(c, p, v, r)
    BY <1>2, StatementRan
  <2>2. work'[c] = r /\ r # << >>
    BY <1>1, <2>1 DEF Ran
  <2>3. r[1].order = p
    BY <2>1, <2>2, EmptySeq DEF Ran, Program, Chain
  <2>4. p = o
    BY <2>2, <2>3 DEF Owner
  <2>5. QED
    BY <2>1, <2>4 DEF Ran
<1>3. CASE WebCreate(c)
  <2>1. PICK type, slot, auto : CreateOrder(c, type, slot, auto)
    BY <1>3 DEF WebCreate
  <2>2. PICK p : p = Len(orders) + 1
    OBVIOUS
  <2>3. p \in Nat /\ p \notin OrderIds
    BY <1>1, <2>2 DEF OrderIds
  <2>4. work'[c] = CreateSteps(type, p)
    BY <1>1, <2>1, <2>2 DEF CreateOrder, CreateSteps, Goes
  <2>5. work'[c][1].order = p
    <3>1. PICK w : w = CreateSteps(type, p)
      OBVIOUS
    <3>2. \/ w[1] = Statement("enqueue", p, "request")
          \/ w[1] = Statement("count", p, "none")
      BY <2>3, <3>1, CreateBegins
    <3>3. w[1].order = p
      BY <3>2, Fields
    <3>4. QED
      BY <2>4, <3>1, <3>3
  <2>6. QED
    BY <2>3, <2>5 DEF Owner
<1>4. CASE c \in Webs /\ WebOperate(c)
  <2>1. PICK command \in {"submit", "abort", "redirect", "confirm", "count"}, p \in OrderIds :
             MayStart(c, p) /\ Goes(c, OrderSteps(command, p))
    BY <1>4 DEF WebOperate
  <2>2. PICK w : w = OrderSteps(command, p)
    OBVIOUS
  <2>3. work'[c] = w /\ p \in Nat
    BY <1>1, <2>1, <2>2 DEF Goes, OrderIds
  <2>4. Program(w, p)
    BY <2>1, <2>2, <2>3, CommandBegins DEF Begins
  <2>5. p = o
    BY <2>3, <2>4, EmptySeq DEF Owner, Program, Chain
  <2>6. QED
    BY <1>4, <2>1, <2>5
<1>5. CASE \E p \in OrderIds, kind \in ReplyKind : Asked(p) /\ HandleReply(p, kind) /\ c = "reader"
  <2>1. PICK p \in OrderIds, kind \in ReplyKind :
             Asked(p) /\ HandleReply(p, kind) /\ c = "reader"
    BY <1>5
  <2>2. PICK w : w = HandleDispatchReply(p, kind)
    OBVIOUS
  <2>3. work'[c] = w /\ p \in Nat
    BY <1>1, <2>1, <2>2 DEF HandleReply, Goes, OrderIds
  <2>4. Program(w, p)
    BY <2>1, <2>2, <2>3, ReplyBegins DEF Begins, ReplyKind
  <2>5. p = o
    BY <2>3, <2>4, EmptySeq DEF Owner, Program, Chain
  <2>6. QED
    BY <2>1, <2>5
<1>6. QED
  BY <1>2, <1>3, <1>4, <1>5 DEF EdgeMoves

\* Of an order nobody was asked for, its opener alone can speak.
LEMMA UnheardStep ==
    ASSUME EdgeInv, EdgeInv', InTurn, NEW c \in Callers, EdgeMoves(c),
           NEW o \in OrderIds, Unheard(o)
    PROVE  Opened(o)'
<1>1. EdgeAction(c)
  BY MovesAct
<1>2. PICK k \in Webs : Opener(k, o)
  BY DEF Unheard
<1>3. k \in Callers /\ Silent(o) /\ ~Asked(o) /\ o \in Nat
  BY EdgeAssumption, SilentUnasked DEF Unheard, EdgeInv, EdgeTypes, OrderIds
<1>4. work[k] # << >> /\ Owner(work[k]) = o /\ work[k][1].order = o
  <2>1. Opening(work[k], o, orders[o])
    BY <1>2 DEF Opener
  <2>2. QED
    BY <1>3, <2>1, OpeningIs DEF Owner
<1>5. CASE c = k
  <2>1. Statements(c)
    BY <1>4, <1>5 DEF EdgeMoves, WebCreate, WebOperate, HandleReply, CreateOrder, MayStart
  <2>2. QED
    BY <1>2, <1>3, <1>5, <2>1, OpenerStep
<1>6. CASE c # k
  <2>1. work[c] # << >> => Owner(work[c]) # o
    BY <1>2, <1>6 DEF Opener
  <2>2. o \in OrderIds' /\ orders'[o] = orders[o] /\ work'[k] = work[k]
    BY <1>1, <1>3, <1>6, <2>1, OtherRows, OthersWork
  <2>3. Silent(o)'
    <3>1. PICK n : Adds(c, n)
      BY <1>1, StepAdds
    <3>2. EnqueueOutbox(c) => Owner(work[c]) # o
      BY <2>1 DEF EnqueueOutbox, At
    <3>3. QED
      BY <1>3, <3>1, <3>2, SilentStays
  <2>4. ~Asked(o)'
    BY <2>3 DEF Silent, Asked, Said
  <2>5. ASSUME NEW d \in Callers \ {k}, work'[d] # << >> PROVE Owner(work'[d]) # o
    <3>1. CASE d # c
      <4>1. work'[d] = work[d]
        BY <1>1, <3>1, OthersWork
      <4>2. QED
        BY <1>2, <2>5, <4>1 DEF Opener
    <3>2. CASE d = c
      <4>1. SUFFICES ASSUME Owner(work'[c]) = o PROVE FALSE
        BY <3>2
      <4>2. c \in Webs /\ MayStart(c, o)
        BY <1>3, <2>1, <2>5, <3>2, <4>1, NewOwner
      <4>3. Busy(o)
        <5>1. 1 \in DOMAIN work[k]
          BY <1>3, <1>4, EmptySeq DEF EdgeInv, EdgeTypes
        <5>2. QED
          BY <1>3, <1>4, <5>1 DEF Busy
      <4>4. QED
        BY <1>6, <4>2, <4>3 DEF InTurn, MayStart
    <3>3. QED
      BY <3>1, <3>2
  <2>6. Opener(k, o)'
    BY <1>2, <2>2, <2>5 DEF Opener, Opening
  <2>7. QED
    BY <2>3, <2>4, <2>6 DEF Opened, Unheard
<1>7. QED
  BY <1>5, <1>6

\* A new order is with its opener.
LEMMA NewOpened ==
    ASSUME EdgeInv, EdgeInv', NEW c \in Callers, EdgeMoves(c),
           NEW o \in OrderIds', o \notin OrderIds
    PROVE  Opened(o)'
<1>1. /\ orders \in Seq(OrderRow) /\ work \in [Callers -> Seq(Step)]
      /\ \A i \in DOMAIN sent : sent[i].order \in OrderIds
  BY DEF EdgeInv, EdgeTypes
<1>2. c \in Webs /\ WebCreate(c)
  <2>1. CASE Statements(c)
    <3>1. UNCHANGED orders \/ WriteStatus(c) \/ UpdateOrderFinalCount(c)
      BY <2>1 DEF Statements, Decide, EnqueueOutbox, ResetPayload
    <3>2. WriteStatus(c) \/ UpdateOrderFinalCount(c) => DOMAIN orders' = DOMAIN orders
      BY <1>1 DEF WriteStatus, UpdateOrderFinalCount
    <3>3. QED
      BY <3>1, <3>2 DEF OrderIds
  <2>2. CASE WebOperate(c) \/ \E p \in OrderIds, kind \in ReplyKind : HandleReply(p, kind)
    BY <2>2 DEF WebOperate, HandleReply, OrderIds
  <2>3. QED
    BY <2>1, <2>2 DEF EdgeMoves
<1>3. PICK type, slot, auto : CreateOrder(c, type, slot, auto)
  BY <1>2 DEF WebCreate
<1>4. PICK row : row = NewOrder(type, slot, auto)
  OBVIOUS
<1>5. orders' = Append(orders, row) /\ UNCHANGED sent /\ row.type = type /\ row.status = "pending"
  BY <1>3, <1>4 DEF CreateOrder, NewOrder
<1>6. o = Len(orders) + 1 /\ orders'[o] = row /\ o \in Nat
  BY <1>1, <1>5 DEF OrderIds
<1>7. work'[c] = CreateSteps(type, o)
  <2>1. Goes(c, CreateSteps(type, Len(orders) + 1))
    BY <1>3 DEF CreateOrder, CreateSteps
  <2>2. QED
    BY <1>1, <1>6, <2>1 DEF Goes
<1>8. Silent(o)'
  BY <1>1, <1>5 DEF Silent
<1>9. ~Asked(o)'
  BY <1>8 DEF Silent, Asked, Said
<1>10. ASSUME NEW d \in Callers \ {c}, work'[d] # << >> PROVE Owner(work'[d]) # o
  <2>1. EdgeAction(c)
    BY MovesAct
  <2>2. work'[d] = work[d]
    BY <2>1, OthersWork
  <2>3. Owner(work[d]) \in OrderIds
    BY <1>10, <2>2, HeadOf
  <2>4. QED
    BY <2>2, <2>3
<1>11. Opening(work[c], o, orders[o])'
  BY <1>5, <1>6, <1>7 DEF Opening, CreateSteps
<1>12. Opener(c, o)'
  BY <1>10, <1>11 DEF Opener
<1>13. QED
  BY <1>2, <1>8, <1>9, <1>12 DEF Opened, Unheard

\* Whatever the edge does, what is left takes no order back.
LEMMA OnwardStep ==
    ASSUME EdgeInv, NEW c \in Callers, EdgeMoves(c), \A d \in Callers : Onward(work[d])
    PROVE  \A d \in Callers : Onward(work'[d])
<1>1. work \in [Callers -> Seq(Step)] /\ orders \in Seq(OrderRow) /\ EdgeAction(c)
  BY MovesAct DEF EdgeInv, EdgeTypes
<1>2. CASE Statements(c)
  <2>1. PICK p, v, r : Ran(c, p, v, r)
    BY <1>2, StatementRan
  <2>2. work'[c] = r /\ Onward(r)
    BY <1>1, <2>1 DEF Ran
  <2>3. QED
    BY <1>1, <2>2, OthersWork
<1>3. CASE WebCreate(c)
  <2>1. PICK type, slot, auto : CreateOrder(c, type, slot, auto)
    BY <1>3 DEF WebCreate
  <2>2. PICK p : p = Len(orders) + 1
    OBVIOUS
  <2>3. p \in Nat
    BY <1>1, <2>2
  <2>4. work'[c] = CreateSteps(type, p)
    BY <1>1, <2>1, <2>2 DEF CreateOrder, CreateSteps, Goes
  <2>5. Onward(work'[c])
    BY <2>3, <2>4, CreateOnward
  <2>6. QED
    BY <1>1, <2>5, OthersWork
<1>4. CASE WebOperate(c)
  <2>1. PICK command \in {"submit", "abort", "redirect", "confirm", "count"}, p \in OrderIds :
             Goes(c, OrderSteps(command, p))
    BY <1>4 DEF WebOperate
  <2>2. PICK w : w = OrderSteps(command, p)
    OBVIOUS
  <2>3. work'[c] = w /\ p \in Nat
    BY <1>1, <2>1, <2>2 DEF Goes, OrderIds
  <2>4. Onward(w)
    BY <2>1, <2>2, <2>3, CommandHarmless
  <2>5. QED
    BY <1>1, <2>3, <2>4, OthersWork
<1>5. CASE \E p \in OrderIds, kind \in ReplyKind : c = "reader" /\ HandleReply(p, kind)
  <2>1. PICK p \in OrderIds, kind \in ReplyKind : c = "reader" /\ HandleReply(p, kind)
    BY <1>5
  <2>2. work'[c] = HandleDispatchReply(p, kind) /\ p \in Nat
    BY <1>1, <2>1 DEF HandleReply, Goes, OrderIds
  <2>3. Onward(work'[c])
    BY <2>2, ReplyHarmless DEF Harmless
  <2>4. QED
    BY <1>1, <2>3, OthersWork
<1>6. QED
  BY <1>2, <1>3, <1>4, <1>5 DEF EdgeMoves

\* Whatever the edge does, every order is asked for once and first.
LEMMA OpenedStep ==
    ASSUME EdgeInv, EdgeInv', InTurn, NEW c \in Callers, EdgeMoves(c),
           \A d \in Callers : Onward(work[d]), \A p \in OrderIds : Opened(p),
           NEW o \in OrderIds'
    PROVE  Opened(o)'
<1>1. CASE o \notin OrderIds
  BY <1>1, NewOpened
<1>2. CASE o \in OrderIds /\ Asked(o)
  <2>1. AskedOnce(o)'
    BY <1>2, AskedOnceStep DEF Opened
  <2>2. Asked(o)'
    BY <1>2, MovesAct, AskedStays
  <2>3. QED
    BY <2>1, <2>2 DEF Opened
<1>3. CASE o \in OrderIds /\ ~Asked(o)
  <2>1. Unheard(o)
    BY <1>3 DEF Opened
  <2>2. QED
    BY <1>3, <2>1, UnheardStep
<1>4. QED
  BY <1>1, <1>2, <1>3

-----------------------------------------------------------------------------
(* Core has heard the request before anything else.                        *)

\* Where core has no newest row of an order, it has none.
LEMMA NewestNone ==
    ASSUME ProtocolInv, NEW o, Newest(o) = 0, NEW r \in DOMAIN coreOrders
    PROVE  coreOrders[r].order # o
<1>1. PICK rows : rows = {q \in DOMAIN coreOrders : coreOrders[q].order = o}
  OBVIOUS
<1>2. coreOrders \in Seq(CoreRow)
  BY CoreStays
<1>3. Len(coreOrders) \in Nat /\ rows \subseteq 1..Len(coreOrders)
  BY <1>1, <1>2
<1>4. ASSUME rows # {} PROVE FALSE
  <2>1. Newest(o) = CHOOSE q \in rows : \A p \in rows : p <= q
    BY <1>1, <1>4 DEF Newest
  <2>2. \E q \in rows : \A p \in rows : p <= q
    BY <1>3, <1>4, GreatestOf
  <2>3. Newest(o) \in rows
    BY <2>1, <2>2
  <2>4. QED
    BY <1>3, <2>3
<1>5. QED
  BY <1>1, <1>4

\* An order that core has a row of was asked for.
LEMMA RowAsked ==
    ASSUME ProtocolInv, NEW r \in DOMAIN coreOrders, InCore(coreOrders[r].order)
    PROVE  Asked(coreOrders[r].order)
<1>1. PICK o : o = coreOrders[r].order
  OBVIOUS
<1>2. PICK kind \in Requests : Has(o, kind)
  BY <1>1 DEF InCore
<1>3. PICK i \in read["edge"] : sent[i] = [order |-> o, kind |-> kind]
  BY <1>2 DEF Has
<1>4. i \in DOMAIN sent
  BY ChannelFacts DEF Rows, Outbox, Sides
<1>5. Said(o, kind)
  BY <1>3, <1>4 DEF Said
<1>6. QED
  BY <1>1, <1>2, <1>5 DEF Asked

\* An answer about an order that was asked for is heeded.
LEMMA HeededReply ==
    ASSUME ProtocolInv, Heeded, UNCHANGED sent, NEW o, Asked(o), NEW kind,
           replies' = Replied(o, kind)
    PROVE  Heeded'
<1>1. PICK m : m = [order |-> o, kind |-> kind]
  OBVIOUS
<1>2. replies' = Append(replies, m) /\ m.order = o
  BY <1>1 DEF Replied
<1>3. replies \in Seq(ReplyRow)
  BY CoreStays
<1>4. ASSUME NEW i \in DOMAIN replies' PROVE Asked(replies'[i].order)
  BY <1>2, <1>3 DEF Heeded
<1>5. QED
  BY <1>4 DEF Heeded, Asked, Said

\* A row of core's that is rewritten leaves its order sound where the robot
\* stands once the abort was read.
LEMMA RewriteInCore ==
    ASSUME ProtocolInv, UNCHANGED <<orders, sent>>, NEW r \in DOMAIN coreOrders, NEW m,
           NEW o, o = coreOrders[r].order, m.order = o,
           coreOrders' = [coreOrders EXCEPT ![r] = m],
           \A p, kind : Has(p, kind) => Has(p, kind)',
           \A p, kind : p # o /\ Has(p, kind)' => Has(p, kind),
           Has(o, "cancel")' /\ ~Said(o, "redirect") => Stands(m.robot),
           NEW p \in OrderIds, InCore(p)
    PROVE  InCore(p)'
<1>1. coreOrders \in Seq(CoreRow)
  BY CoreStays
<1>2. DOMAIN coreOrders' = DOMAIN coreOrders
      /\ \A q \in DOMAIN coreOrders : coreOrders'[q] = IF q = r THEN m ELSE coreOrders[q]
  BY <1>1
<1>3. \A q \in DOMAIN coreOrders : coreOrders'[q].order = coreOrders[q].order
  BY <1>2
<1>4. Said(p, "redirect")' <=> Said(p, "redirect")
  BY DEF Said
<1>5. \A q, s \in DOMAIN coreOrders : coreOrders[q].order = p /\ coreOrders[s].order = p => q = s
  BY DEF InCore
<1>6. \A q \in DOMAIN coreOrders : coreOrders[q].order = p => \E kind \in Requests : Has(p, kind)'
  BY DEF InCore
<1>7. ASSUME Has(p, "cancel")', ~Said(p, "redirect"), NEW q \in DOMAIN coreOrders,
             coreOrders[q].order = p
      PROVE  Stands(coreOrders'[q].robot)
  <2>1. CASE p = o
    <3>1. q = r
      BY <1>5, <1>7, <2>1
    <3>2. QED
      BY <1>2, <1>7, <2>1, <3>1
  <2>2. CASE p # o
    <3>1. Has(p, "cancel")
      BY <1>7, <2>2
    <3>2. q # r
      BY <1>7, <2>2
    <3>3. Stands(coreOrders[q].robot)
      BY <1>7, <3>1 DEF InCore
    <3>4. QED
      BY <1>2, <3>2, <3>3
  <2>3. QED
    BY <2>1, <2>2
<1>8. QED
  BY <1>2, <1>3, <1>4, <1>5, <1>6, <1>7 DEF InCore

\* A new row of core's, of an order that it has none of and whose abort it has
\* not read.
LEMMA CreateInCore ==
    ASSUME ProtocolInv, UNCHANGED <<orders, sent>>, NEW m, NEW o, m.order = o,
           coreOrders' = Append(coreOrders, m),
           \A p, kind : Has(p, kind) => Has(p, kind)',
           \A p, kind : p # o /\ Has(p, kind)' => Has(p, kind),
           \A r \in DOMAIN coreOrders : coreOrders[r].order # o,
           ~Has(o, "cancel")', \E kind \in Requests : Has(o, kind)',
           NEW p \in OrderIds, InCore(p)
    PROVE  InCore(p)'
<1>1. coreOrders \in Seq(CoreRow)
  BY CoreStays
<1>2. PICK n : n = Len(coreOrders) + 1
  OBVIOUS
<1>3. /\ DOMAIN coreOrders' = DOMAIN coreOrders \cup {n} /\ n \notin DOMAIN coreOrders
      /\ coreOrders'[n] = m /\ \A q \in DOMAIN coreOrders : coreOrders'[q] = coreOrders[q]
  BY <1>1, <1>2
<1>4. Said(p, "redirect")' <=> Said(p, "redirect")
  BY DEF Said
<1>5. CASE p = o
  <2>1. \A q \in DOMAIN coreOrders' : coreOrders'[q].order = p => q = n
    BY <1>3, <1>5
  <2>2. QED
    BY <1>5, <2>1 DEF InCore
<1>6. CASE p # o
  <2>1. \A q \in DOMAIN coreOrders' :
           coreOrders'[q].order = p => q \in DOMAIN coreOrders /\ coreOrders'[q] = coreOrders[q]
    BY <1>3, <1>6
  <2>2. \A q, s \in DOMAIN coreOrders' :
           coreOrders'[q].order = p /\ coreOrders'[s].order = p => q = s
    BY <2>1 DEF InCore
  <2>3. \A q \in DOMAIN coreOrders' :
           coreOrders'[q].order = p => \E kind \in Requests : Has(p, kind)'
    BY <2>1 DEF InCore
  <2>4. ASSUME Has(p, "cancel")', ~Said(p, "redirect"), NEW q \in DOMAIN coreOrders',
               coreOrders'[q].order = p
        PROVE  Stands(coreOrders'[q].robot)
    <3>1. Has(p, "cancel")
      BY <1>6, <2>4
    <3>2. QED
      BY <2>1, <2>4, <3>1 DEF InCore
  <2>5. QED
    BY <1>4, <2>2, <2>3, <2>4 DEF InCore
<1>7. QED
  BY <1>5, <1>6

\* Where core's rows stand, so does what is true of them, if what was read of
\* other orders is news to nobody.
LEMMA KeepInCore ==
    ASSUME ProtocolInv, UNCHANGED <<orders, sent, coreOrders>>,
           \A p, kind : Has(p, kind) => Has(p, kind)',
           NEW p \in OrderIds, InCore(p),
           \/ \A kind : Has(p, kind)' => Has(p, kind)
           \/ \A r \in DOMAIN coreOrders : coreOrders[r].order # p
    PROVE  InCore(p)'
<1>1. Said(p, "redirect")' <=> Said(p, "redirect")
  BY DEF Said
<1>2. CASE \A r \in DOMAIN coreOrders : coreOrders[r].order # p
  BY <1>2 DEF InCore
<1>3. CASE \A kind : Has(p, kind)' => Has(p, kind)
  BY <1>1, <1>3 DEF InCore
<1>4. QED
  BY <1>2, <1>3

-----------------------------------------------------------------------------
(* AbortInv is inductive.                                                  *)

\* What core has read of the edge, as it was sent.
LEMMA HasKept ==
    ASSUME ProtocolInv, \A i \in DOMAIN sent : sent'[i] = sent[i],
           read["edge"] \subseteq read'["edge"]
    PROVE  /\ \A p, kind : Has(p, kind) => Has(p, kind)'
           /\ read'["edge"] = read["edge"] => \A p, kind : Has(p, kind)' => Has(p, kind)
<1>1. read["edge"] \subseteq DOMAIN sent
  BY ChannelFacts DEF Rows, Outbox, Sides
<1>2. QED
  BY <1>1 DEF Has

\* A step of the edge keeps Sound.
LEMMA EdgeSound ==
    ASSUME ProtocolInv, EdgeInv', InTurn, Sound, NEW c \in Callers, EdgeMoves(c),
           UNCHANGED coreVars,
           drain'["edge"] = drain["edge"], posted'["edge"] = posted["edge"],
           read'["edge"] = read["edge"], topic'["edge"] = topic["edge"], UNCHANGED retries
    PROVE  Sound'
<1>1. EdgeInv /\ EdgeAction(c) /\ UNCHANGED <<coreOrders, replies>>
  BY MovesAct DEF ProtocolInv, coreVars
<1>2. PICK n : Adds(c, n)
  BY <1>1, StepAdds
<1>3. /\ n \in Nat /\ Len(sent) = n /\ DOMAIN sent = 1..n
      /\ \A i \in DOMAIN sent : sent'[i] = sent[i]
      /\ Len(sent') = n \/ (Len(sent') = n + 1 /\ n < MaxSent)
  BY <1>2 DEF Adds
<1>4. Fifo'
  BY <1>3, FifoStays DEF Sound
<1>5. NoRetries'
  BY <1>3, EdgeAssumption DEF Sound, NoRetries
<1>6. Heeded'
  <2>1. ASSUME NEW i \in DOMAIN replies PROVE Asked(replies[i].order)'
    <3>1. PICK p : p = replies[i].order
      OBVIOUS
    <3>2. Asked(p)
      BY <3>1 DEF Sound, Heeded
    <3>3. Asked(p)'
      BY <1>1, <3>2, AskedStays
    <3>4. QED
      BY <1>1, <3>1, <3>3 DEF Asked, Said
  <2>2. QED
    BY <1>1, <2>1 DEF Heeded
<1>7. \A d \in Callers : Onward(work'[d])
  BY <1>1, OnwardStep DEF Sound
<1>8. ASSUME NEW o \in OrderIds' PROVE Opened(o)'
  BY <1>1, <1>8, OpenedStep DEF Sound
<1>9. ASSUME NEW o \in OrderIds' PROVE InCore(o)'
  <2>1. /\ \A p, kind : Has(p, kind) => Has(p, kind)'
        /\ \A p, kind : Has(p, kind)' => Has(p, kind)
    BY <1>3, HasKept
  <2>2. CASE o \in OrderIds
    <3>1. InCore(o)
      BY <2>2 DEF Sound
    <3>2. Said(o, "redirect") => Said(o, "redirect")'
      BY <1>1, SaidKept
    <3>3. QED
      BY <1>1, <2>1, <3>1, <3>2 DEF InCore
  <2>3. CASE o \notin OrderIds
    <3>1. \A r \in DOMAIN coreOrders : coreOrders[r].order # o
      BY <2>3, CoreStays
    <3>2. QED
      BY <1>1, <3>1 DEF InCore
  <2>4. QED
    BY <2>2, <2>3
<1>10. QED
  BY <1>4, <1>5, <1>6, <1>7, <1>8, <1>9 DEF Sound

\* A step that leaves the edge alone keeps Sound if it does so in the channel
\* and in core.
LEMMA CoreSound ==
    ASSUME Sound, UNCHANGED edgeVars, UNCHANGED retries, Fifo', Heeded',
           \A o \in OrderIds : InCore(o)'
    PROVE  Sound'
<1>1. UNCHANGED <<orders, sent, work>>
  BY DEF edgeVars
<1>2. OrderIds' = OrderIds
  BY <1>1 DEF OrderIds
<1>3. NoRetries'
  BY <1>1 DEF Sound, NoRetries
<1>4. \A c \in Callers : Onward(work[c])'
  BY <1>1 DEF Sound, Onward, Left
<1>5. ASSUME NEW o \in OrderIds PROVE Opened(o)'
  <2>1. Opened(o)
    BY DEF Sound
  <2>2. (Asked(o)' <=> Asked(o)) /\ (Silent(o)' <=> Silent(o)) /\ (AskedFirst(o)' <=> AskedFirst(o))
    BY <1>1 DEF Asked, Said, Silent, AskedFirst
  <2>3. AskedOnce(o) => AskedOnce(o)'
    BY <1>1, <2>2 DEF AskedOnce, Resubmits
  <2>4. Unheard(o) => Unheard(o)'
    BY <1>1, <2>2 DEF Unheard, Opener, Opening
  <2>5. QED
    BY <2>1, <2>2, <2>3, <2>4 DEF Opened
<1>6. QED
  BY <1>2, <1>3, <1>4, <1>5 DEF Sound

\* A step of the channel keeps Sound.
LEMMA ChannelSound ==
    ASSUME ProtocolInv, Sound, UNCHANGED edgeVars, UNCHANGED coreVars, UNCHANGED retries,
           read'["edge"] = read["edge"], Fifo'
    PROVE  Sound'
<1>1. UNCHANGED <<orders, sent, work>> /\ UNCHANGED <<coreOrders, coreReader, replies>>
  BY DEF edgeVars, coreVars
<1>2. Heeded'
  BY <1>1 DEF Sound, Heeded, Asked, Said
<1>3. /\ \A p, kind : Has(p, kind) => Has(p, kind)'
      /\ \A p, kind : Has(p, kind)' => Has(p, kind)
  BY <1>1, HasKept
<1>4. \A o \in OrderIds : InCore(o)'
  BY <1>1, <1>3, KeepInCore DEF Sound
<1>5. QED
  BY <1>2, <1>4, CoreSound

\* The drainers keep Sound.
LEMMA DrainerSound ==
    ASSUME ProtocolInv, Sound, NEW side \in Sides,
           ListPendingOutbox(side) \/ PublishAndAck(side)
    PROVE  Sound'
<1>1. UNCHANGED <<edgeVars, coreVars>> /\ UNCHANGED retries /\ UNCHANGED read
  BY DEF ListPendingOutbox, PublishAndAck
<1>2. UNCHANGED sent /\ Len(sent) \in Nat
  BY <1>1 DEF edgeVars, ProtocolInv, EdgeInv, EdgeTypes
<1>3. Fifo'
  <2>1. CASE side = "edge"
    BY <2>1, ListFifo, AckFifo DEF Sound
  <2>2. CASE side # "edge"
    <3>1. /\ drain'["edge"] = drain["edge"] /\ posted'["edge"] = posted["edge"]
          /\ topic'["edge"] = topic["edge"]
      BY <2>2, ChannelFacts DEF ListPendingOutbox, PublishAndAck, Published, Sides
    <3>2. QED
      BY <1>1, <1>2, <3>1, FifoStays DEF Sound
  <2>3. QED
    BY <2>1, <2>2
<1>4. QED
  BY <1>1, <1>3, ChannelSound

\* What the message says that core reads next.
Reads(i, o, kind) ==
    /\ i \in DOMAIN sent /\ sent[i] = [order |-> o, kind |-> kind]
    /\ i = Head(topic["edge"]) /\ o \in OrderIds
    /\ \A j \in read["edge"] : j \in DOMAIN sent /\ j < i
    /\ \A p, k : Has(p, k)' <=> Has(p, k) \/ (p = o /\ k = kind)

\* Core reads the messages of the edge in their order.
LEMMA ReadsNext ==
    ASSUME ProtocolInv, Fifo, CoreReads
    PROVE  Fifo' /\ \E i, o, kind : Reads(i, o, kind)
<1>1. Consumed("edge") /\ UNCHANGED <<orders, sent>>
  BY DEF CoreReads, edgeVars
<1>2. PICK a \in Nat : /\ read["edge"] = 1..a /\ read'["edge"] = 1 .. a + 1
                       /\ Head(topic["edge"]) = a + 1 /\ a + 1 \in DOMAIN sent
  BY <1>1, ReadFifo
<1>3. PICK i : i = a + 1
  OBVIOUS
<1>4. sent \in Seq([order : Nat, kind : MessageKind]) /\ sent[i].order \in OrderIds
  BY <1>2, <1>3 DEF ProtocolInv, EdgeInv, EdgeTypes
<1>5. PICK o, kind : sent[i] = [order |-> o, kind |-> kind] /\ o = sent[i].order
  <2>1. PICK m : m = sent[i]
    OBVIOUS
  <2>2. m \in [order : Nat, kind : MessageKind]
    <3>1. sent \in Seq([order : Nat, kind : MessageKind]) /\ i \in 1..Len(sent)
      BY <1>2, <1>3, <1>4
    <3>2. QED
      BY <2>1, <3>1, ElementOfSeq
  <2>3. m = [order |-> m.order, kind |-> m.kind]
    BY <2>2
  <2>4. QED
    BY <2>1, <2>3
<1>6. \A j \in 1..a : j \in DOMAIN sent /\ j < i
  BY <1>2, <1>3, <1>4
<1>7. ASSUME NEW p, NEW k
      PROVE  Has(p, k)' <=> Has(p, k) \/ (p = o /\ k = kind)
  <2> DEFINE m == [order |-> p, kind |-> k]
             n == [order |-> o, kind |-> kind]
  <2>1. m = n <=> p = o /\ k = kind
    OBVIOUS
  <2>2. Has(p, k)' <=> \E j \in 1 .. a + 1 : sent[j] = m
    BY <1>1, <1>2 DEF Has
  <2>3. Has(p, k) <=> \E j \in 1..a : sent[j] = m
    BY <1>2 DEF Has
  <2>4. sent[i] = n
    BY <1>5
  <2> HIDE DEF m, n
  <2>5. \A j \in 1 .. a + 1 : j \in 1..a \/ j = i
    BY <1>2, <1>3
  <2>6. 1..a \subseteq 1 .. a + 1 /\ i \in 1 .. a + 1
    BY <1>2, <1>3
  <2>7. (\E j \in 1 .. a + 1 : sent[j] = m) <=> (\E j \in 1..a : sent[j] = m) \/ m = n
    BY <2>4, <2>5, <2>6
  <2>8. QED
    BY <2>1, <2>2, <2>3, <2>7
<1>8. Reads(i, o, kind)
  BY <1>2, <1>3, <1>4, <1>5, <1>6, <1>7 DEF Reads
<1>9. QED
  BY <1>1, <1>8, ReadFifo

\* Before a request core has read nothing of its order, and has no row of it.
LEMMA RequestFirst ==
    ASSUME ProtocolInv, Sound, NEW i, NEW o, NEW kind, Reads(i, o, kind), kind \in Requests
    PROVE  /\ \A k : ~Has(o, k)
           /\ \A r \in DOMAIN coreOrders : coreOrders[r].order # o
<1>1. Asked(o)
  BY DEF Reads, Asked, Said
<1>2. AskedFirst(o)
  BY <1>1 DEF Sound, Opened, AskedOnce, Reads
<1>3. ASSUME NEW k, Has(o, k) PROVE FALSE
  <2>1. PICK j \in read["edge"] : sent[j] = [order |-> o, kind |-> k]
    BY <1>3 DEF Has
  <2>2. j \in DOMAIN sent /\ j < i /\ i \in DOMAIN sent
    BY DEF Reads
  <2>3. sent[i].order = o /\ sent[i].kind \in Requests /\ sent[j].order = o
    BY <2>1 DEF Reads
  <2>4. i <= j
    BY <1>2, <2>2, <2>3 DEF AskedFirst
  <2>5. i \in Nat /\ j \in Nat
    BY <2>2 DEF ProtocolInv, EdgeInv, EdgeTypes
  <2>6. QED
    BY <2>2, <2>4, <2>5
<1>4. InCore(o)
  BY DEF Sound, Reads
<1>5. QED
  BY <1>3, <1>4 DEF InCore

\* The robot of a cancelled order stands.
LEMMA StoppedStands == \A robot : Stands(Stopped(robot))
BY DEF Stopped, Stands

\* What core does with the message it reads, while nothing fails.
LEMMA HandledSound ==
    ASSUME ProtocolInv, Sound, CoreReads, UNCHANGED faults, faults = 0,
           NEW i, NEW o, NEW kind, Reads(i, o, kind)
    PROVE  Heeded' /\ \A p \in OrderIds : InCore(p)'
<1>1. UNCHANGED <<orders, sent>> /\ ~Fault("reject") /\ ~Fault("cancel_refused")
  BY DEF CoreReads, edgeVars, Fault
<1>2. sent[i].order = o /\ sent[i].kind = kind /\ i = Head(topic["edge"]) /\ o \in OrderIds
  BY DEF Reads
<1>3. PICK r : r = Newest(o)
  OBVIOUS
<1>4. \/ kind \in Requests /\ CoreCreates(o)
      \/ kind = "cancel" /\ r # 0 /\ CoreCancels(o, r)
      \/ kind = "receipt" /\ r # 0 /\ CoreConfirms(r)
      \/ kind = "redirect" /\ r # 0 /\ CoreRedirects(o, r)
      \/ r = 0 /\ UNCHANGED <<coreVars, faults>>
  BY <1>2, <1>3 DEF CoreReads, Requests
<1>5. /\ \A p, k : Has(p, k) => Has(p, k)'
      /\ \A p, k : p # o /\ Has(p, k)' => Has(p, k)
      /\ Has(o, kind)' /\ \A k : k # kind /\ Has(o, k)' => Has(o, k)
  BY DEF Reads
<1>6. \A p \in OrderIds : InCore(p)
  BY DEF Sound
<1>7. UNCHANGED replies => Heeded'
  BY <1>1 DEF Sound, Heeded, Asked, Said
<1>8. CASE kind \in Requests /\ CoreCreates(o)
  <2>1. PICK m : m = [order |-> o, status |-> "dispatched", robot |-> "called"]
    OBVIOUS
  <2>2. coreOrders' = Append(coreOrders, m) /\ m.order = o /\ UNCHANGED replies
    BY <1>1, <1>8, <2>1 DEF CoreCreates
  <2>3. ~Has(o, "cancel")' /\ \A q \in DOMAIN coreOrders : coreOrders[q].order # o
    BY <1>5, <1>8, RequestFirst DEF Requests
  <2>4. ASSUME NEW p \in OrderIds PROVE InCore(p)'
    BY <1>1, <1>5, <1>6, <1>8, <2>2, <2>3, CreateInCore
  <2>5. QED
    BY <1>7, <2>2, <2>4
<1>9. ASSUME r # 0
      PROVE  /\ r \in DOMAIN coreOrders /\ coreOrders[r].order = o /\ Asked(o)
             /\ coreOrders[r] \in CoreRow
  <2>1. r \in DOMAIN coreOrders /\ coreOrders[r].order = o
    BY <1>3, <1>9, NewestIn
  <2>2. QED
    BY <1>2, <1>6, <2>1, RowAsked, CoreStays
<1>10. ASSUME r # 0, NEW m, m.order = o, coreOrders' = [coreOrders EXCEPT ![r] = m],
              Has(o, "cancel")' /\ ~Said(o, "redirect") => Stands(m.robot)
       PROVE  \A p \in OrderIds : InCore(p)'
  BY <1>1, <1>5, <1>6, <1>9, <1>10, RewriteInCore
<1>11. CASE kind = "cancel" /\ r # 0 /\ CoreCancels(o, r)
  <2>1. PICK row \in CoreRow, robot \in Robot : row = coreOrders[r] /\ robot = Stopped(row.robot)
    <3>1. Stopped(coreOrders[r].robot) \in Robot
      BY DEF Stopped, Robot
    <3>2. QED
      BY <1>9, <1>11, <3>1
  <2>2. PICK m : m = [row EXCEPT !.status = "cancelled", !.robot = robot]
    OBVIOUS
  <2>3. coreOrders' = [coreOrders EXCEPT ![r] = m] /\ replies' = Replied(o, "cancelled")
    BY <1>1, <1>11, <2>1, <2>2 DEF CoreCancels
  <2>4. m.order = row.order /\ m.robot = robot
    BY <2>1, <2>2 DEF CoreRow
  <2>5. m.order = o /\ Stands(m.robot)
    BY <1>9, <1>11, <2>1, <2>4, StoppedStands
  <2>6. Heeded'
    BY <1>1, <1>9, <1>11, <2>3, HeededReply DEF Sound
  <2>7. QED
    BY <1>10, <1>11, <2>3, <2>5, <2>6
<1>12. CASE kind = "receipt" /\ r # 0 /\ CoreConfirms(r)
  <2>1. PICK row \in CoreRow : row = coreOrders[r]
    BY <1>9, <1>12
  <2>2. PICK m : m = [row EXCEPT !.status = "confirmed"]
    OBVIOUS
  <2>3. coreOrders' = [coreOrders EXCEPT ![r] = m] /\ UNCHANGED replies
    BY <1>12, <2>1, <2>2 DEF CoreConfirms
  <2>4. m.order = row.order /\ m.robot = row.robot
    BY <2>1, <2>2 DEF CoreRow
  <2>5. Has(o, "cancel")' /\ ~Said(o, "redirect") => Stands(m.robot)
    <3>1. Has(o, "cancel")' => Has(o, "cancel")
      BY <1>5, <1>12
    <3>2. InCore(o)
      BY <1>2, <1>6
    <3>3. QED
      BY <1>9, <1>12, <2>1, <2>4, <3>1, <3>2 DEF InCore
  <2>6. QED
    BY <1>7, <1>9, <1>10, <1>12, <2>1, <2>3, <2>4, <2>5
<1>13. CASE kind = "redirect" /\ r # 0 /\ CoreRedirects(o, r)
  <2>1. PICK row \in CoreRow : row = coreOrders[r]
    BY <1>9, <1>13
  <2>2. PICK m : m = [row EXCEPT !.status = "dispatched", !.robot = "called"]
    OBVIOUS
  <2>3. coreOrders' = [coreOrders EXCEPT ![r] = m] /\ UNCHANGED replies
    BY <1>1, <1>13, <2>1, <2>2 DEF CoreRedirects
  <2>4. m.order = row.order
    BY <2>1, <2>2 DEF CoreRow
  <2>5. Said(o, "redirect")
    BY <1>13 DEF Reads, Said
  <2>6. QED
    BY <1>7, <1>9, <1>10, <1>13, <2>1, <2>3, <2>4, <2>5
<1>14. CASE r = 0 /\ UNCHANGED <<coreVars, faults>>
  <2>1. UNCHANGED <<coreOrders, replies>>
    BY <1>14 DEF coreVars
  <2>2. \A q \in DOMAIN coreOrders : coreOrders[q].order # o
    BY <1>3, <1>14, NewestNone
  <2>3. ASSUME NEW p \in OrderIds PROVE InCore(p)'
    <3>1. \/ \A k : Has(p, k)' => Has(p, k)
          \/ \A q \in DOMAIN coreOrders : coreOrders[q].order # p
      BY <1>5, <2>2
    <3>2. QED
      BY <1>1, <1>5, <1>6, <2>1, <3>1, KeepInCore
  <2>4. QED
    BY <1>7, <2>1, <2>3
<1>15. QED
  BY <1>4, <1>8, <1>11, <1>12, <1>13, <1>14

\* The acknowledgement keeps Sound.
LEMMA AckSound ==
    ASSUME ProtocolInv, Sound, SendAck
    PROVE  Sound'
<1>1. /\ UNCHANGED <<orders, sent>> /\ UNCHANGED <<coreOrders, edgeVars, channel>>
      /\ coreReader \in DOMAIN coreOrders
      /\ replies' = Replied(coreOrders[coreReader].order, "ack")
  BY CoreStays DEF SendAck, edgeVars
<1>2. PICK o \in OrderIds : o = coreOrders[coreReader].order
  BY <1>1, CoreStays
<1>3. Asked(o)
  BY <1>1, <1>2, RowAsked DEF Sound
<1>4. Heeded'
  BY <1>1, <1>2, <1>3, HeededReply DEF Sound
<1>5. UNCHANGED <<posted, retries, drain, topic, read>>
  BY <1>1 DEF channel
<1>6. /\ \A p, kind : Has(p, kind) => Has(p, kind)'
      /\ \A p, kind : Has(p, kind)' => Has(p, kind)
  BY <1>1, <1>5, HasKept
<1>7. \A p \in OrderIds : InCore(p)'
  BY <1>1, <1>6, KeepInCore DEF Sound
<1>8. Fifo'
  BY <1>1, <1>5, FifoStays DEF Sound, ProtocolInv, EdgeInv, EdgeTypes
<1>9. QED
  BY <1>1, <1>4, <1>5, <1>7, <1>8, CoreSound

\* The fleet moves no robot whose order core was told to abort.
LEMMA FleetSound ==
    ASSUME ProtocolInv, Sound, NEW r \in DOMAIN coreOrders, FleetMoves(r),
           UNCHANGED faults, faults = 0
    PROVE  Sound'
<1>1. /\ UNCHANGED <<orders, sent>> /\ UNCHANGED <<edgeVars, channel>>
      /\ ~Fault("fleet_ends")
  BY DEF FleetMoves, edgeVars, Fault
<1>2. PICK row \in CoreRow, o \in OrderIds : row = coreOrders[r] /\ o = row.order
  BY CoreStays
<1>3. PICK st \in CoreStatus, robot \in Robot, kind \in ReplyKind :
           /\ coreOrders' = [coreOrders EXCEPT ![r].status = st, ![r].robot = robot]
           /\ replies' = Replied(o, kind)
           /\ row.robot \in {"called", "moving"}
  BY <1>1, <1>2 DEF FleetMoves, CoreStatus, Robot, ReplyKind
<1>4. PICK m : m = [row EXCEPT !.status = st, !.robot = robot]
  OBVIOUS
<1>5. m.order = o /\ coreOrders' = [coreOrders EXCEPT ![r] = m]
  <2>1. m.order = row.order
    BY <1>4, Rewritten
  <2>2. QED
    BY <1>2, <1>3, <1>4, <2>1
<1>6. UNCHANGED <<posted, retries, drain, topic, read>>
  BY <1>1 DEF channel
<1>7. /\ \A p, k : Has(p, k) => Has(p, k)'
      /\ \A p, k : Has(p, k)' => Has(p, k)
  BY <1>1, <1>6, HasKept
<1>8. InCore(o)
  BY DEF Sound
<1>9. ~(Has(o, "cancel")' /\ ~Said(o, "redirect"))
  BY <1>2, <1>3, <1>7, <1>8 DEF InCore, Stands
<1>10. Heeded'
  BY <1>1, <1>2, <1>3, <1>8, RowAsked, HeededReply DEF Sound
<1>11. ASSUME NEW p \in OrderIds PROVE InCore(p)'
  <2>1. InCore(p)
    BY DEF Sound
  <2>2. QED
    BY <1>1, <1>2, <1>5, <1>7, <1>9, <2>1, RewriteInCore
<1>12. Fifo'
  BY <1>1, <1>6, FifoStays DEF Sound, ProtocolInv, EdgeInv, EdgeTypes
<1>13. QED
  BY <1>1, <1>6, <1>10, <1>11, <1>12, CoreSound

\* Every step keeps AbortInv.
LEMMA AbortStep ==
    ASSUME AbortInv, InTurn, [ProtocolNext]_protocolVars
    PROVE  AbortInv'
<1>1. ProtocolInv /\ ProtocolInv' /\ EdgeInv'
  BY ProtocolStep DEF AbortInv, ProtocolInv
<1>2. SUFFICES ASSUME faults' = 0 PROVE Sound'
  BY <1>1 DEF AbortInv
<1>3. faults \in Nat /\ \A f : ~Fault(f)
  BY <1>1, <1>2, CoreStays, ProtocolAssumption DEF Fault
<1>4. ASSUME UNCHANGED faults PROVE faults = 0 /\ Sound
  BY <1>2, <1>4 DEF AbortInv
<1>5. CASE EdgeWork
  <2>1. PICK c \in Callers : EdgeMoves(c)
    BY <1>5, EdgeAssumption DEF EdgeWork, EdgeMoves
  <2>2. UNCHANGED <<coreVars, faults>> /\ UNCHANGED <<posted, retries, drain, topic, read>>
    BY <1>5 DEF EdgeWork, channel
  <2>3. QED
    BY <1>1, <1>4, <2>1, <2>2, EdgeSound
<1>6. CASE EdgeReads
  <2>1. /\ "reader" \in Callers /\ Consumed("core") /\ UNCHANGED <<coreVars, faults>>
        /\ \E i \in DOMAIN replies :
              /\ replies[i].order \in OrderIds /\ replies[i].kind \in ReplyKind
              /\ HandleReply(replies[i].order, replies[i].kind)
    BY <1>1, <1>6, EdgeReadsIs DEF EdgeActs
  <2>2. EdgeMoves("reader")
    BY <1>4, <2>1 DEF EdgeMoves, Sound, Heeded
  <2>3. /\ topic'["edge"] = topic["edge"] /\ read'["edge"] = read["edge"]
        /\ UNCHANGED <<posted, retries, drain>>
    BY <1>1, <2>1, ChannelFacts DEF Consumed, Sides
  <2>4. QED
    BY <1>1, <1>4, <2>1, <2>2, <2>3, EdgeSound
<1>7. CASE CoreReads
  <2>1. UNCHANGED faults
    BY <1>3, <1>7 DEF CoreReads, CoreCreates, CoreCancels, CoreConfirms, CoreRedirects
  <2>2. faults = 0 /\ Sound
    BY <1>4, <2>1
  <2>3. Fifo'
    BY <1>1, <1>7, <2>2, ReadsNext DEF Sound
  <2>4. PICK i, o, kind : Reads(i, o, kind)
    BY <1>1, <1>7, <2>2, ReadsNext DEF Sound
  <2>5. Heeded' /\ \A p \in OrderIds : InCore(p)'
    BY <1>1, <1>7, <2>1, <2>2, <2>4, HandledSound
  <2>6. UNCHANGED edgeVars /\ UNCHANGED retries
    BY <1>7 DEF CoreReads, Consumed
  <2>7. QED
    BY <2>2, <2>3, <2>5, <2>6, CoreSound
<1>8. CASE SendAck
  BY <1>1, <1>4, <1>8, AckSound DEF SendAck
<1>9. ASSUME NEW r \in DOMAIN coreOrders, FleetMoves(r) PROVE Sound'
  <2>1. UNCHANGED faults
    BY <1>3, <1>9 DEF FleetMoves
  <2>2. QED
    BY <1>1, <1>4, <1>9, <2>1, FleetSound
<1>10. ASSUME NEW side \in Sides, Drainer(side) PROVE Sound'
  <2>1. UNCHANGED faults
    BY <1>10 DEF Drainer, ListPendingOutbox, PublishAndAck, PublishUnconnected
  <2>2. Connected("core")
    BY <1>1, <1>4, <2>1 DEF Connected, ProtocolInv, LinkTypes
  <2>3. ListPendingOutbox(side) \/ PublishAndAck(side)
    BY <1>10, <2>2 DEF Drainer, PublishUnconnected
  <2>4. QED
    BY <1>1, <1>4, <2>1, <2>3, DrainerSound
<1>11. ASSUME NEW side \in Sides,
              \/ PublishFails(side) \/ DropExpired(side)
              \/ PlainCrash(side) \/ PublishAndCrash(side)
       PROVE  FALSE
  BY <1>3, <1>11 DEF PublishFails, DropExpired, PlainCrash, PublishAndCrash, Crash
<1>12. CASE LinkMoves
  <2>1. Reconfigure /\ link # "up" /\ UNCHANGED faults
    BY <1>3, <1>12 DEF LinkMoves, PublishUnkept, ReaderExits, Reconfigure
  <2>2. QED
    BY <1>1, <1>4, <2>1 DEF ProtocolInv, LinkTypes
<1>13. CASE UNCHANGED protocolVars
  <2>1. /\ UNCHANGED edgeVars /\ UNCHANGED coreVars /\ UNCHANGED faults
        /\ UNCHANGED <<posted, retries, drain, topic, read>> /\ UNCHANGED sent
    BY <1>13 DEF protocolVars, channel, edgeVars
  <2>2. Fifo'
    BY <1>1, <1>4, <2>1, FifoStays DEF Sound, ProtocolInv, EdgeInv, EdgeTypes
  <2>3. QED
    BY <1>1, <1>4, <2>1, <2>2, ChannelSound
<1>14. QED
  BY <1>5, <1>6, <1>7, <1>8, <1>9, <1>10, <1>11, <1>12, <1>13 DEF ProtocolNext, LinkMoves

\* AbortInv holds at the start: nothing was sent.
LEMMA AbortInit ==
    ASSUME ProtocolInit
    PROVE  AbortInv
<1>1. ProtocolInv
  BY ProtocolInvInit
<1>2. /\ orders = << >> /\ sent = << >> /\ replies = << >> /\ work = [c \in Callers |-> << >>]
      /\ posted["edge"] = {} /\ drain["edge"] = {} /\ read["edge"] = {}
      /\ topic["edge"] = << >>
      /\ retries["edge"] = [i \in 1..(MaxSent + MaxReplies + 1) |-> 0]
  BY DEF ProtocolInit, EdgeInit, Sides
<1>3. OrderIds = {}
  BY <1>2 DEF OrderIds
<1>4. FifoAt(0, 0, 0)
  BY <1>2 DEF FifoAt
<1>5. Fifo
  BY <1>4 DEF Fifo
<1>6. NoRetries
  BY <1>2, EdgeAssumption, ProtocolAssumption DEF NoRetries
<1>7. Heeded
  BY <1>2 DEF Heeded
<1>8. \A c \in Callers : Onward(work[c])
  <2>1. \A c \in Callers : work[c] = << >>
    BY <1>2
  <2>2. Onward(<< >>)
    BY FewLeft DEF Onward
  <2>3. QED
    BY <2>1, <2>2
<1>9. QED
  BY <1>1, <1>3, <1>5, <1>6, <1>7, <1>8 DEF AbortInv, Sound

\* Once nothing is under way, core has read all that the edge sent.
LEMMA AllRead ==
    ASSUME ProtocolInv, Fifo, NoRetries, Quiet
    PROVE  DOMAIN sent \subseteq read["edge"]
<1>1. PICK a, p, b \in Nat : FifoAt(a, p, b)
  BY DEF Fifo
<1>2. Pending("edge") = {} /\ topic["edge"] = << >>
  BY DEF Quiet, Sides
<1>3. p = a /\ read["edge"] = 1..a /\ posted["edge"] = 1..p
  BY <1>1, <1>2 DEF FifoAt
<1>4. ASSUME NEW i \in DOMAIN sent PROVE i \in posted["edge"]
  <2>1. i \in 1..MaxSent
    BY <1>4, EdgeAssumption DEF NoRetries, ProtocolInv, EdgeInv, EdgeTypes
  <2>2. retries["edge"][i] = 0
    BY <2>1 DEF NoRetries
  <2>3. ~Quits("edge", i)
    BY <2>2, ProtocolAssumption DEF Quits
  <2>4. QED
    BY <1>2, <1>4, <2>3 DEF Pending, Outbox
<1>5. QED
  BY <1>3, <1>4

\* While nothing fails, no robot is under way for an order that was aborted and
\* not redirected, once both sides are at rest: for any number of orders,
\* operators and messages, whatever an operation overlaps with core's answers,
\* as long as two operators do not work on one order at the same time.
THEOREM AbortHeeded ==
    ASSUME InTurn
    PROVE  ProtocolSpec => []AbortStopsRobot
<1>1. AbortInv => AbortStopsRobot
  <2> SUFFICES ASSUME AbortInv, Quiet, faults = 0,
                      NEW o \in OrderIds, SentFor(o, "cancel"), ~SentFor(o, "redirect"),
                      NEW r \in DOMAIN coreOrders, coreOrders[r].order = o
               PROVE  coreOrders[r].robot \in {"done", "none"}
    BY DEF AbortStopsRobot
  <2>1. ProtocolInv /\ Sound
    BY DEF AbortInv
  <2>2. DOMAIN sent \subseteq read["edge"]
    BY <2>1, AllRead DEF Sound
  <2>3. Has(o, "cancel")
    BY <2>2 DEF SentFor, Has
  <2>4. ~Said(o, "redirect")
    BY DEF SentFor, Said
  <2>5. Stands(coreOrders[r].robot)
    BY <2>1, <2>3, <2>4 DEF Sound, InCore
  <2>6. QED
    BY <2>5 DEF Stands
<1>2. ProtocolInit => AbortInv
  BY AbortInit
<1>3. AbortInv /\ [ProtocolNext]_protocolVars => AbortInv'
  BY AbortStep
<1>4. QED
  BY <1>1, <1>2, <1>3, PTL DEF ProtocolSpec
=============================================================================
