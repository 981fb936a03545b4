-------------------------- MODULE LineStockProofs ---------------------------
(***************************************************************************)
(* Proofs about LineStock: types, the order behind every replenishing      *)
(* payload, one reorder at a time, and the life cycle of the orders.       *)
(***************************************************************************)
EXTENDS LineStock, EdgeOrderProofs

-----------------------------------------------------------------------------
(* Types.                                                                  *)

RowsRead == UNION {[S -> SlotRow] : S \in SUBSET Slots}

LineTypes ==
    /\ line \in [delta : Nat, rows : RowsRead, at : Slots \cup {NoSlot},
                 pc : {"count", "replenish", "order"}]
    /\ line.delta \in Deltas \cup {0}
    /\ line.pc # "count" => line.at \in DOMAIN line.rows
    /\ \A s \in DOMAIN line.rows : line.rows[s].status \in {"active", "replenishing"}
    /\ recounted \subseteq Slots

TypeInv == EdgeInv /\ LineTypes

\* The rows that were read are rows of slots.
LEMMA RowTyped ==
    ASSUME LineTypes
    PROVE  /\ DOMAIN line.rows \subseteq Slots
           /\ line.rows \in [DOMAIN line.rows -> SlotRow]
           /\ \A s \in DOMAIN line.rows : line.rows[s] \in SlotRow
           /\ line.delta \in Nat
<1>1. line.rows \in RowsRead /\ line.delta \in Nat
  BY DEF LineTypes
<1>2. PICK S \in SUBSET Slots : line.rows \in [S -> SlotRow]
  BY <1>1 DEF RowsRead
<1>3. QED
  BY <1>1, <1>2

\* A counter reader with nothing to do is typed.
LEMMA IdleTyped ==
    /\ Idle \in [delta : Nat, rows : RowsRead, at : Slots \cup {NoSlot},
                 pc : {"count", "replenish", "order"}]
    /\ Idle.delta = 0 /\ Idle.pc = "count" /\ DOMAIN Idle.rows = {}
<1>1. << >> \in [{} -> SlotRow] /\ DOMAIN << >> = {}
  OBVIOUS
<1>2. << >> \in RowsRead
  BY <1>1 DEF RowsRead
<1>3. QED
  BY <1>1, <1>2 DEF Idle

\* What the counter reader is left with when it is done with a row.
LEMMA NextTyped ==
    ASSUME LineTypes, NEW s \in DOMAIN line.rows, line' = NextSlot(s),
           UNCHANGED recounted
    PROVE  /\ LineTypes' /\ line'.pc = "count"
           /\ DOMAIN line'.rows \subseteq DOMAIN line.rows \ {s}
           /\ \A x \in DOMAIN line'.rows : line'.rows[x] = line.rows[x]
<1>1. CASE DOMAIN line.rows = {s}
  <2>1. line' = Idle
    BY <1>1 DEF NextSlot
  <2>2. QED
    BY <2>1, IdleTyped DEF LineTypes
<1>2. CASE DOMAIN line.rows # {s}
  <2> DEFINE rest == Without(line.rows, s)
  <2>1. line' = [line EXCEPT !.rows = rest, !.at = NoSlot, !.pc = "count"]
    BY <1>2 DEF NextSlot
  <2>2. /\ DOMAIN rest = DOMAIN line.rows \ {s}
        /\ \A x \in DOMAIN rest : rest[x] = line.rows[x]
        /\ rest \in [DOMAIN line.rows \ {s} -> SlotRow]
    BY RowTyped DEF Without
  <2>3. rest \in RowsRead
    BY <2>2, RowTyped DEF RowsRead
  <2> HIDE DEF rest
  <2>4. /\ line'.rows = rest /\ line'.pc = "count" /\ line'.delta = line.delta
        /\ line' \in [delta : Nat, rows : RowsRead, at : Slots \cup {NoSlot},
                      pc : {"count", "replenish", "order"}]
    BY <2>1, <2>3 DEF LineTypes
  <2>5. \A x \in DOMAIN line'.rows : line'.rows[x].status \in {"active", "replenishing"}
    BY <2>2, <2>4 DEF LineTypes
  <2>6. QED
    BY <2>2, <2>4, <2>5 DEF LineTypes
<1>3. QED
  BY <1>1, <1>2

\* A row written by the counter reader or by an operator is typed.
LEMMA LeftTyped ==
    ASSUME LineTypes, NEW s \in DOMAIN line.rows
    PROVE  Left(s) \in 0..Units
<1>1. line.rows[s].remaining \in 0..Units /\ line.delta \in Nat
  BY RowTyped DEF SlotRow
<1>2. QED
  BY <1>1, EdgeAssumption DEF Left, LessOr0

\* Where only slots change, the orders and the work stay typed.
LEMMA SlotsOnly ==
    ASSUME EdgeInv, UNCHANGED <<orders, sent, work>>, slots' \in [Slots -> SlotRow]
    PROVE  EdgeInv'
BY DEF EdgeInv, EdgeTypes, WorkInv, GoodWork, OrderIds

\* What a goroutine does to an order, but for the counter reader's reorder.
OrderAction(c) ==
    \/ Statements(c) /\ (At(c, "refill") => MayRefill(c))
    \/ WebCreate(c)
    \/ WebOperate(c)
    \/ /\ c = "reader"
       /\ \E o \in OrderIds,
             reply \in {"ack", "waybill", "update", "delivered", "error", "cancelled"} :
             HandleReply(o, reply)

\* A step of the order manager, seen from the line: it leaves the counter alone.
LEMMA OrderStepIs ==
    ASSUME OrderStep
    PROVE  /\ \E c \in Callers : OrderAction(c) /\ EdgeAction(c)
           /\ UNCHANGED <<line, byHand, recounted>>
<1>1. UNCHANGED <<line, byHand, recounted>>
  BY DEF OrderStep
<1>2. Webs \subseteq Callers /\ "reader" \in Callers
  BY EdgeAssumption
<1>3. CASE \E c \in Callers : Statements(c) /\ (At(c, "refill") => MayRefill(c))
  BY <1>1, <1>3 DEF OrderAction, EdgeAction
<1>4. CASE \E c \in Webs : WebCreate(c) \/ WebOperate(c)
  BY <1>1, <1>2, <1>4 DEF OrderAction, EdgeAction
<1>5. CASE Receive
  <2>1. PICK o \in OrderIds, reply \in Replies : HandleReply(o, reply)
    BY <1>5 DEF Receive
  <2>2. reply \in {"ack", "waybill", "update", "delivered", "error", "cancelled"}
    BY EdgeAssumption
  <2>3. QED
    BY <1>1, <1>2, <2>1, <2>2 DEF OrderAction, EdgeAction
<1>6. QED
  BY <1>3, <1>4, <1>5 DEF OrderStep

\* The counter reader's reorder is the creation of a retrieve order.
LEMMA ReorderIs ==
    ASSUME LineTypes, HandlePayloadReorder
    PROVE  /\ "line" \in Callers /\ EdgeAction("line")
           /\ line.at \in Slots /\ line.at \in DOMAIN line.rows
           /\ \E auto \in BOOLEAN : CreateOrder("line", "retrieve", line.at, auto)
           /\ line' = NextSlot(line.at) /\ UNCHANGED <<byHand, recounted>>
<1>1. line.at \in DOMAIN line.rows /\ line.at \in Slots
  BY RowTyped DEF LineTypes, HandlePayloadReorder
<1>2. PICK auto \in AutoConfirm : CreateOrder("line", "retrieve", line.at, auto)
  BY DEF HandlePayloadReorder
<1>3. EdgeAction("line")
  BY <1>1, <1>2 DEF EdgeAction
<1>4. QED
  BY <1>1, <1>2, <1>3, LineAssumption, EdgeAssumption DEF HandlePayloadReorder

\* What an operator writes is a row of the table.
LEMMA OperatorTyped ==
    ASSUME TypeInv, NEW s \in Slots, NEW new, Operator(s, new), new \in SlotRow
    PROVE  EdgeInv' /\ slots' = [slots EXCEPT ![s] = new] /\ UNCHANGED <<line, orders, sent, work>>
<1>1. slots' \in [Slots -> SlotRow]
  BY DEF Operator, TypeInv, EdgeInv, EdgeTypes
<1>2. QED
  BY <1>1, SlotsOnly DEF Operator, TypeInv

\* A step of an operator changes one slot, and notes when its status changed.
LEMMA OperatorStepIs ==
    ASSUME TypeInv, OperatorStep
    PROVE  \E s \in Slots, new \in SlotRow :
              /\ Operator(s, new)
              /\ \/ recounted' = recounted \cup {s}
                 \/ recounted' = recounted /\ new.status = slots[s].status
<1>1. PICK s \in Slots :
           \/ PayloadCount(s)
           \/ /\ UpdateReorderPoint(s) \/ ToggleAutoReorder(s) \/ UpdatePayload(s)
              /\ UNCHANGED recounted
  BY DEF OperatorStep
<1>2. slots[s] \in SlotRow
  BY DEF TypeInv, EdgeInv, EdgeTypes
<1>3. Units \in 0..Units
  BY EdgeAssumption
<1>4. CASE PayloadCount(s)
  <2>1. recounted' = recounted \cup {s}
    BY <1>4 DEF PayloadCount
  <2>2. CASE \E n \in 0..Units :
               Operator(s, [slots[s] EXCEPT !.remaining = n, !.status = CountStatus(n, s)])
    <3>1. PICK n \in 0..Units :
               Operator(s, [slots[s] EXCEPT !.remaining = n, !.status = CountStatus(n, s)])
      BY <2>2
    <3>2. CountStatus(n, s) \in SlotStatus
      BY DEF CountStatus, SlotStatus
    <3>3. [slots[s] EXCEPT !.remaining = n, !.status = CountStatus(n, s)] \in SlotRow
      BY <1>2, <3>2 DEF SlotRow
    <3>4. QED
      BY <2>1, <3>1, <3>3
  <2>3. CASE Operator(s, Full(slots[s]))
    <3>1. Full(slots[s]) \in SlotRow
      BY <1>2, <1>3 DEF Full, SlotRow, SlotStatus
    <3>2. QED
      BY <2>1, <2>3, <3>1
  <2>4. QED
    BY <1>4, <2>2, <2>3 DEF PayloadCount
<1>5. CASE UpdateReorderPoint(s) /\ UNCHANGED recounted
  <2>1. PICK p \in Points : Operator(s, [slots[s] EXCEPT !.point = p])
    BY <1>5 DEF UpdateReorderPoint
  <2>2. /\ [slots[s] EXCEPT !.point = p] \in SlotRow
        /\ [slots[s] EXCEPT !.point = p].status = slots[s].status
    BY <1>2 DEF SlotRow
  <2>3. QED
    BY <1>5, <2>1, <2>2
<1>6. CASE ToggleAutoReorder(s) /\ UNCHANGED recounted
  <2>1. PICK on \in BOOLEAN : Operator(s, [slots[s] EXCEPT !.auto = on])
    BY <1>6 DEF ToggleAutoReorder
  <2>2. /\ [slots[s] EXCEPT !.auto = on] \in SlotRow
        /\ [slots[s] EXCEPT !.auto = on].status = slots[s].status
    BY <1>2 DEF SlotRow
  <2>3. QED
    BY <1>6, <2>1, <2>2
<1>7. CASE UpdatePayload(s) /\ UNCHANGED recounted
  <2>1. PICK n \in 0..Units, p \in Points :
             Operator(s, [slots[s] EXCEPT !.remaining = n, !.point = p])
    BY <1>7 DEF UpdatePayload
  <2>2. /\ [slots[s] EXCEPT !.remaining = n, !.point = p] \in SlotRow
        /\ [slots[s] EXCEPT !.remaining = n, !.point = p].status = slots[s].status
    BY <1>2 DEF SlotRow
  <2>3. QED
    BY <1>7, <2>1, <2>2
<1>8. QED
  BY <1>1, <1>4, <1>5, <1>6, <1>7

\* The counter's step keeps the types, and takes the counted slots as they are.
LEMMA CounterDeltaTyped ==
    ASSUME TypeInv, CounterDelta
    PROVE  TypeInv' /\ line'.rows = [s \in {x \in Slots : Counted(x)} |-> slots[s]]
<1>1. PICK d \in Deltas :
           /\ line' = [Idle EXCEPT !.delta = d,
                                   !.rows = [s \in {x \in Slots : Counted(x)} |-> slots[s]]]
           /\ UNCHANGED <<orders, slots, sent, work, recounted>>
  BY DEF CounterDelta
<1> DEFINE S == {x \in Slots : Counted(x)}
           rows == [s \in S |-> slots[s]]
<1>2. slots \in [Slots -> SlotRow]
  BY DEF TypeInv, EdgeInv, EdgeTypes
<1>3. rows \in [S -> SlotRow] /\ S \in SUBSET Slots
  BY <1>2
<1>4. rows \in RowsRead
  BY <1>3 DEF RowsRead
<1>5. \A s \in DOMAIN rows : rows[s].status \in {"active", "replenishing"}
  BY DEF Counted
<1> HIDE DEF rows, S
<1>6. d \in Nat
  BY LineAssumption
<1>7. line' = [Idle EXCEPT !.delta = d, !.rows = rows]
  BY <1>1 DEF rows, S
<1>8. /\ line'.rows = rows /\ line'.delta = d /\ line'.pc = "count"
      /\ line' \in [delta : Nat, rows : RowsRead, at : Slots \cup {NoSlot},
                    pc : {"count", "replenish", "order"}]
  BY <1>4, <1>6, <1>7, IdleTyped
<1>9. LineTypes'
  BY <1>1, <1>5, <1>8 DEF LineTypes, TypeInv
<1>10. EdgeInv'
  BY <1>1, <1>2, SlotsOnly DEF TypeInv
<1>11. QED
  BY <1>8, <1>9, <1>10 DEF TypeInv, rows, S

\* Writing a counted slot keeps the types.
LEMMA CountSlotTyped ==
    ASSUME TypeInv, NEW s \in Slots, CountSlot(s)
    PROVE  TypeInv'
<1>1. s \in DOMAIN line.rows /\ line.rows[s] \in SlotRow /\ Left(s) \in 0..Units
  BY RowTyped, LeftTyped DEF CountSlot, TypeInv
<1>2. slots \in [Slots -> SlotRow]
  BY DEF TypeInv, EdgeInv, EdgeTypes
<1>3. slots' \in [Slots -> SlotRow]
  <2>1. PICK st \in SlotStatus :
             slots' = [slots EXCEPT ![s].remaining = Left(s), ![s].status = st]
    BY <1>1 DEF CountSlot, SlotRow, SlotStatus
  <2>2. [slots[s] EXCEPT !.remaining = Left(s), !.status = st] \in SlotRow
    BY <1>1, <1>2, <2>1 DEF SlotRow
  <2>3. QED
    BY <1>2, <2>1, <2>2
<1>4. EdgeInv'
  BY <1>3, SlotsOnly DEF CountSlot, TypeInv
<1>5. CASE line' = [line EXCEPT !.at = s, !.pc = "replenish"]
  <2>1. LineTypes'
    BY <1>1, <1>5 DEF LineTypes, TypeInv, CountSlot
  <2>2. QED
    BY <1>4, <2>1 DEF TypeInv
<1>6. CASE line' = NextSlot(s)
  <2>1. UNCHANGED recounted
    BY DEF CountSlot
  <2>2. LineTypes'
    BY <1>1, <1>6, <2>1, NextTyped DEF TypeInv
  <2>3. QED
    BY <1>4, <2>2 DEF TypeInv
<1>7. QED
  BY <1>5, <1>6 DEF CountSlot

\* A reorder keeps the types.
LEMMA ReplenishTyped ==
    ASSUME TypeInv, Replenish
    PROVE  TypeInv'
<1> DEFINE s == line.at
<1>1. s \in DOMAIN line.rows /\ s \in Slots /\ Left(s) \in 0..Units
  BY RowTyped, LeftTyped DEF Replenish, TypeInv, LineTypes
<1>2. slots \in [Slots -> SlotRow]
  BY DEF TypeInv, EdgeInv, EdgeTypes
<1> HIDE DEF s
<1>3. slots' \in [Slots -> SlotRow]
  <2>1. slots' = [slots EXCEPT ![s].remaining = Left(s), ![s].status = "replenishing"]
    BY DEF Replenish, s
  <2>2. [slots[s] EXCEPT !.remaining = Left(s), !.status = "replenishing"] \in SlotRow
    BY <1>1, <1>2 DEF SlotRow, SlotStatus
  <2>3. QED
    BY <1>1, <1>2, <2>1, <2>2
<1>4. EdgeInv'
  BY <1>3, SlotsOnly DEF Replenish, TypeInv
<1>5. LineTypes'
  BY <1>1 DEF Replenish, TypeInv, LineTypes, s
<1>6. QED
  BY <1>4, <1>5 DEF TypeInv

\* Every step of the line keeps the types.
LEMMA TypeStep ==
    ASSUME TypeInv, [LineNext]_lineVars
    PROVE  TypeInv'
<1>1. CASE OrderStep
  <2>1. EdgeInv' /\ UNCHANGED <<line, recounted>>
    BY <1>1, OrderStepIs, EdgeInvStep DEF TypeInv
  <2>2. QED
    BY <2>1 DEF TypeInv, LineTypes
<1>2. CASE CounterDelta
  BY <1>2, CounterDeltaTyped
<1>3. CASE \E s \in Slots : CountSlot(s)
  BY <1>3, CountSlotTyped
<1>4. CASE Replenish
  BY <1>4, ReplenishTyped
<1>5. CASE HandlePayloadReorder
  <2>1. EdgeInv'
    BY <1>5, ReorderIs, EdgeInvStep DEF TypeInv
  <2>2. PICK s \in DOMAIN line.rows : line' = NextSlot(s) /\ UNCHANGED recounted
    BY <1>5, ReorderIs DEF TypeInv
  <2>3. LineTypes'
    BY <2>2, NextTyped DEF TypeInv
  <2>4. QED
    BY <2>1, <2>3 DEF TypeInv
<1>6. CASE OperatorStep
  <2>1. PICK s \in Slots, new \in SlotRow :
              /\ Operator(s, new)
              /\ recounted' = recounted \cup {s} \/ recounted' = recounted
    BY <1>6, OperatorStepIs
  <2>2. EdgeInv' /\ UNCHANGED line
    BY <2>1, OperatorTyped
  <2>3. QED
    BY <2>1, <2>2 DEF TypeInv, LineTypes
<1>7. CASE UNCHANGED lineVars
  BY <1>7, SlotsOnly DEF lineVars, TypeInv, LineTypes, EdgeInv, EdgeTypes
<1>8. QED
  BY <1>1, <1>2, <1>3, <1>4, <1>5, <1>6, <1>7 DEF LineNext, LineStep

\* The types hold at the start.
LEMMA TypeInit ==
    ASSUME LineInit
    PROVE  TypeInv
<1>1. EdgeInv
  BY EdgeInvInit DEF LineInit
<1>2. LineTypes
  BY IdleTyped DEF LineInit, LineTypes
<1>3. QED
  BY <1>1, <1>2 DEF TypeInv

\* Orders, payloads and messages stay over the declared sets, the rows the
\* counter reader holds are rows of payloads: whatever overlaps.
THEOREM LineTyped == LineSpec => []LineTypeOK
<1>1. TypeInv => LineTypeOK
  <2> SUFFICES ASSUME TypeInv PROVE LineTypeOK
    OBVIOUS
  <2>1. \A o \in OrderIds : orders[o] \in OrderRow
    BY DEF TypeInv, EdgeInv, EdgeTypes, OrderIds
  <2>2. slots \in [Slots -> SlotRow]
    BY DEF TypeInv, EdgeInv, EdgeTypes
  <2>3. \A i \in DOMAIN sent : sent[i].order \in OrderIds
    BY DEF TypeInv, EdgeInv, EdgeTypes
  <2>4. line.delta \in Deltas \cup {0} /\ DOMAIN line.rows \subseteq Slots
    BY RowTyped DEF TypeInv, LineTypes
  <2>5. QED
    BY <2>1, <2>2, <2>3, <2>4 DEF LineTypeOK, OrderRow, SlotRow
<1>2. LineInit => TypeInv
  BY TypeInit
<1>3. TypeInv /\ [LineNext]_lineVars => TypeInv'
  BY TypeStep
<1>4. QED
  BY <1>1, <1>2, <1>3, PTL DEF LineSpec

-----------------------------------------------------------------------------
(* The open orders of a payload.                                           *)

\* The caller c is about to refill the payload of order o.
Refills(c, o) == work[c] # << >> /\ work[c][1] = Statement("refill", o, "none")

\* A refill can only be the next statement.
LEMMA RefillFirst ==
    ASSUME EdgeInv, NEW c \in Callers, NEW i \in DOMAIN work[c], NEW o,
           work[c][i] = Statement("refill", o, "none")
    PROVE  Refills(c, o)
<1> DEFINE w == work[c]
<1>1. w \in Seq(Step) /\ \A j \in 1..Len(w) - 1 : After(w[j], w[j + 1])
  BY DEF EdgeInv, WorkInv, GoodWork, Program, Chain
<1>2. w[i].do = "refill"
  BY DEF Statement
<1>3. i = 1
  <2> SUFFICES ASSUME i # 1 PROVE FALSE
    OBVIOUS
  <2>1. i - 1 \in 1..Len(w) - 1 /\ (i - 1) + 1 = i
    BY <1>1
  <2>2. After(w[i - 1], w[i])
    BY <1>1, <2>1
  <2>3. QED
    BY <1>2, <2>2 DEF After
<1>4. w # << >>
  BY <1>1
<1>5. QED
  BY <1>3, <1>4 DEF Refills

\* An order of a slot is open while it is not over, or its refill is next.
LEMMA OpenIs ==
    ASSUME EdgeInv, NEW s, NEW o
    PROVE  o \in OpenOrders(s) <=>
             /\ o \in OrderIds /\ orders[o].type = "retrieve" /\ orders[o].slot = s
             /\ ~IsTerminal(orders[o].status) \/ \E c \in Callers : Refills(c, o)
<1>1. ASSUME NEW c \in Callers, NEW i \in DOMAIN work[c],
             work[c][i] = Statement("refill", o, "none")
      PROVE  Refills(c, o)
  BY <1>1, RefillFirst
<1>2. ASSUME NEW c \in Callers, Refills(c, o)
      PROVE  \E i \in DOMAIN work[c] : work[c][i] = Statement("refill", o, "none")
  <2>1. work[c] \in Seq(Step) /\ work[c] # << >>
    BY <1>2 DEF EdgeInv, EdgeTypes, Refills
  <2>2. 1 \in DOMAIN work[c]
    BY <2>1, EmptySeq
  <2>3. QED
    BY <1>2, <2>2 DEF Refills
<1>3. QED
  BY <1>1, <1>2 DEF OpenOrders

OpenDef(s, o) ==
    o \in OpenOrders(s) <=>
        /\ o \in OrderIds /\ orders[o].type = "retrieve" /\ orders[o].slot = s
        /\ ~IsTerminal(orders[o].status) \/ \E c \in Callers : Refills(c, o)

OpenDefs == \A s, o : OpenDef(s, o)

\* What an open order of a slot is, for every slot and order.
LEMMA OpenAll == EdgeInv => OpenDefs
BY OpenIs DEF OpenDef, OpenDefs

\* An order stays open until its refill is done.
LEMMA OpenStays ==
    ASSUME EdgeInv, EdgeInv', NEW c \in Callers, EdgeAction(c), NEW s \in Slots,
           NEW o, o \in OpenOrders(s), ~(ResetPayload(c) /\ Refills(c, o))
    PROVE  o \in OpenOrders(s)'
<1>1. /\ o \in OrderIds /\ orders[o].type = "retrieve" /\ orders[o].slot = s
      /\ ~IsTerminal(orders[o].status) \/ \E d \in Callers : Refills(d, o)
  BY OpenIs
<1>2. o \in OrderIds' /\ orders'[o].type = "retrieve" /\ orders'[o].slot = s
  BY <1>1, RowsKept DEF Kept
<1>3. (o \in OpenOrders(s) <=>
             /\ o \in OrderIds /\ orders[o].type = "retrieve" /\ orders[o].slot = s
             /\ ~IsTerminal(orders[o].status) \/ \E d \in Callers : Refills(d, o))'
  <2>1. OpenDefs'
    BY OpenAll, PTL
  <2>2. QED
    BY <2>1 DEF OpenDef, OpenDefs
<1>4. ASSUME NEW d \in Callers, Refills(d, o), d # c PROVE Refills(d, o)'
  BY <1>4, OthersWork DEF Refills
<1>5. ASSUME Refills(c, o) PROVE ResetPayload(c)
  <2>1. work[c] # << >> /\ Head(work[c]).do = "refill"
    BY <1>5, HeadOf DEF Refills, Statement
  <2>2. QED
    BY <2>1 DEF EdgeAction, Statements, Decide, WriteStatus, UpdateOrderFinalCount,
         EnqueueOutbox, At, WebCreate, WebOperate, HandleReply, CreateOrder, MayStart
<1>6. CASE \E d \in Callers : Refills(d, o)
  BY <1>2, <1>3, <1>4, <1>5, <1>6
<1>7. CASE ~IsTerminal(orders[o].status) /\ orders'[o].status = orders[o].status
  BY <1>2, <1>3, <1>7
<1>8. CASE /\ ~IsTerminal(orders[o].status)
           /\ WriteStatus(c) /\ work[c] # << >> /\ work[c][1].do = "write"
           /\ o = Owner(work[c]) /\ orders'[o].status = work[c][1].arg
  <2>1. CASE IsTerminal(work[c][1].arg)
    <3>1. s # NoSlot
      BY EdgeAssumption
    <3>2. Completes(o, work[c][1].arg)
      BY <1>1, <2>1, <3>1 DEF Completes
    <3>3. Program(work[c], o) /\ o \in Nat /\ Head(work[c]) = work[c][1]
          /\ Head(work[c]).order = o
      BY <1>8, HeadOf
    <3>4. PICK r : r = AfterWrite(o, work[c][1].arg, work[c])
      OBVIOUS
    <3>5. r # << >> /\ r[1] = Statement("refill", o, "none")
      BY <1>8, <3>2, <3>3, <3>4, WriteGoes
    <3>6. Goes(c, r)
      BY <1>8, <3>3, <3>4 DEF WriteStatus, AfterWrite
    <3>7. work'[c] = r
      BY <3>6 DEF Goes, EdgeInv, EdgeTypes
    <3>8. Refills(c, o)'
      BY <3>5, <3>7 DEF Refills
    <3>9. QED
      BY <1>2, <1>3, <3>8
  <2>2. CASE ~IsTerminal(work[c][1].arg)
    BY <1>2, <1>3, <1>8, <2>2
  <2>3. QED
    BY <2>1, <2>2
<1>9. QED
  BY <1>1, <1>6, <1>7, <1>8, RowsKept

-----------------------------------------------------------------------------
(* A replenishing payload has an order.                                    *)

\* While operators and refills keep off the rows in the counter reader's hand,
\* what it read of a row it has not written yet is what the row holds.
Fresh ==
    \A s \in DOMAIN line.rows :
        line.pc = "count" \/ s # line.at => slots[s] = line.rows[s]

StockInv == TypeInv /\ Fresh /\ ReplenishingHasOrder

\* What a step on an order does to the payloads: a refill, of a row that is not
\* in the counter reader's hand.
LEMMA SlotsKept ==
    ASSUME TypeInv, "slot" \notin Overlaps, NEW c \in Callers, OrderAction(c),
           NEW s \in Slots, slots'[s] # slots[s]
    PROVE  /\ ResetPayload(c) /\ work[c] # << >> /\ Refills(c, Owner(work[c]))
           /\ s \notin DOMAIN line.rows /\ slots'[s].status = "active"
           /\ s = orders[Owner(work[c])].slot
<1>1. slots' # slots
  OBVIOUS
<1>2. ResetPayload(c) /\ (At(c, "refill") => MayRefill(c))
  BY <1>1 DEF OrderAction, Statements, Decide, WriteStatus, UpdateOrderFinalCount,
         EnqueueOutbox, WebCreate, WebOperate, HandleReply, CreateOrder
<1>3. work[c] # << >> /\ Head(work[c]).do = "refill" /\ MayRefill(c)
  BY <1>2 DEF ResetPayload, At
<1> DEFINE o == Owner(work[c])
<1>4. /\ Head(work[c]) = work[c][1] /\ work[c][1] \in Step
      /\ Head(work[c]).order = o
  BY <1>3, HeadOf DEF TypeInv
<1>5. work[c][1] = Statement("refill", o, "none")
  BY <1>3, <1>4 DEF Step, Statement
<1>6. slots' = [slots EXCEPT ![orders[o].slot] = Full(@)]
  BY <1>2, <1>4 DEF ResetPayload
<1>7. slots \in [Slots -> SlotRow]
  BY DEF TypeInv, EdgeInv, EdgeTypes
<1>8. s = orders[o].slot /\ slots'[s] = Full(slots[s])
  BY <1>6, <1>7
<1>9. slots'[s].status = "active"
  BY <1>7, <1>8 DEF Full, SlotRow
<1>10. s \notin DOMAIN line.rows
  BY <1>3, <1>4, <1>8 DEF MayRefill
<1>11. QED
  BY <1>2, <1>3, <1>5, <1>8, <1>9, <1>10 DEF Refills

\* The counter reader takes rows that are in the table.
LEMMA StockOrderStep ==
    ASSUME StockInv, TypeInv', "slot" \notin Overlaps, OrderStep
    PROVE  StockInv'
<1>1. PICK c \in Callers : OrderAction(c) /\ EdgeAction(c)
  BY OrderStepIs
<1>2. UNCHANGED <<line, recounted>>
  BY OrderStepIs
<1>3. Fresh'
  <2>1. DOMAIN line.rows \subseteq Slots
    BY RowTyped DEF StockInv, TypeInv
  <2>2. \A s \in DOMAIN line.rows : slots'[s] = slots[s]
    BY <1>1, <2>1, SlotsKept DEF StockInv
  <2>3. QED
    BY <1>2, <2>2 DEF StockInv, Fresh
<1>4. ReplenishingHasOrder'
  <2> SUFFICES ASSUME NEW s \in Slots, s \notin recounted,
                      slots'[s].status = "replenishing",
                      ~(line.at = s /\ line.pc = "order")
               PROVE  OpenOrders(s)' # {}
    BY <1>2 DEF ReplenishingHasOrder
  <2>1. slots'[s] = slots[s]
    BY <1>1, SlotsKept DEF StockInv
  <2>2. PICK o : o \in OpenOrders(s)
    BY <2>1 DEF StockInv, ReplenishingHasOrder
  <2>3. ASSUME ResetPayload(c), Refills(c, o) PROVE FALSE
    <3>1. Head(work[c]).order = o
      BY <2>3, HeadOf DEF StockInv, TypeInv, Refills, Statement
    <3>2. slots' = [slots EXCEPT ![orders[o].slot] = Full(@)]
      BY <2>3, <3>1 DEF ResetPayload
    <3>3. slots \in [Slots -> SlotRow] /\ orders[o].slot = s
      BY <2>2 DEF StockInv, TypeInv, EdgeInv, EdgeTypes, OpenOrders
    <3>4. slots'[s] = Full(slots[s])
      BY <3>2, <3>3
    <3>5. slots'[s].status = "active"
      BY <3>3, <3>4 DEF Full, SlotRow
    <3>6. QED
      BY <3>5
  <2>4. o \in OpenOrders(s)'
    BY <1>1, <2>2, <2>3, OpenStays DEF StockInv, TypeInv
  <2>5. QED
    BY <2>4
<1>5. QED
  BY <1>3, <1>4 DEF StockInv

\* The orders of a payload stand where neither orders nor work change.
LEMMA OpenSame ==
    ASSUME UNCHANGED <<orders, work>>, NEW s
    PROVE  OpenOrders(s)' = OpenOrders(s)
BY DEF OpenOrders, OrderIds

\* The counter's steps keep a replenishing slot's order, if slots do not overlap.
LEMMA StockLineStep ==
    ASSUME StockInv, TypeInv', "slot" \notin Overlaps, LineStep
    PROVE  StockInv'
<1>1. CASE CounterDelta
  <2>1. /\ UNCHANGED <<orders, slots, work, recounted>> /\ line = Idle
        /\ line'.rows = [s \in {x \in Slots : Counted(x)} |-> slots[s]]
    BY <1>1, CounterDeltaTyped DEF CounterDelta, StockInv
  <2>2. Fresh'
    BY <2>1 DEF Fresh
  <2>3. ReplenishingHasOrder'
    BY <2>1, OpenSame, IdleTyped DEF StockInv, ReplenishingHasOrder
  <2>4. QED
    BY <2>2, <2>3 DEF StockInv
<1>2. ASSUME NEW s \in Slots, CountSlot(s) PROVE StockInv'
  <2>1. /\ UNCHANGED <<orders, work, recounted>> /\ line.pc = "count"
        /\ s \in DOMAIN line.rows
        /\ slots' = [slots EXCEPT ![s].remaining = Left(s),
                              ![s].status = IF Left(s) = 0 THEN "empty"
                                            ELSE line.rows[s].status]
        /\ line' = [line EXCEPT !.at = s, !.pc = "replenish"] \/ line' = NextSlot(s)
    BY <1>2 DEF CountSlot
  <2>2. slots \in [Slots -> SlotRow] /\ slots[s] = line.rows[s]
    BY <2>1 DEF StockInv, Fresh, TypeInv, EdgeInv, EdgeTypes
  <2>3. /\ \A x \in Slots \ {s} : slots'[x] = slots[x]
        /\ slots'[s].status \in {"empty", slots[s].status}
    BY <2>1, <2>2 DEF SlotRow
  <2>4. DOMAIN line.rows \subseteq Slots
    BY RowTyped DEF StockInv, TypeInv
  <2>5. Fresh'
    <3>1. CASE line' = [line EXCEPT !.at = s, !.pc = "replenish"]
      <4>1. line'.rows = line.rows /\ line'.at = s /\ line'.pc = "replenish"
        BY <3>1 DEF StockInv, TypeInv, LineTypes
      <4>2. QED
        BY <2>1, <2>3, <2>4, <4>1 DEF Fresh, StockInv
    <3>2. CASE line' = NextSlot(s)
      <4>1. /\ DOMAIN line'.rows \subseteq DOMAIN line.rows \ {s}
            /\ \A x \in DOMAIN line'.rows : line'.rows[x] = line.rows[x]
        BY <2>1, <3>2, NextTyped DEF StockInv, TypeInv
      <4>2. QED
        BY <2>1, <2>3, <2>4, <4>1 DEF Fresh, StockInv
    <3>3. QED
      BY <2>1, <3>1, <3>2
  <2>6. ReplenishingHasOrder'
    <3> SUFFICES ASSUME NEW x \in Slots, x \notin recounted,
                        slots'[x].status = "replenishing"
                 PROVE  OpenOrders(x)' # {}
      BY <2>1 DEF ReplenishingHasOrder
    <3>1. slots[x].status = "replenishing"
      BY <2>3
    <3>2. OpenOrders(x) # {}
      BY <2>1, <3>1 DEF StockInv, ReplenishingHasOrder
    <3>3. QED
      BY <2>1, <3>2, OpenSame
  <2>7. QED
    BY <2>5, <2>6 DEF StockInv
<1>3. CASE Replenish
  <2> DEFINE s == line.at
  <2>1. /\ UNCHANGED <<orders, work, recounted>> /\ line.pc = "replenish"
        /\ slots' = [slots EXCEPT ![s].remaining = Left(s),
                              ![s].status = "replenishing"]
        /\ line' = [line EXCEPT !.pc = "order"]
    BY <1>3 DEF Replenish
  <2>2. slots \in [Slots -> SlotRow] /\ DOMAIN line.rows \subseteq Slots
    BY RowTyped DEF StockInv, TypeInv, EdgeInv, EdgeTypes
  <2>3. \A x \in Slots \ {s} : slots'[x] = slots[x]
    BY <2>1, <2>2
  <2>4. line'.rows = line.rows /\ line'.at = s /\ line'.pc = "order"
    BY <2>1 DEF StockInv, TypeInv, LineTypes
  <2>5. Fresh'
    BY <2>1, <2>2, <2>3, <2>4 DEF StockInv, Fresh
  <2>6. ReplenishingHasOrder'
    BY <2>1, <2>3, <2>4, OpenSame DEF StockInv, ReplenishingHasOrder
  <2>7. QED
    BY <2>5, <2>6 DEF StockInv
<1>4. CASE HandlePayloadReorder
  <2>1. PICK a, auto : a = line.at /\ CreateOrder("line", "retrieve", a, auto)
    BY <1>4 DEF HandlePayloadReorder
  <2>2. /\ a \in DOMAIN line.rows /\ a \in Slots /\ EdgeAction("line") /\ "line" \in Callers
        /\ line' = NextSlot(a) /\ UNCHANGED recounted
    BY <1>4, <2>1, ReorderIs DEF StockInv, TypeInv
  <2>3. UNCHANGED <<slots, sent>> /\ orders' = Append(orders, NewOrder("retrieve", a, auto))
    BY <2>1 DEF CreateOrder
  <2>4. /\ DOMAIN line'.rows \subseteq DOMAIN line.rows \ {a} /\ line'.pc = "count"
        /\ \A x \in DOMAIN line'.rows : line'.rows[x] = line.rows[x]
    BY <2>2, NextTyped DEF StockInv, TypeInv
  <2>5. Fresh'
    BY <2>1, <2>3, <2>4 DEF Fresh, StockInv
  <2>6. ReplenishingHasOrder'
    <3> SUFFICES ASSUME NEW x \in Slots, x \notin recounted,
                        slots'[x].status = "replenishing"
                 PROVE  OpenOrders(x)' # {}
      BY <2>2 DEF ReplenishingHasOrder
    <3>1. CASE x = a
      <4>1. orders \in Seq(OrderRow)
        BY DEF StockInv, TypeInv, EdgeInv, EdgeTypes
      <4>2. /\ Len(orders) + 1 \in DOMAIN orders'
            /\ orders'[Len(orders) + 1] = NewOrder("retrieve", a, auto)
        BY <2>3, <4>1
      <4>3. Len(orders) + 1 \in OpenOrders(a)'
        BY <4>2 DEF OpenOrders, OrderIds, NewOrder, IsTerminal
      <4>4. QED
        BY <3>1, <4>3
    <3>2. CASE x # a
      <4>1. PICK o : o \in OpenOrders(x)
        BY <2>1, <2>3, <3>2 DEF StockInv, ReplenishingHasOrder
      <4>2. ~ResetPayload("line")
        BY <2>1 DEF CreateOrder, ResetPayload, At
      <4>3. o \in OpenOrders(x)'
        BY <2>2, <4>1, <4>2, OpenStays DEF StockInv, TypeInv
      <4>4. QED
        BY <4>3
    <3>3. QED
      BY <3>1, <3>2
  <2>7. QED
    BY <2>5, <2>6 DEF StockInv
<1>5. QED
  BY <1>1, <1>2, <1>3, <1>4 DEF LineStep

\* So do the operator's steps.
LEMMA StockOperatorStep ==
    ASSUME StockInv, TypeInv', "slot" \notin Overlaps, OperatorStep
    PROVE  StockInv'
<1>1. PICK s \in Slots, new \in SlotRow :
              /\ Operator(s, new)
              /\ \/ recounted' = recounted \cup {s}
                 \/ recounted' = recounted /\ new.status = slots[s].status
  BY OperatorStepIs DEF StockInv
<1>2. /\ slots' = [slots EXCEPT ![s] = new] /\ UNCHANGED <<line, orders, work>>
      /\ s \notin DOMAIN line.rows /\ slots \in [Slots -> SlotRow]
  BY <1>1 DEF Operator, StockInv, TypeInv, EdgeInv, EdgeTypes
<1>3. DOMAIN line.rows \subseteq Slots
  BY RowTyped DEF StockInv, TypeInv
<1>4. Fresh'
  BY <1>2, <1>3 DEF Fresh, StockInv
<1>5. ReplenishingHasOrder'
  <2> SUFFICES ASSUME NEW x \in Slots, x \notin recounted',
                      slots'[x].status = "replenishing"
               PROVE  OpenOrders(x)' # {} \/ (line.at = x /\ line.pc = "order")
    BY <1>2 DEF ReplenishingHasOrder
  <2>1. x \notin recounted /\ slots[x].status = "replenishing"
    BY <1>1, <1>2
  <2>2. OpenOrders(x) # {} \/ (line.at = x /\ line.pc = "order")
    BY <2>1 DEF StockInv, ReplenishingHasOrder
  <2>3. QED
    BY <1>2, <2>2, OpenSame
<1>6. QED
  BY <1>4, <1>5 DEF StockInv

\* Every step.
LEMMA StockStep ==
    ASSUME StockInv, "slot" \notin Overlaps, [LineNext]_lineVars
    PROVE  StockInv'
<1>1. TypeInv'
  BY TypeStep DEF StockInv
<1>2. CASE UNCHANGED lineVars
  <2>1. UNCHANGED <<orders, slots, work, line, recounted>>
    BY <1>2 DEF lineVars
  <2>2. QED
    BY <1>1, <2>1, OpenSame DEF StockInv, Fresh, ReplenishingHasOrder
<1>3. QED
  BY <1>1, <1>2, StockOrderStep, StockLineStep, StockOperatorStep DEF LineNext

\* At the start no slot is replenishing.
LEMMA StockInit ==
    ASSUME LineInit
    PROVE  StockInv
<1>1. TypeInv
  BY TypeInit
<1>2. line = Idle /\ \A s \in Slots : slots[s].status = "active"
  BY DEF LineInit, EdgeInit
<1>3. QED
  BY <1>1, <1>2, IdleTyped DEF StockInv, Fresh, ReplenishingHasOrder

\* While nobody touches the rows in the counter reader's hand, a payload that is
\* shown as replenishing has an order under way, or the reader is creating it:
\* whatever operators, replies and confirmations do to the orders.
THEOREM ReplenishingOrdered ==
    ASSUME "slot" \notin Overlaps
    PROVE  LineSpec => []ReplenishingHasOrder
<1>1. LineInit => StockInv
  BY StockInit
<1>2. StockInv /\ [LineNext]_lineVars => StockInv'
  BY StockStep
<1>3. QED
  BY <1>1, <1>2, PTL DEF StockInv, LineSpec

-----------------------------------------------------------------------------
(* A payload is on order once at a time.                                   *)

\* A refill comes up where a write ends a retrieve order, and nowhere else.
LEMMA RefillComes ==
    ASSUME EdgeInv, NEW c \in Callers, EdgeAction(c), NEW o, Refills(c, o)'
    PROVE  /\ WriteStatus(c) /\ work[c] # << >> /\ work[c][1].do = "write"
           /\ o = Owner(work[c])
<1>1. PICK w : w = work'[c]
  OBVIOUS
<1>2. w # << >> /\ w[1] = Statement("refill", o, "none")
  BY <1>1 DEF Refills
<1>3. w[1].do = "refill" /\ w[1].order = o
  BY <1>2 DEF Statement
<1>4. \A v : Goes(c, v) => v = w
  BY <1>1 DEF Goes, EdgeInv, EdgeTypes
<1>5. ASSUME work[c] # << >>, Goes(c, Tail(work[c])) PROVE FALSE
  <2>1. w = Tail(work[c])
    BY <1>4, <1>5
  <2>2. Program(work[c], Owner(work[c]))
    BY <1>5, HeadOf
  <2>3. PICK v, p : v = work[c] /\ p = Owner(work[c])
    OBVIOUS
  <2>4. Program(v, p) /\ v # << >> /\ Tail(v) # << >> /\ w = Tail(v)
    BY <1>2, <1>5, <2>1, <2>2, <2>3
  <2>5. w[1] = v[2] /\ After(v[1], v[2])
    BY <2>4, TailChain
  <2>6. QED
    BY <1>3, <2>5 DEF After
<1>6. ~Goes(c, << >>)
  BY <1>2, <1>4
<1>7. ASSUME NEW p, NEW v, Begins(v, p), Goes(c, v) PROVE FALSE
  <2>1. v = w
    BY <1>4, <1>7
  <2>2. v[1].do # "refill"
    <3>1. CASE v[1] \in {Statement("unless_over", p, "none"), Statement("if_delivered", p, "none")}
      BY <3>1 DEF Statement
    <3>2. CASE v[1] = Statement("count", p, "none")
      BY <3>2 DEF Statement
    <3>3. ASSUME NEW s, v[1] = Statement("check", p, s) PROVE v[1].do # "refill"
      BY <3>3 DEF Statement
    <3>4. QED
      BY <1>2, <1>7, <2>1, <3>1, <3>2, <3>3 DEF Begins
  <2>3. QED
    BY <1>3, <2>1, <2>2
<1>8. ASSUME NEW type, NEW slot, NEW auto, CreateOrder(c, type, slot, auto) PROVE FALSE
  <2>1. PICK p, v : p = Len(orders) + 1 /\ v = CreateSteps(type, p)
    OBVIOUS
  <2>2. Goes(c, v)
    BY <1>8, <2>1 DEF CreateOrder, CreateSteps
  <2>3. p \in Nat
    BY <2>1 DEF EdgeInv, EdgeTypes
  <2>4. \/ v[1] = Statement("enqueue", p, "request")
        \/ v[1] = Statement("count", p, "none")
    BY <2>1, <2>3, CreateBegins
  <2>5. v[1].do # "refill"
    <3>1. CASE v[1] = Statement("enqueue", p, "request")
      BY <3>1 DEF Statement
    <3>2. CASE v[1] = Statement("count", p, "none")
      BY <3>2 DEF Statement
    <3>3. QED
      BY <2>4, <3>1, <3>2
  <2>6. QED
    BY <1>3, <1>4, <2>2, <2>5
<1>9. OrderIds \subseteq Nat
  BY DEF EdgeInv, EdgeTypes, OrderIds
<1>10. CASE Decide(c) \/ UpdateOrderFinalCount(c) \/ EnqueueOutbox(c) \/ ResetPayload(c)
  <2>1. work[c] # << >> /\ (Goes(c, Tail(work[c])) \/ Goes(c, << >>))
    BY <1>10 DEF Decide, UpdateOrderFinalCount, EnqueueOutbox, ResetPayload, At
  <2>2. QED
    BY <1>5, <1>6, <2>1
<1>11. CASE WriteStatus(c)
  <2>1. work[c] # << >> /\ Head(work[c]).do = "write"
    BY <1>11 DEF WriteStatus, At
  <2>2. PICK p, v, s : p = Owner(work[c]) /\ v = work[c] /\ s = v[1].arg
    OBVIOUS
  <2>3. Head(v) = v[1] /\ v[1].order = p /\ p \in Nat /\ Program(v, p) /\ v # << >>
        /\ v[1].do = "write"
    BY <2>1, <2>2, HeadOf
  <2>4. Goes(c, AfterWrite(p, s, v))
    BY <1>11, <2>2, <2>3 DEF WriteStatus, AfterWrite
  <2>5. w = AfterWrite(p, s, v)
    BY <1>4, <2>4
  <2>6. Program(w, p)
    BY <2>2, <2>3, <2>5, WriteGoes
  <2>7. w[1].order = p
    <3>1. 1 \in 1..Len(w)
      BY <1>2, <2>6, EmptySeq DEF Program, Chain
    <3>2. QED
      BY <2>6, <3>1 DEF Program, Chain
  <2>8. QED
    BY <1>3, <1>11, <2>2, <2>3, <2>7
<1>12. CASE WebCreate(c)
  BY <1>8, <1>12 DEF WebCreate
<1>13. CASE WebOperate(c)
  <2>1. PICK command \in {"submit", "abort", "redirect", "confirm", "count"},
             p \in OrderIds : Goes(c, OrderSteps(command, p))
    BY <1>13 DEF WebOperate
  <2>2. QED
    BY <1>7, <1>9, <2>1, CommandBegins
<1>14. CASE /\ c = "reader"
            /\ \E p \in OrderIds,
                 reply \in {"ack", "waybill", "update", "delivered", "error", "cancelled"} :
                 HandleReply(p, reply)
  <2>1. PICK p \in OrderIds,
             reply \in {"ack", "waybill", "update", "delivered", "error", "cancelled"} :
             Goes(c, HandleDispatchReply(p, reply))
    BY <1>14 DEF HandleReply
  <2>2. QED
    BY <1>7, <1>9, <2>1, ReplyBegins
<1>15. CASE \E s \in Slots, auto \in AutoConfirm : CreateOrder(c, "retrieve", s, auto)
  BY <1>8, <1>15
<1>16. QED
  BY <1>10, <1>11, <1>12, <1>13, <1>14, <1>15 DEF EdgeAction, Statements

\* An order that a step makes open is new.
LEMMA OpenComes ==
    ASSUME OrderInv, EdgeInv', NEW c \in Callers, EdgeAction(c), NEW s \in Slots,
           NEW o, o \in OpenOrders(s)', o \notin OpenOrders(s)
    PROVE  o = Len(orders) + 1 /\ \E auto : CreateOrder(c, "retrieve", s, auto)
<1>1. /\ o \in OrderIds' /\ orders'[o].type = "retrieve" /\ orders'[o].slot = s
      /\ ~IsTerminal(orders'[o].status) \/ \E d \in Callers : Refills(d, o)'
  <2>1. OpenDefs'
    BY OpenAll, PTL
  <2>2. QED
    BY <2>1 DEF OpenDef, OpenDefs
<1>2. EdgeInv
  BY DEF OrderInv
<1>3. CASE o \in OrderIds
  <2>1. Kept(o)
    BY <1>2, <1>3, RowsKept
  <2>2. IsTerminal(orders[o].status) /\ \A d \in Callers : ~Refills(d, o)
    BY <1>1, <1>2, <1>3, <2>1, OpenIs DEF Kept
  <2>3. ~(WriteStatus(c) /\ work[c] # << >> /\ work[c][1].do = "write" /\ o = Owner(work[c]))
    <3> SUFFICES ASSUME work[c] # << >>, work[c][1].do = "write", o = Owner(work[c])
                 PROVE  FALSE
      OBVIOUS
    <3>1. FitsAs(work[c], o, orders[o])
      BY DEF OrderInv, FitsInv, Fits
    <3>2. IsValidTransition(orders[o].status, work[c][1].arg)
      BY <3>1 DEF FitsAs
    <3>3. QED
      BY <2>2, <3>2 DEF IsValidTransition, IsTerminal
  <2>4. orders'[o].status = orders[o].status
    BY <1>2, <1>3, <2>3, RowsKept
  <2>5. PICK d \in Callers : Refills(d, o)'
    BY <1>1, <2>2, <2>4
  <2>6. d # c
    BY <1>2, <2>3, <2>5, RefillComes
  <2>7. Refills(d, o)
    BY <1>2, <2>5, <2>6, OthersWork DEF Refills
  <2>8. QED
    BY <2>2, <2>7
<1>4. CASE o \notin OrderIds
  <2>1. PICK type, slot, auto : CreateOrder(c, type, slot, auto)
    <3>1. UNCHANGED orders \/ WriteStatus(c) \/ UpdateOrderFinalCount(c)
            \/ \E type, slot, auto : CreateOrder(c, type, slot, auto)
      BY DEF EdgeAction, Statements, Decide, EnqueueOutbox, ResetPayload, WebCreate,
             WebOperate, HandleReply
    <3>2. ~UNCHANGED orders
      BY <1>1, <1>4 DEF OrderIds
    <3>3. ASSUME WriteStatus(c) \/ UpdateOrderFinalCount(c) PROVE FALSE
      <4>1. DOMAIN orders' = DOMAIN orders
        BY <3>3, <1>2 DEF WriteStatus, UpdateOrderFinalCount, EdgeInv, EdgeTypes
      <4>2. QED
        BY <1>1, <1>4, <4>1 DEF OrderIds
    <3>4. QED
      BY <3>1, <3>2, <3>3
  <2>2. orders' = Append(orders, NewOrder(type, slot, auto)) /\ orders \in Seq(OrderRow)
    BY <1>2, <2>1 DEF CreateOrder, EdgeInv, EdgeTypes
  <2>3. orders'[o] = NewOrder(type, slot, auto) /\ o = Len(orders) + 1
    BY <1>1, <1>4, <2>2 DEF OrderIds
  <2>4. type = "retrieve" /\ slot = s
    BY <1>1, <2>3 DEF NewOrder
  <2>5. QED
    BY <2>1, <2>3, <2>4
<1>5. QED
  BY <1>3, <1>4

\* A payload that is being ordered is shown as replenishing.
Held == line.pc = "order" => slots[line.at].status = "replenishing"

\* An active payload is not on order, nor is the one that is about to be.
ActiveFree ==
    \A s \in Slots \ recounted : slots[s].status = "active" => OpenOrders(s) = {}

HandFree ==
    line.pc # "count" /\ line.at \notin recounted => OpenOrders(line.at) = {}

ReorderInv ==
    StockInv /\ OrderInv /\ Held /\ ActiveFree /\ HandFree /\ OneReorderAtATime

\* Where only slots change, what goroutines are about to do fits the orders.
LEMMA OrderSlotsOnly ==
    ASSUME OrderInv, EdgeInv', UNCHANGED <<orders, sent, work>>
    PROVE  OrderInv'
BY DEF OrderInv, Exclusive, FitsInv, Fits, FitsAs, SaidInv, SaidFits, Said,
       Confirming, Owner, OrderIds

\* No order that an operator or core brings about is for a payload.
LEMMA NoneOpens ==
    ASSUME OrderInv, EdgeInv', "refill" \notin Commands, NEW c \in Callers,
           OrderAction(c), EdgeAction(c), NEW s \in Slots
    PROVE  OpenOrders(s)' \subseteq OpenOrders(s)
<1> SUFFICES ASSUME NEW o, o \in OpenOrders(s)', o \notin OpenOrders(s) PROVE FALSE
  OBVIOUS
<1>1. PICK auto : CreateOrder(c, "retrieve", s, auto)
  BY OpenComes
<1>2. /\ work[c] = << >> /\ orders \in Seq(OrderRow)
      /\ orders' = Append(orders, NewOrder("retrieve", s, auto))
  BY <1>1 DEF CreateOrder, OrderInv, EdgeInv, EdgeTypes
<1>3. ~UNCHANGED orders
  BY <1>2
<1>4. WebCreate(c)
  BY <1>2, <1>3 DEF OrderAction, Statements, Decide, WriteStatus, UpdateOrderFinalCount,
       EnqueueOutbox, ResetPayload, At, WebOperate, HandleReply
<1>5. PICK type, slot, on : /\ slot = NoSlot \/ type # "retrieve"
                            /\ CreateOrder(c, type, slot, on)
  BY <1>4 DEF WebCreate
<1>6. orders' = Append(orders, NewOrder(type, slot, on))
  BY <1>5 DEF CreateOrder
<1>7. NewOrder(type, slot, on) = NewOrder("retrieve", s, auto)
  <2>1. PICK i : i = Len(orders) + 1
    OBVIOUS
  <2>2. orders'[i] = NewOrder(type, slot, on) /\ orders'[i] = NewOrder("retrieve", s, auto)
    BY <1>2, <1>6, <2>1
  <2>3. QED
    BY <2>2
<1>8. type = "retrieve" /\ slot = s
  BY <1>7 DEF NewOrder
<1>9. QED
  BY <1>5, <1>8, EdgeAssumption

\* The refill of a payload ends the order it came from.
LEMMA RefillCloses ==
    ASSUME ReorderInv, EdgeInv', NEW c \in Callers, EdgeAction(c),
           ResetPayload(c), work[c] # << >>, Refills(c, Owner(work[c])),
           NEW s \in Slots, s \notin recounted, s = orders[Owner(work[c])].slot,
           OpenOrders(s)' \subseteq OpenOrders(s)
    PROVE  OpenOrders(s)' = {}
<1>0. EdgeInv /\ OrderInv
  BY DEF ReorderInv, OrderInv
<1>1. PICK o : o = Owner(work[c])
  OBVIOUS
<1>2. o \in OrderIds /\ FitsAs(work[c], o, orders[o]) /\ work[c][1].do = "refill"
  <2>1. o \in OrderIds /\ FitsAs(work[c], o, orders[o])
    BY <1>0, <1>1, HeadOf DEF OrderInv, FitsInv, Fits
  <2>2. QED
    BY <1>1, <2>1 DEF Refills, Statement
<1>3. IsTerminal(orders[o].status) /\ orders[o].type = "retrieve" /\ orders[o].slot = s
  BY <1>1, <1>2 DEF FitsAs
<1>4. o \in OpenOrders(s)
  BY <1>0, <1>1, <1>2, <1>3, OpenIs
<1>5. ASSUME NEW p \in OpenOrders(s)' PROVE FALSE
  <2>1. p = o
    BY <1>4, <1>5 DEF ReorderInv, OneReorderAtATime
  <2>2. ~IsTerminal(orders'[p].status) \/ \E d \in Callers : Refills(d, p)'
    <3>1. OpenDefs'
      BY OpenAll, PTL
    <3>2. QED
      BY <1>5, <3>1 DEF OpenDef, OpenDefs
  <2>3. PICK d \in Callers : Refills(d, o)'
    BY <1>3, <2>1, <2>2 DEF ResetPayload
  <2>4. d # c
    BY <1>0, <1>2, <2>3, RefillComes
  <2>5. Refills(d, o)
    BY <1>0, <2>3, <2>4, OthersWork DEF Refills
  <2>6. Owner(work[d]) = o
    BY <2>5 DEF Refills, Owner, Statement
  <2>7. QED
    BY <1>0, <1>1, <2>4, <2>5, <2>6 DEF OrderInv, Exclusive, Refills
<1>6. QED
  BY <1>5

\* The order manager's steps make no second reorder of a slot.
LEMMA ReorderOrderStep ==
    ASSUME ReorderInv, StockInv', "slot" \notin Overlaps, "order" \notin Overlaps,
           "refill" \notin Commands, OrderStep
    PROVE  ReorderInv'
<1>1. PICK c \in Callers : OrderAction(c) /\ EdgeAction(c)
  BY OrderStepIs
<1>2. UNCHANGED <<line, recounted>>
  BY OrderStepIs
<1>3. TypeInv /\ OrderInv /\ EdgeInv' /\ DOMAIN line.rows \subseteq Slots
  BY RowTyped DEF ReorderInv, StockInv, TypeInv
<1>4. OrderInv'
  BY <1>1, <1>3, OrderInvStep
<1>5. \A s \in Slots : OpenOrders(s)' \subseteq OpenOrders(s)
  BY <1>1, <1>3, NoneOpens
<1>6. line.pc # "count" => line.at \in DOMAIN line.rows /\ line.at \in Slots
  BY <1>3 DEF TypeInv, LineTypes
<1>7. Held'
  BY <1>1, <1>2, <1>3, <1>6, SlotsKept DEF ReorderInv, Held
<1>8. HandFree'
  <2>1. ASSUME line.pc # "count", line.at \notin recounted
        PROVE  \A a : a = line.at => OpenOrders(a)' = {}
    BY <1>5, <1>6, <2>1 DEF ReorderInv, HandFree
  <2>2. QED
    BY <1>2, <2>1 DEF HandFree, OpenOrders, OrderIds
<1>9. OneReorderAtATime'
  BY <1>2, <1>5 DEF ReorderInv, OneReorderAtATime
<1>10. ActiveFree'
  <2> SUFFICES ASSUME NEW s \in Slots, s \notin recounted, slots'[s].status = "active"
               PROVE  OpenOrders(s)' = {}
    BY <1>2 DEF ActiveFree
  <2>1. CASE slots'[s] = slots[s]
    BY <1>5, <2>1 DEF ReorderInv, ActiveFree
  <2>2. CASE slots'[s] # slots[s]
    <3>1. /\ ResetPayload(c) /\ work[c] # << >> /\ Refills(c, Owner(work[c]))
          /\ s = orders[Owner(work[c])].slot
      BY <1>1, <1>3, <2>2, SlotsKept
    <3>2. QED
      BY <1>1, <1>3, <1>5, <3>1, RefillCloses
  <2>3. QED
    BY <2>1, <2>2
<1>11. QED
  BY <1>4, <1>7, <1>8, <1>9, <1>10 DEF ReorderInv

\* The counter orders for a slot only when it has no reorder open.
LEMMA ReorderLineStep ==
    ASSUME ReorderInv, StockInv', "slot" \notin Overlaps, "order" \notin Overlaps, LineStep
    PROVE  ReorderInv'
<1>1. /\ TypeInv /\ TypeInv' /\ OrderInv /\ EdgeInv' /\ DOMAIN line.rows \subseteq Slots
      /\ slots \in [Slots -> SlotRow]
  BY RowTyped DEF ReorderInv, StockInv, TypeInv, EdgeInv, EdgeTypes
<1>2. CASE CounterDelta
  <2>1. /\ UNCHANGED <<orders, slots, sent, work, recounted>> /\ line'.pc = "count"
    BY <1>2, IdleTyped DEF CounterDelta, Idle
  <2>2. OrderInv'
    BY <1>1, <2>1, OrderSlotsOnly
  <2>3. QED
    BY <2>1, <2>2, OpenSame DEF ReorderInv, Held, ActiveFree, HandFree, OneReorderAtATime
<1>3. ASSUME NEW s \in Slots, CountSlot(s) PROVE ReorderInv'
  <2>1. /\ UNCHANGED <<orders, sent, work, recounted>> /\ line.pc = "count"
        /\ s \in DOMAIN line.rows
        /\ slots' = [slots EXCEPT ![s].remaining = Left(s),
                              ![s].status = IF Left(s) = 0 THEN "empty"
                                            ELSE line.rows[s].status]
        /\ \/ Reorders(s) /\ line' = [line EXCEPT !.at = s, !.pc = "replenish"]
           \/ line' = NextSlot(s)
    BY <1>3 DEF CountSlot
  <2>2. slots[s] = line.rows[s]
    BY <2>1 DEF ReorderInv, StockInv, Fresh
  <2>3. /\ \A x \in Slots \ {s} : slots'[x] = slots[x]
        /\ slots'[s].status \in {"empty", slots[s].status}
    BY <1>1, <2>1, <2>2 DEF SlotRow
  <2>4. OrderInv'
    BY <1>1, <2>1, OrderSlotsOnly
  <2>5. ActiveFree' /\ OneReorderAtATime'
    <3>1. \A x \in Slots : slots'[x].status = "active" => slots[x].status = "active"
      BY <2>3
    <3>2. \A x : OpenOrders(x)' = OpenOrders(x)
      BY <2>1, OpenSame
    <3>3. QED
      BY <2>1, <3>1, <3>2 DEF ReorderInv, ActiveFree, OneReorderAtATime
  <2>6. CASE line' = NextSlot(s)
    <3>1. line'.pc = "count"
      BY <1>1, <2>1, <2>6, NextTyped DEF TypeInv
    <3>2. QED
      BY <2>4, <2>5, <3>1 DEF ReorderInv, Held, HandFree
  <2>7. CASE Reorders(s) /\ line' = [line EXCEPT !.at = s, !.pc = "replenish"]
    <3>1. line'.at = s /\ line'.pc = "replenish"
      BY <1>1, <2>7 DEF TypeInv, LineTypes
    <3>2. line.rows[s].status = "active"
      BY <1>1, <2>1, <2>7 DEF Reorders, TypeInv, LineTypes
    <3>3. s \notin recounted => OpenOrders(s) = {}
      BY <2>2, <3>2 DEF ReorderInv, ActiveFree
    <3>4. s \notin recounted => OpenOrders(s)' = {}
      BY <2>1, <3>3, OpenSame
    <3>5. HandFree'
      BY <2>1, <3>1, <3>4 DEF HandFree, OpenOrders, OrderIds
    <3>6. QED
      BY <2>4, <2>5, <3>1, <3>5 DEF ReorderInv, Held
  <2>8. QED
    BY <2>1, <2>6, <2>7
<1>4. CASE Replenish
  <2>1. PICK s : s = line.at
    OBVIOUS
  <2>2. /\ UNCHANGED <<orders, sent, work, recounted>> /\ line.pc = "replenish"
        /\ slots' = [slots EXCEPT ![s].remaining = Left(s),
                              ![s].status = "replenishing"]
        /\ line' = [line EXCEPT !.pc = "order"]
    BY <1>4, <2>1 DEF Replenish
  <2>3. s \in Slots /\ line'.at = s /\ line'.pc = "order"
    BY <1>1, <2>1, <2>2 DEF TypeInv, LineTypes
  <2>4. (\A x \in Slots \ {s} : slots'[x] = slots[x]) /\ slots'[s].status = "replenishing"
    BY <1>1, <2>2, <2>3 DEF SlotRow
  <2>5. OrderInv'
    BY <1>1, <2>2, OrderSlotsOnly
  <2>6. ActiveFree' /\ OneReorderAtATime'
    BY <2>2, <2>4, OpenSame DEF ReorderInv, ActiveFree, OneReorderAtATime
  <2>7. s \notin recounted => OpenOrders(s)' = {}
    BY <2>1, <2>2, OpenSame DEF ReorderInv, HandFree
  <2>8. HandFree' /\ Held'
    BY <2>2, <2>3, <2>4, <2>7 DEF HandFree, Held, OpenOrders, OrderIds
  <2>9. QED
    BY <2>5, <2>6, <2>8 DEF ReorderInv
<1>5. CASE HandlePayloadReorder
  <2>1. PICK a, auto : a = line.at /\ CreateOrder("line", "retrieve", a, auto)
    BY <1>5 DEF HandlePayloadReorder
  <2>2. /\ a \in DOMAIN line.rows /\ a \in Slots /\ EdgeAction("line") /\ "line" \in Callers
        /\ line' = NextSlot(a) /\ UNCHANGED recounted
    BY <1>1, <1>5, <2>1, ReorderIs DEF TypeInv
  <2>3. UNCHANGED slots /\ orders' = Append(orders, NewOrder("retrieve", a, auto))
    BY <2>1 DEF CreateOrder
  <2>4. line'.pc = "count" /\ line.pc = "order"
    BY <1>1, <1>5, <2>2, NextTyped DEF TypeInv, HandlePayloadReorder
  <2>5. OrderInv'
    BY <1>1, <2>2, OrderInvStep
  <2>6. ASSUME NEW x \in Slots, NEW o \in OpenOrders(x)', o \notin OpenOrders(x)
        PROVE  x = a /\ o = Len(orders) + 1
    <3>1. PICK on : o = Len(orders) + 1 /\ CreateOrder("line", "retrieve", x, on)
      BY <1>1, <2>2, <2>6, OpenComes
    <3>2. orders' = Append(orders, NewOrder("retrieve", x, on))
      BY <3>1 DEF CreateOrder
    <3>3. orders \in Seq(OrderRow)
      BY <1>1 DEF OrderInv, EdgeInv, EdgeTypes
    <3>4. NewOrder("retrieve", x, on) = NewOrder("retrieve", a, auto)
      <4>1. /\ orders'[o] = NewOrder("retrieve", x, on)
            /\ orders'[o] = NewOrder("retrieve", a, auto)
        BY <2>3, <3>1, <3>2, <3>3
      <4>2. QED
        BY <4>1
    <3>5. QED
      BY <3>1, <3>4 DEF NewOrder
  <2>7. slots[a].status = "replenishing" /\ (a \notin recounted => OpenOrders(a) = {})
    BY <2>1, <2>4 DEF ReorderInv, Held, HandFree
  <2>8. ActiveFree'
    <3> SUFFICES ASSUME NEW x \in Slots, x \notin recounted, slots[x].status = "active"
                 PROVE  OpenOrders(x)' = {}
      BY <2>2, <2>3 DEF ActiveFree
    <3>1. x # a /\ OpenOrders(x) = {}
      BY <2>7 DEF ReorderInv, ActiveFree
    <3>2. QED
      BY <2>6, <3>1
  <2>9. OneReorderAtATime'
    <3> SUFFICES ASSUME NEW x \in Slots, x \notin recounted,
                        NEW o \in OpenOrders(x)', NEW p \in OpenOrders(x)'
                 PROVE  o = p
      BY <2>2 DEF OneReorderAtATime
    <3>1. CASE x = a
      BY <2>6, <2>7, <3>1
    <3>2. CASE x # a
      BY <2>6, <3>2 DEF ReorderInv, OneReorderAtATime
    <3>3. QED
      BY <3>1, <3>2
  <2>10. QED
    BY <2>4, <2>5, <2>8, <2>9 DEF ReorderInv, Held, HandFree
<1>6. QED
  BY <1>2, <1>3, <1>4, <1>5 DEF LineStep

\* An operator's step leaves one reorder at most.
LEMMA ReorderOperatorStep ==
    ASSUME ReorderInv, StockInv', "slot" \notin Overlaps, OperatorStep
    PROVE  ReorderInv'
<1>1. PICK s \in Slots, new \in SlotRow :
              /\ Operator(s, new)
              /\ \/ recounted' = recounted \cup {s}
                 \/ recounted' = recounted /\ new.status = slots[s].status
  BY OperatorStepIs DEF ReorderInv, StockInv
<1>2. /\ slots' = [slots EXCEPT ![s] = new] /\ UNCHANGED <<line, orders, sent, work>>
      /\ s \notin DOMAIN line.rows /\ slots \in [Slots -> SlotRow]
  BY <1>1 DEF Operator, ReorderInv, OrderInv, EdgeInv, EdgeTypes
<1>3. line.pc # "count" => line.at \in Slots /\ line.at # s
  BY <1>2, RowTyped DEF ReorderInv, StockInv, TypeInv, LineTypes
<1>4. OrderInv'
  BY <1>2, OrderSlotsOnly DEF ReorderInv, StockInv, TypeInv
<1>5. \A x : OpenOrders(x)' = OpenOrders(x)
  BY <1>2, OpenSame
<1>6. /\ \A x \in Slots : slots'[x] = IF x = s THEN new ELSE slots[x]
      /\ recounted \subseteq recounted'
  BY <1>1, <1>2
<1>7. Held'
  BY <1>2, <1>3, <1>6 DEF ReorderInv, Held
<1>8. ActiveFree'
  BY <1>1, <1>5, <1>6 DEF ReorderInv, ActiveFree
<1>9. HandFree'
  <2>1. line.pc # "count" /\ line.at \notin recounted' => OpenOrders(line.at) = {}
    BY <1>6 DEF ReorderInv, HandFree
  <2>2. QED
    BY <1>2, <2>1 DEF HandFree, OpenOrders, OrderIds
<1>10. OneReorderAtATime'
  BY <1>5, <1>6 DEF ReorderInv, OneReorderAtATime
<1>11. QED
  BY <1>4, <1>7, <1>8, <1>9, <1>10 DEF ReorderInv

\* While operations neither overlap on an order nor touch the rows in the counter
\* reader's hand, and the counter reader alone orders material for a payload, a
\* payload is on order once at a time.
THEOREM OrderedOnce ==
    ASSUME "slot" \notin Overlaps, "order" \notin Overlaps, "refill" \notin Commands
    PROVE  LineSpec => []OneReorderAtATime
<1>1. LineInit => ReorderInv
  <2> SUFFICES ASSUME LineInit PROVE ReorderInv
    OBVIOUS
  <2>1. StockInv /\ OrderInv
    BY StockInit, OrderInvInit DEF LineInit
  <2>2. line.pc = "count" /\ \A s : OpenOrders(s) = {}
    BY DEF LineInit, EdgeInit, Idle, OpenOrders, OrderIds
  <2>3. QED
    BY <2>1, <2>2 DEF ReorderInv, Held, ActiveFree, HandFree, OneReorderAtATime
<1>2. ReorderInv /\ [LineNext]_lineVars => ReorderInv'
  <2> SUFFICES ASSUME ReorderInv, [LineNext]_lineVars PROVE ReorderInv'
    OBVIOUS
  <2>1. StockInv'
    BY StockStep DEF ReorderInv
  <2>2. CASE UNCHANGED lineVars
    <3>1. UNCHANGED <<orders, slots, sent, work, line, recounted>>
      BY <2>2 DEF lineVars
    <3>2. OrderInv'
      BY <2>1, <3>1, OrderSlotsOnly DEF ReorderInv, StockInv, TypeInv
    <3>3. QED
      BY <2>1, <3>1, <3>2, OpenSame
         DEF ReorderInv, Held, ActiveFree, HandFree, OneReorderAtATime, OpenOrders, OrderIds
  <2>3. QED
    BY <2>1, <2>2, ReorderOrderStep, ReorderLineStep, ReorderOperatorStep DEF LineNext
<1>3. QED
  BY <1>1, <1>2, PTL DEF ReorderInv, LineSpec

-----------------------------------------------------------------------------
(* The orders follow the life cycle.                                       *)

StatusOf == [o \in OrderIds |-> orders[o].status]

\* The statements of the manager check and say what the life cycle does.
LEMMA SameRules ==
    /\ \A from, to : IsValidTransition(from, to) => Abstract!Allowed(from, to)
    /\ \A st, kind : Calls(st, kind) => kind \in Abstract!CallsFor(st)
    /\ \A o, kind : Abstract!Sent(o, kind) <=> Said(o, kind)
<1>1. ASSUME NEW from, NEW to, IsValidTransition(from, to) PROVE Abstract!Allowed(from, to)
  BY <1>1 DEF IsValidTransition, IsTerminal, Abstract!Allowed, Abstract!Over
<1>2. ASSUME NEW st, NEW kind, Calls(st, kind) PROVE kind \in Abstract!CallsFor(st)
  BY <1>2 DEF Calls, IsTerminal, Abstract!CallsFor, Abstract!Over
<1>3. QED
  BY <1>1, <1>2 DEF Abstract!Sent, Said

\* A status written is a step of the life cycle.
LEMMA WriteAdvances ==
    ASSUME OrderInv, NEW c \in Callers, WriteStatus(c)
    PROVE  Abstract!LifecycleNext
<1>1. work[c] # << >> /\ Head(work[c]).do = "write" /\ UNCHANGED sent
  BY DEF WriteStatus, At
<1>2. PICK o \in OrderIds, v \in Seq(Step) : Working(c, o, v)
  BY <1>1, AtWork
<1>3. PICK s : s = v[1].arg
  OBVIOUS
<1>4. v[1].do = "write" /\ s \in OrderStatus
  BY <1>1, <1>2, <1>3 DEF Working, Step
<1>5. orders' = [orders EXCEPT ![o].status = s]
  BY <1>2, <1>3 DEF WriteStatus, Working
<1>6. IsValidTransition(orders[o].status, s)
  BY <1>2, <1>3, <1>4 DEF Working, FitsAs
<1>7. orders \in Seq(OrderRow)
  BY DEF OrderInv, EdgeInv, EdgeTypes
<1>8. StatusOf' = [StatusOf EXCEPT ![o] = s]
  <2>1. \A p \in OrderIds : orders[p] \in OrderRow
    BY <1>7 DEF OrderIds
  <2>2. OrderIds' = OrderIds
    BY <1>5 DEF OrderIds
  <2>3. \A p \in OrderIds : orders'[p].status = IF p = o THEN s ELSE orders[p].status
    BY <1>5, <2>1 DEF OrderIds, OrderRow
  <2>4. QED
    BY <2>2, <2>3 DEF StatusOf
<1>9. o \in DOMAIN StatusOf /\ StatusOf[o] = orders[o].status
  BY DEF StatusOf
<1>10. Abstract!Allowed(StatusOf[o], s)
  BY <1>6, <1>9, SameRules
<1>11. s \in {"submitted", "acknowledged", "in_transit", "delivered"} \cup Abstract!Over
  BY <1>6 DEF IsValidTransition, Abstract!Over
<1>12. Abstract!Advance(o, s)
  BY <1>1, <1>8, <1>10 DEF Abstract!Advance, StatusOf
<1>13. QED
  BY <1>9, <1>11, <1>12 DEF Abstract!LifecycleNext, StatusOf

\* A message enqueued is a step of the life cycle that tells core.
LEMMA EnqueueTells ==
    ASSUME OrderInv, NEW c \in Callers, EnqueueOutbox(c)
    PROVE  Abstract!LifecycleNext
<1>1. work[c] # << >> /\ Head(work[c]).do = "enqueue" /\ UNCHANGED orders
  BY DEF EnqueueOutbox, At
<1>2. PICK o \in OrderIds, v \in Seq(Step) : Working(c, o, v)
  BY <1>1, AtWork
<1>3. PICK k : k = v[1].arg
  OBVIOUS
<1>4. v[1].do = "enqueue" /\ sent' = Append(sent, [order |-> o, kind |-> k])
  BY <1>1, <1>2, <1>3 DEF Working, EnqueueOutbox
<1>5. Calls(orders[o].status, k) /\ (k = "redirect" \/ ~Said(o, k))
  BY <1>2, <1>3, <1>4 DEF Working, FitsAs
<1>6. o \in DOMAIN StatusOf /\ StatusOf[o] = orders[o].status
  BY DEF StatusOf
<1>7. k \in Abstract!CallsFor(StatusOf[o]) /\ (k = "redirect" \/ ~Abstract!Sent(o, k))
  BY <1>5, <1>6, SameRules
<1>8. StatusOf' = StatusOf
  BY <1>1 DEF StatusOf, OrderIds
<1>9. Abstract!Tell(o, k)
  BY <1>4, <1>7, <1>8 DEF Abstract!Tell, StatusOf
<1>10. QED
  BY <1>6, <1>7, <1>9 DEF Abstract!LifecycleNext, StatusOf

\* A new order is the life cycle's creation.
LEMMA CreateCreates ==
    ASSUME EdgeInv, NEW c, NEW type, NEW slot, NEW auto, CreateOrder(c, type, slot, auto)
    PROVE  Abstract!LifecycleNext
<1>1. orders' = Append(orders, NewOrder(type, slot, auto)) /\ UNCHANGED sent
  BY DEF CreateOrder
<1>2. orders \in Seq(OrderRow)
  BY DEF EdgeInv, EdgeTypes
<1>3. PICK n \in Nat : n = Len(orders)
  BY <1>2
<1>4. /\ OrderIds = 1..n /\ OrderIds' = 1 .. n + 1
      /\ orders'[n + 1].status = "pending"
      /\ \A o \in 1..n : orders'[o] = orders[o]
  BY <1>1, <1>2, <1>3 DEF OrderIds, NewOrder
<1>5. StatusOf \in Seq(OrderStatus) /\ Len(StatusOf) = n
  <2>1. \A o \in OrderIds : orders[o] \in OrderRow
    BY <1>2 DEF OrderIds
  <2>2. StatusOf \in [1..n -> OrderStatus]
    BY <1>4, <2>1 DEF StatusOf, OrderRow
  <2>3. QED
    BY <1>3, <2>2, SeqDef, LenProperties
<1>6. StatusOf' = [o \in 1 .. n + 1 |-> IF o = n + 1 THEN "pending" ELSE StatusOf[o]]
  BY <1>4 DEF StatusOf
<1>7. Append(StatusOf, "pending")
        = [o \in 1 .. n + 1 |-> IF o = n + 1 THEN "pending" ELSE StatusOf[o]]
  <2>1. PICK st \in Seq(OrderStatus) : st = StatusOf
    BY <1>5
  <2>2. PICK new : new = Append(st, "pending")
    OBVIOUS
  <2>3. /\ new \in Seq(OrderStatus) /\ Len(new) = n + 1 /\ new[n + 1] = "pending"
        /\ \A o \in 1..n : new[o] = st[o]
    BY <1>5, <2>1, <2>2, AppendProperties DEF OrderStatus
  <2>4. new \in [1 .. n + 1 -> OrderStatus]
    BY <2>3, LenProperties
  <2>5. new = [o \in 1 .. n + 1 |-> IF o = n + 1 THEN "pending" ELSE st[o]]
    BY <2>3, <2>4
  <2>6. QED
    BY <2>1, <2>2, <2>5
<1>8. Abstract!Create
  BY <1>1, <1>6, <1>7 DEF Abstract!Create, StatusOf
<1>9. QED
  BY <1>8 DEF Abstract!LifecycleNext

\* What happens to an order is a step of its life cycle, or none.
LEMMA LifeStep ==
    ASSUME OrderInv, NEW c \in Callers, EdgeAction(c)
    PROVE  [Abstract!LifecycleNext]_Abstract!lifecycle
<1>1. CASE WriteStatus(c)
  BY <1>1, WriteAdvances
<1>2. CASE EnqueueOutbox(c)
  BY <1>2, EnqueueTells
<1>3. ASSUME NEW type, NEW slot, NEW auto, CreateOrder(c, type, slot, auto)
      PROVE  [Abstract!LifecycleNext]_Abstract!lifecycle
  BY <1>3, CreateCreates DEF OrderInv
<1>4. CASE UpdateOrderFinalCount(c)
  <2>1. PICK o : orders' = [orders EXCEPT ![o].counted = TRUE] /\ UNCHANGED sent
    BY <1>4 DEF UpdateOrderFinalCount
  <2>2. orders \in Seq(OrderRow)
    BY DEF OrderInv, EdgeInv, EdgeTypes
  <2>3. StatusOf' = StatusOf
    BY <2>1, <2>2 DEF StatusOf, OrderIds, OrderRow
  <2>4. QED
    BY <2>1, <2>3 DEF Abstract!lifecycle, StatusOf
<1>5. CASE UNCHANGED <<orders, sent>>
  BY <1>5 DEF Abstract!lifecycle, OrderIds
<1>6. \/ UNCHANGED <<orders, sent>> \/ WriteStatus(c) \/ EnqueueOutbox(c)
      \/ UpdateOrderFinalCount(c) \/ \E type, slot, auto : CreateOrder(c, type, slot, auto)
  BY DEF EdgeAction, Statements, Decide, ResetPayload, WebCreate, WebOperate, HandleReply
<1>7. QED
  BY <1>1, <1>2, <1>3, <1>4, <1>5, <1>6

LifeInv == TypeInv /\ OrderInv

\* Every step of the line is a step of the life cycle or leaves it alone.
LEMMA LifeInvStep ==
    ASSUME LifeInv, "order" \notin Overlaps, [LineNext]_lineVars
    PROVE  LifeInv' /\ [Abstract!LifecycleNext]_Abstract!lifecycle
<1>1. TypeInv /\ OrderInv /\ TypeInv' /\ EdgeInv'
  BY TypeStep DEF LifeInv, TypeInv
<1>2. CASE UNCHANGED <<orders, sent, work>>
  BY <1>1, <1>2, OrderSlotsOnly DEF LifeInv, Abstract!lifecycle, OrderIds
<1>3. ASSUME NEW c \in Callers, EdgeAction(c)
      PROVE  LifeInv' /\ [Abstract!LifecycleNext]_Abstract!lifecycle
  BY <1>1, <1>3, OrderInvStep, LifeStep DEF LifeInv
<1>4. CASE OrderStep
  BY <1>3, <1>4, OrderStepIs
<1>5. CASE HandlePayloadReorder
  BY <1>1, <1>3, <1>5, ReorderIs DEF TypeInv
<1>6. CASE CounterDelta \/ (\E s \in Slots : CountSlot(s)) \/ Replenish
  BY <1>2, <1>6 DEF CounterDelta, CountSlot, Replenish
<1>7. CASE OperatorStep
  BY <1>1, <1>2, <1>7, OperatorStepIs DEF Operator
<1>8. CASE UNCHANGED lineVars
  BY <1>2, <1>8 DEF lineVars
<1>9. QED
  BY <1>4, <1>5, <1>6, <1>7, <1>8 DEF LineNext, LineStep

\* While operations on one order do not overlap, the orders of a line follow the
\* life cycle of the protocol, and every message is sent in the state that calls
\* for it, once unless it is a redirect: OrderLifecycle is implemented.
THEOREM FollowsLifecycle ==
    ASSUME "order" \notin Overlaps
    PROVE  LineSpec => Lifecycle
<1>1. LineInit => LifeInv /\ Abstract!LifecycleInit
  <2> SUFFICES ASSUME LineInit PROVE LifeInv /\ Abstract!LifecycleInit
    OBVIOUS
  <2>1. LifeInv
    BY TypeInit, OrderInvInit DEF LineInit, LifeInv
  <2>2. sent = << >> /\ OrderIds = {}
    BY DEF LineInit, EdgeInit, OrderIds
  <2>3. [o \in OrderIds |-> orders[o].status] = << >>
    BY <2>2
  <2>4. QED
    BY <2>1, <2>2, <2>3 DEF Abstract!LifecycleInit
<1>2. LifeInv /\ [LineNext]_lineVars =>
        LifeInv' /\ [Abstract!LifecycleNext]_Abstract!lifecycle
  BY LifeInvStep
<1>3. QED
  BY <1>1, <1>2, PTL DEF LineSpec, Lifecycle, Abstract!Spec
=============================================================================
