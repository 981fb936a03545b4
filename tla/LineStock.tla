----------------------------- MODULE LineStock ------------------------------
(***************************************************************************)
(* The material at the production lines of an edge, and its orders: the    *)
(* counter reader subtracts what was produced from every payload of the    *)
(* active job style and orders a payload that falls to its reorder point;  *)
(* the end of a retrieve order refills it; operators count and adjust.     *)
(*                                                                         *)
(* handleCounterDelta reads all the rows first and writes them back one by *)
(* one, so a row can change under it.                                      *)
(***************************************************************************)
EXTENDS EdgeOrders, Integers

CONSTANTS
    Deltas,        \* what a counter advances by between two polls
    MaxByHand      \* bound on what operators do to payloads

ASSUME LineAssumption ==
    /\ "line" \in Callers
    /\ Deltas \subseteq Nat /\ MaxByHand \in Nat

VARIABLES
    line,          \* the counter reader: the delta, and the rows as they were read
    byHand,        \* how often an operator changed a payload
    recounted      \* history: payloads whose status an operator has set

lineVars == <<orders, slots, sent, work, line, byHand, recounted>>

Idle == [delta |-> 0, rows |-> << >>, at |-> NoSlot, pc |-> "count"]

\* ListActivePayloadsByJobStyle
Counted(s) == slots[s].status \in {"active", "replenishing"}

LessOr0Below(n, d) == n - d     \* Deviation: no clamp.

LessOr0(n, d) == IF d > n THEN 0 ELSE n - d

Left(s) == LessOr0(line.rows[s].remaining, line.delta)

\* Deviation: what is on order is ordered again.
ReordersAlways(s) ==
    LET row == line.rows[s]
    IN  row.auto /\ row.remaining > row.point /\ Left(s) <= row.point

Reorders(s) ==
    LET row == line.rows[s]
    IN  /\ row.auto
        /\ row.remaining > row.point /\ Left(s) <= row.point
        /\ row.status # "replenishing"

Without(f, s) == [x \in DOMAIN f \ {s} |-> f[x]]

NextSlot(s) == IF DOMAIN line.rows = {s} THEN Idle
               ELSE [line EXCEPT !.rows = Without(@, s), !.at = NoSlot, !.pc = "count"]

\* The order of the rows (ORDER BY location) does not matter here.
CounterDelta ==
    /\ line = Idle /\ work["line"] = << >>
    /\ \E d \in Deltas :
          LET rows == {s \in Slots : Counted(s)}
          IN  /\ rows # {}
              /\ line' = [Idle EXCEPT !.delta = d,
                                      !.rows = [s \in rows |-> slots[s]]]
    /\ UNCHANGED <<orders, slots, sent, work, byHand, recounted>>

CountSlot(s) ==
    /\ line.pc = "count" /\ work["line"] = << >>
    /\ s \in DOMAIN line.rows
    /\ slots' = [slots EXCEPT ![s].remaining = Left(s),
                              ![s].status = IF Left(s) = 0 THEN "empty"
                                            ELSE line.rows[s].status]
    /\ line' = IF Reorders(s) THEN [line EXCEPT !.at = s, !.pc = "replenish"]
               ELSE NextSlot(s)
    /\ UNCHANGED <<orders, sent, work, byHand, recounted>>

Replenish ==
    /\ line.pc = "replenish"
    /\ slots' = [slots EXCEPT ![line.at].remaining = Left(line.at),
                              ![line.at].status = "replenishing"]
    /\ line' = [line EXCEPT !.pc = "order"]
    /\ UNCHANGED <<orders, sent, work, byHand, recounted>>

HandlePayloadReorder ==
    /\ line.pc = "order"
    /\ \E auto \in AutoConfirm : CreateOrder("line", "retrieve", line.at, auto)
    /\ line' = NextSlot(line.at)
    /\ UNCHANGED <<byHand, recounted>>

\* What an operator does to a payload. Only here the statements that read a
\* row and write it back are one step.
Operator(s, new) ==
    /\ "slot" \in Overlaps \/ s \notin DOMAIN line.rows
    /\ byHand < MaxByHand /\ byHand' = byHand + 1
    /\ slots' = [slots EXCEPT ![s] = new]
    /\ UNCHANGED <<orders, sent, work, line>>

\* apiPayloadCount: the one thing an operator does that sets the status.
CountStatus(n, s) == IF n = 0 THEN "empty"
                     ELSE IF n <= slots[s].point THEN "replenishing" ELSE "active"

PayloadCount(s) ==
    /\ \/ "recount" \in Commands
          /\ \E n \in 0..Units :
                Operator(s, [slots[s] EXCEPT !.remaining = n, !.status = CountStatus(n, s)])
       \/ "reset" \in Commands /\ Operator(s, Full(slots[s]))
    /\ recounted' = recounted \cup {s}

UpdateReorderPoint(s) ==
    /\ "point" \in Commands
    /\ \E p \in Points : Operator(s, [slots[s] EXCEPT !.point = p])

ToggleAutoReorder(s) ==
    /\ "toggle" \in Commands
    /\ \E on \in BOOLEAN : Operator(s, [slots[s] EXCEPT !.auto = on])

\* The edit form writes remaining and leaves the status as it is.
UpdatePayload(s) ==
    /\ "edit" \in Commands
    /\ \E n \in 0..Units, p \in Points :
          Operator(s, [slots[s] EXCEPT !.remaining = n, !.point = p])

\* A refill waits for the counter reader only where slots may not overlap.
MayRefill(c) ==
    "slot" \in Overlaps \/ orders[Head(work[c]).order].slot \notin DOMAIN line.rows

OrderStep ==
    /\ \/ \E c \in Callers : Statements(c) /\ (At(c, "refill") => MayRefill(c))
       \/ \E c \in Webs : WebCreate(c) \/ WebOperate(c)
       \/ Receive
    /\ UNCHANGED <<line, byHand, recounted>>

LineStep ==
    \/ CounterDelta
    \/ \E s \in Slots : CountSlot(s)
    \/ Replenish
    \/ HandlePayloadReorder

OperatorStep ==
    \E s \in Slots :
        \/ PayloadCount(s)
        \/ /\ UpdateReorderPoint(s) \/ ToggleAutoReorder(s) \/ UpdatePayload(s)
           /\ UNCHANGED recounted

LineInit == EdgeInit /\ line = Idle /\ byHand = 0 /\ recounted = {}

LineNext == OrderStep \/ LineStep \/ OperatorStep

LineSpec == LineInit /\ [][LineNext]_lineVars

(***************************************************************************)
(* Properties.                                                             *)
(***************************************************************************)
\* Type: orders, payloads and messages are over the declared sets.
LineTypeOK ==
    /\ \A o \in OrderIds : orders[o] \in
          [type : {"retrieve", "move", "store"}, slot : Slots \cup {NoSlot},
           auto : BOOLEAN, status : OrderStatus, counted : BOOLEAN]
    /\ slots \in [Slots -> [remaining : 0..Units, status : SlotStatus,
                            point : Points, auto : BOOLEAN]]
    /\ \A i \in DOMAIN sent : sent[i].order \in OrderIds
    /\ line.delta \in Deltas \cup {0} /\ DOMAIN line.rows \subseteq Slots

\* The retrieve orders of a slot that are not over, or whose end is still
\* being applied to it.
OpenOrders(s) ==
    {o \in OrderIds : /\ orders[o].type = "retrieve" /\ orders[o].slot = s
                      /\ \/ ~IsTerminal(orders[o].status)
                         \/ \E c \in Callers : \E i \in DOMAIN work[c] :
                               work[c][i] = Statement("refill", o, "none")}

\* A payload shown as replenishing has an order under way: wiring.go sets the
\* status before it orders and never asks again while it stands, so without
\* an order the line would starve behind it. (An operator's count below the
\* reorder point sets the status with no order: such payloads are set aside.)
ReplenishingHasOrder ==
    \A s \in Slots \ recounted : slots[s].status = "replenishing" =>
        OpenOrders(s) # {} \/ (line.at = s /\ line.pc = "order")

\* A payload is on order once at a time, however toggles, edits and changes of
\* the reorder point fall between the counter's polls: the edge trigger of
\* handleCounterDelta. (An operator's count above the point makes a payload on
\* order "active" again: such payloads are set aside.)
OneReorderAtATime ==
    \A s \in Slots \ recounted : \A o, p \in OpenOrders(s) : o = p

\* The orders follow the life cycle the protocol gives them, and every message
\* is sent in the state that calls for it (OrderLifecycle).
Abstract == INSTANCE OrderLifecycle WITH
                status <- [o \in OrderIds |-> orders[o].status]

Lifecycle == Abstract!Spec
=============================================================================
