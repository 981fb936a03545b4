----------------------------- MODULE EdgeOrders -----------------------------
(***************************************************************************)
(* The order manager of shingo-edge: creating, submitting, aborting,       *)
(* redirecting and confirming orders, and folding the replies of core into *)
(* them.                                                                   *)
(*                                                                         *)
(* No operation is a transaction: it is a sequence of SQL statements, each *)
(* atomic (the database has one connection), and other goroutines run      *)
(* between them. work[c] is what the goroutine c still has to do: the      *)
(* statements of its operation, in order. TransitionOrder is two of them,  *)
(* a check and a write. A failed check drops what is left.                 *)
(*                                                                         *)
(* History rows, browser events and the fields of an order that no         *)
(* decision reads (quantity, nodes, ETA, waybill) are left out.            *)
(***************************************************************************)
EXTENDS Naturals, Sequences

CONSTANTS
    Slots,         \* rows of the edge's payloads table: material at the line
    NoSlot,        \* payload_id NULL
    Units,         \* production_units of a full payload
    Points,        \* the reorder points in use
    Webs,          \* goroutines that serve web requests
    Callers,       \* every goroutine: Webs, the Kafka reader, the counter reader
    Commands,      \* the operations that happen in this instance
    Replies,       \* the kinds of replies that come from core in this instance
    AutoConfirm,   \* values of the auto_confirm flag
    Overlaps,      \* whether operations on one "order", on one "slot", may overlap
    MaxOrders,     \* bound on orders
    MaxSent        \* bound on messages sent to core

OrderStatus == {"pending", "submitted", "acknowledged", "in_transit",
                "delivered", "confirmed", "cancelled", "failed"}

SlotStatus == {"active", "replenishing", "empty"}

ASSUME EdgeAssumption ==
    /\ Units \in Nat
    /\ Points \subseteq 0..Units
    /\ NoSlot \notin Slots
    /\ Webs \cup {"reader"} \subseteq Callers
    /\ Overlaps \subseteq {"order", "slot"}
    /\ AutoConfirm \subseteq BOOLEAN
    /\ Replies \subseteq {"ack", "waybill", "update", "delivered", "error", "cancelled"}
    /\ MaxOrders \in Nat /\ MaxSent \in Nat

VARIABLES
    orders,        \* rows of the orders table, by id
    slots,         \* rows of the payloads table
    sent,          \* the messages enqueued for core: [order, kind]
    work           \* per goroutine, the statements left to run

edgeVars == <<orders, slots, sent, work>>

IsTerminal(s) == s \in {"confirmed", "cancelled", "failed"}

\* Deviation: nothing says that an order is over.
IsValidTransitionAny(from, to) ==
    \/ to \in {"cancelled", "failed"}
    \/ <<from, to>> \in {<<"pending", "submitted">>,
                         <<"submitted", "acknowledged">>,
                         <<"acknowledged", "in_transit">>,
                         <<"in_transit", "delivered">>,
                         <<"delivered", "confirmed">>}

IsValidTransition(from, to) ==
    \/ ~IsTerminal(from) /\ to \in {"cancelled", "failed"}
    \/ <<from, to>> \in {<<"pending", "submitted">>,
                         <<"submitted", "acknowledged">>,
                         <<"acknowledged", "in_transit">>,
                         <<"in_transit", "delivered">>,
                         <<"delivered", "confirmed">>}

OrderIds == DOMAIN orders

NewOrder(type, slot, auto) ==
    [type |-> type, slot |-> slot, auto |-> auto, status |-> "pending",
     counted |-> FALSE]

Statement(do, o, arg) == [do |-> do, order |-> o, arg |-> arg]

TransitionOrder(o, s) == <<Statement("check", o, s), Statement("write", o, s)>>

Enqueue(o, kind) == <<Statement("enqueue", o, kind)>>

\* CreateRetrieveOrder and CreateMoveOrder, once the row is in.
RequestSteps(o) == Enqueue(o, "request") \o TransitionOrder(o, "submitted")

SubmitSteps(o) ==
    TransitionOrder(o, "submitted")
        \o IF orders[o].type = "store" THEN Enqueue(o, "waybill") ELSE << >>

\* CreateStoreOrder is only called to set the count and submit at once.
StoreSteps(o) ==
    <<Statement("count", o, "none")>> \o TransitionOrder(o, "submitted")
        \o Enqueue(o, "waybill")

AbortSteps(o) ==
    <<Statement("unless_over", o, "none")>> \o TransitionOrder(o, "cancelled")
        \o Enqueue(o, "cancel")

RedirectSteps(o) == <<Statement("unless_over", o, "none")>> \o Enqueue(o, "redirect")

\* Deviation: any order can be confirmed.
ConfirmStepsAny(o) ==
    <<Statement("count", o, "none")>> \o Enqueue(o, "receipt")
        \o TransitionOrder(o, "confirmed")

\* Deviation: the receipt follows the transition.
ConfirmStepsLate(o) ==
    <<Statement("if_delivered", o, "none"), Statement("count", o, "none")>>
        \o TransitionOrder(o, "confirmed") \o Enqueue(o, "receipt")

ConfirmSteps(o) ==
    <<Statement("if_delivered", o, "none"), Statement("count", o, "none")>>
        \o Enqueue(o, "receipt") \o TransitionOrder(o, "confirmed")

ReplyStatus == [ack |-> "acknowledged", waybill |-> "in_transit",
                delivered |-> "delivered", error |-> "failed",
                cancelled |-> "cancelled"]

HandleDispatchReply(o, reply) ==
    IF reply = "update" THEN << >> ELSE TransitionOrder(o, ReplyStatus[reply])

(***************************************************************************)
(* The statements.                                                         *)
(***************************************************************************)
At(c, do) == work[c] # << >> /\ Head(work[c]).do = do

Goes(c, steps) == work' = [work EXCEPT ![c] = steps]

\* A read that decides whether the operation goes on.
Decide(c) ==
    \E do \in {"check", "unless_over", "if_delivered"} :
        /\ At(c, do)
        /\ LET s == Head(work[c])
               row == orders[s.order]
               passes ==
                   CASE do = "unless_over"  -> ~IsTerminal(row.status)
                     [] do = "if_delivered" -> row.status = "delivered"
                     [] do = "check" ->
                            /\ IsValidTransition(row.status, s.arg)
                            /\ ~ /\ row.type = "store"
                                 /\ s.arg = "submitted"
                                 /\ ~row.counted
           IN  Goes(c, IF passes THEN Tail(work[c]) ELSE << >>)
        /\ UNCHANGED <<orders, slots, sent>>

\* EmitOrderCompleted calls handleOrderCompleted before TransitionOrder returns.
CompletedSteps(o, s) ==
    IF IsTerminal(s) /\ orders[o].slot # NoSlot /\ orders[o].type = "retrieve"
    THEN <<Statement("refill", o, "none")>> ELSE << >>

WriteStatus(c) ==
    /\ At(c, "write")
    /\ LET o == Head(work[c]).order
           s == Head(work[c]).arg
       IN  /\ orders' = [orders EXCEPT ![o].status = s]
           /\ Goes(c, CompletedSteps(o, s)
                        \o (IF s = "delivered" /\ orders[o].auto
                            THEN ConfirmSteps(o) ELSE << >>)
                        \o Tail(work[c]))
    /\ UNCHANGED <<slots, sent>>

UpdateOrderFinalCount(c) ==
    /\ At(c, "count")
    /\ orders' = [orders EXCEPT ![Head(work[c]).order].counted = TRUE]
    /\ Goes(c, Tail(work[c]))
    /\ UNCHANGED <<slots, sent>>

EnqueueOutbox(c) ==
    /\ At(c, "enqueue")
    /\ Len(sent) < MaxSent
    /\ sent' = Append(sent, [order |-> Head(work[c]).order,
                             kind |-> Head(work[c]).arg])
    /\ Goes(c, Tail(work[c]))
    /\ UNCHANGED <<orders, slots>>

FullAsBefore(slot) == [slot EXCEPT !.remaining = Units]  \* Deviation: not the status.

Full(slot) == [slot EXCEPT !.remaining = Units, !.status = "active"]

\* handleOrderCompleted: the retrieve order's payload is as good as full.
ResetPayload(c) ==
    /\ At(c, "refill")
    /\ LET s == orders[Head(work[c]).order].slot
       IN  slots' = [slots EXCEPT ![s] = Full(@)]
    /\ Goes(c, Tail(work[c]))
    /\ UNCHANGED <<orders, sent>>

(***************************************************************************)
(* The operations start.                                                   *)
(***************************************************************************)
Busy(o) == \E c \in Callers : \E i \in DOMAIN work[c] : work[c][i].order = o

MayStart(c, o) == work[c] = << >> /\ ("order" \in Overlaps \/ ~Busy(o))

\* INSERT INTO orders, and what the operation does with the new row.
CreateOrder(c, type, slot, auto) ==
    /\ work[c] = << >>
    /\ Len(orders) < MaxOrders
    /\ orders' = Append(orders, NewOrder(type, slot, auto))
    /\ LET o == Len(orders) + 1
       IN  Goes(c, IF type = "store" THEN StoreSteps(o) ELSE RequestSteps(o))
    /\ UNCHANGED <<slots, sent>>

OrderSteps(command, o) ==
    CASE command = "submit"   -> SubmitSteps(o)
      [] command = "abort"    -> AbortSteps(o)
      [] command = "redirect" -> RedirectSteps(o)
      [] command = "confirm"  -> ConfirmSteps(o)
      [] command = "count"    -> <<Statement("count", o, "none")>>

WebCreate(c) ==
    \E type \in {"retrieve", "move", "store"} \cap Commands :
        \E slot \in Slots \cup {NoSlot} :
            \E auto \in IF type = "retrieve" THEN AutoConfirm ELSE {FALSE} :
                /\ slot = NoSlot \/ type # "retrieve" \/ "refill" \in Commands
                /\ CreateOrder(c, type, slot, auto)

WebOperate(c) ==
    \E command \in Commands \cap {"submit", "abort", "redirect", "confirm", "count"},
       o \in OrderIds :
        /\ MayStart(c, o)
        /\ Goes(c, OrderSteps(command, o))
        /\ UNCHANGED <<orders, slots, sent>>

\* The Kafka reader handles one message at a time.
HandleReply(o, reply) ==
    /\ MayStart("reader", o)
    /\ Goes("reader", HandleDispatchReply(o, reply))
    /\ UNCHANGED <<orders, slots, sent>>

\* Core answers about the orders it has heard of.
Heard(o) == \E i \in DOMAIN sent : sent[i].order = o

Receive ==
    \E o \in OrderIds, reply \in Replies : Heard(o) /\ HandleReply(o, reply)

Statements(c) ==
    Decide(c) \/ WriteStatus(c) \/ UpdateOrderFinalCount(c)
        \/ EnqueueOutbox(c) \/ ResetPayload(c)

EdgeInit ==
    /\ orders = << >>
    /\ slots \in [Slots -> [remaining : {Units}, status : {"active"},
                            point : Points, auto : {TRUE}]]
    /\ sent = << >>
    /\ work = [c \in Callers |-> << >>]
=============================================================================
