--------------------------- MODULE OrderLifecycle ---------------------------
(***************************************************************************)
(* What an edge promises about its orders, without saying how: the status  *)
(* of an order moves along the state machine of the protocol only, and     *)
(* every message about it is sent in the state that calls for it and, but  *)
(* for a redirect, once.                                                   *)
(***************************************************************************)
EXTENDS Naturals, Sequences

VARIABLES
    status,        \* by order
    sent           \* the messages sent to core: [order, kind]

lifecycle == <<status, sent>>

Over == {"confirmed", "cancelled", "failed"}

Allowed(from, to) ==
    \/ <<from, to>> \in {<<"pending", "submitted">>,
                         <<"submitted", "acknowledged">>,
                         <<"acknowledged", "in_transit">>,
                         <<"in_transit", "delivered">>,
                         <<"delivered", "confirmed">>}
    \/ from \notin Over /\ to \in {"cancelled", "failed"}

CallsFor(s) ==
    (CASE s = "pending"   -> {"request"}
       [] s = "submitted" -> {"waybill"}
       [] s = "delivered" -> {"receipt"}
       [] s = "cancelled" -> {"cancel"}
       [] OTHER           -> {}) \cup (IF s \in Over THEN {} ELSE {"redirect"})

Sent(o, kind) == \E i \in DOMAIN sent : sent[i] = [order |-> o, kind |-> kind]

LifecycleInit == status = << >> /\ sent = << >>

Create == status' = Append(status, "pending") /\ UNCHANGED sent

Advance(o, s) ==
    /\ Allowed(status[o], s)
    /\ status' = [status EXCEPT ![o] = s]
    /\ UNCHANGED sent

Tell(o, kind) ==
    /\ kind \in CallsFor(status[o])
    /\ kind = "redirect" \/ ~Sent(o, kind)
    /\ sent' = Append(sent, [order |-> o, kind |-> kind])
    /\ UNCHANGED status

LifecycleNext ==
    \/ Create
    \/ \E o \in DOMAIN status :
          \/ \E s \in {"submitted", "acknowledged", "in_transit",
                       "delivered"} \cup Over : Advance(o, s)
          \/ \E kind \in CallsFor(status[o]) : Tell(o, kind)

Spec == LifecycleInit /\ [][LifecycleNext]_lifecycle
=============================================================================
