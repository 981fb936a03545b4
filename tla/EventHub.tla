------------------------------ MODULE EventHub ------------------------------
(***************************************************************************)
(* How an event inside core or edge reaches the open pages: the event bus  *)
(* calls its subscribers on the goroutine that emits (eventbus.go), one of *)
(* them puts the event on the hub's channel, and the hub's goroutine fans  *)
(* it out to a channel per browser (www/sse.go). Full channels drop.       *)
(*                                                                         *)
(* While the hub fans out it holds the read lock of its clients. A send to *)
(* a closed channel would end the process. A browser that comes back is    *)
(* another one here: every connection has a channel of its own.            *)
(***************************************************************************)
EXTENDS Naturals, Sequences

CONSTANTS
    Browsers,         \* connections of browsers
    Emitters,         \* goroutines that emit events
    BroadcastBuffer,  \* capacity of the hub's channel (256)
    ClientBuffer,     \* capacity of a browser's channel (64)
    MaxEmitted        \* bound on events

ASSUME HubAssumption ==
    /\ BroadcastBuffer \in Nat \ {0} /\ ClientBuffer \in Nat \ {0}
    /\ MaxEmitted \in Nat

VARIABLES
    side,          \* whose hub it is: the two differ in how they let go
    subscribers,   \* of the bus, in order
    emitting,      \* by emitter: the event, and the subscribers still to call
    emitted,       \* events so far
    broadcast,     \* the hub's channel
    hub,           \* the goroutine: what it fans out, and to whom it still must
    stopping,      \* edge: stopChan is closed
    clients,       \* the browsers in the map
    browser        \* by browser: how far it is, and its channel

hubVars == <<side, subscribers, emitting, emitted, broadcast, hub, stopping,
             clients, browser>>

Keepalive == 0
NoEvent == [event |-> Keepalive, calls |-> << >>]
AtSelect == [pc |-> "select", event |-> Keepalive, left |-> {}]

(***************************************************************************)
(* The bus. The engine's own subscribers are in the other modules.         *)
(***************************************************************************)
\* NewRouter subscribes the hub when the engine already runs.
SetupEngineListeners ==
    /\ subscribers = <<"engine">>
    /\ subscribers' = Append(subscribers, "hub")
    /\ UNCHANGED <<side, emitting, emitted, broadcast, hub, stopping, clients, browser>>

\* Emit copies the list under the lock and calls without it.
Emit(e) ==
    /\ emitting[e] = NoEvent /\ emitted < MaxEmitted
    /\ emitted' = emitted + 1
    /\ emitting' = [emitting EXCEPT ![e] = [event |-> emitted', calls |-> subscribers]]
    /\ UNCHANGED <<side, subscribers, broadcast, hub, stopping, clients, browser>>

Broadcast(event) ==
    broadcast' = IF Len(broadcast) < BroadcastBuffer
                 THEN Append(broadcast, event) ELSE broadcast

CallSubscriber(e) ==
    /\ emitting[e].calls # << >>
    /\ IF Head(emitting[e].calls) = "hub"
       THEN Broadcast(emitting[e].event) ELSE UNCHANGED broadcast
    /\ emitting' = [emitting EXCEPT ![e] =
                       IF Len(@.calls) = 1 THEN NoEvent
                       ELSE [event |-> @.event, calls |-> Tail(@.calls)]]
    /\ UNCHANGED <<side, subscribers, emitted, hub, stopping, clients, browser>>

(***************************************************************************)
(* The hub's goroutine.                                                    *)
(***************************************************************************)
FansOut(event) ==
    /\ hub.pc = "select"
    /\ hub' = [pc |-> "fan", event |-> event, left |-> clients]
    /\ UNCHANGED <<side, subscribers, emitting, emitted, stopping, clients, browser>>

TakeBroadcast ==
    /\ broadcast # << >>
    /\ FansOut(Head(broadcast)) /\ broadcast' = Tail(broadcast)

\* Only core's hub sends keepalives through the channels.
TickKeepalive == side = "core" /\ FansOut(Keepalive) /\ UNCHANGED broadcast

SendToClient(b) ==
    /\ hub.pc = "fan" /\ b \in hub.left
    /\ hub' = [hub EXCEPT !.left = @ \ {b}]
    /\ browser' = IF Len(browser[b].queue) < ClientBuffer
                  THEN [browser EXCEPT ![b].queue = Append(@, hub.event)] ELSE browser
    /\ UNCHANGED <<side, subscribers, emitting, emitted, broadcast, stopping, clients>>

FannedOut ==
    /\ hub.pc = "fan" /\ hub.left = {}
    /\ hub' = AtSelect
    /\ UNCHANGED <<side, subscribers, emitting, emitted, broadcast, stopping, clients, browser>>

\* Core offers the signal once, and only a hub at its select takes it; edge
\* closes the channel, which the hub and every handler see in time.
StopHub ==
    /\ ~stopping
    /\ IF side = "core"
       THEN hub.pc = "select" /\ hub' = [hub EXCEPT !.pc = "stopped"] /\ UNCHANGED stopping
       ELSE stopping' = TRUE /\ UNCHANGED hub
    /\ UNCHANGED <<side, subscribers, emitting, emitted, broadcast, clients, browser>>

SeeStop ==
    /\ stopping /\ hub.pc = "select"
    /\ hub' = [hub EXCEPT !.pc = "stopped"]
    /\ UNCHANGED <<side, subscribers, emitting, emitted, broadcast, stopping, clients, browser>>

(***************************************************************************)
(* The handlers of the browsers.                                           *)
(***************************************************************************)
Unlocked == hub.pc # "fan"

AddClient(b) ==
    /\ browser[b].pc = "away" /\ Unlocked
    /\ clients' = clients \cup {b}
    /\ browser' = [browser EXCEPT ![b].pc = "reading"]
    /\ UNCHANGED <<side, subscribers, emitting, emitted, broadcast, hub, stopping>>

ReadEvent(b) ==
    /\ browser[b].pc = "reading" /\ browser[b].queue # << >>
    /\ browser' = [browser EXCEPT ![b].queue = Tail(@)]
    /\ UNCHANGED <<side, subscribers, emitting, emitted, broadcast, hub, stopping, clients>>

\* Deviation: the channel is closed before the client is taken out.
RemoveClientLate(b) ==
    \/ /\ browser[b].pc = "reading"
       /\ browser' = [browser EXCEPT ![b].pc = "closed"]
       /\ UNCHANGED <<side, subscribers, emitting, emitted, broadcast, hub, stopping, clients>>
    \/ /\ browser[b].pc = "closed" /\ Unlocked
       /\ clients' = clients \ {b}
       /\ UNCHANGED <<side, subscribers, emitting, emitted, broadcast, hub, stopping, browser>>

\* The page is left, a write fails or, on the edge, the hub stops. Core closes
\* the channel after the lock, the edge under it.
RemoveClient(b) ==
    \/ /\ browser[b].pc = "reading" /\ Unlocked
       /\ clients' = clients \ {b}
       /\ browser' = [browser EXCEPT
                         ![b].pc = IF side = "core" THEN "removed" ELSE "closed"]
       /\ UNCHANGED <<side, subscribers, emitting, emitted, broadcast, hub, stopping>>
    \/ /\ browser[b].pc = "removed"
       /\ browser' = [browser EXCEPT ![b].pc = "closed"]
       /\ UNCHANGED <<side, subscribers, emitting, emitted, broadcast, hub, stopping, clients>>

HubInit ==
    /\ side \in {"core", "edge"}
    /\ subscribers = <<"engine">>
    /\ emitting = [e \in Emitters |-> NoEvent] /\ emitted = 0
    /\ broadcast = << >> /\ hub = AtSelect /\ stopping = FALSE
    /\ clients = {}
    /\ browser = [b \in Browsers |-> [pc |-> "away", queue |-> << >>]]

HubNext ==
    \/ SetupEngineListeners
    \/ \E e \in Emitters : Emit(e) \/ CallSubscriber(e)
    \/ TakeBroadcast \/ TickKeepalive \/ FannedOut \/ StopHub \/ SeeStop
    \/ \E b \in Browsers : SendToClient(b) \/ AddClient(b) \/ ReadEvent(b) \/ RemoveClient(b)

HubSpec == HubInit /\ [][HubNext]_hubVars

(***************************************************************************)
(* Properties.                                                             *)
(***************************************************************************)
\* Type: the hub, the browsers and the bus are at one of their steps.
HubTypeOK ==
    /\ hub.pc \in {"select", "fan", "stopped"}
    /\ hub.event \in 0..emitted /\ hub.left \subseteq clients
    /\ \A b \in Browsers :
          /\ browser[b].pc \in {"away", "reading", "removed", "closed"}
          /\ Len(browser[b].queue) <= ClientBuffer
    /\ Len(broadcast) <= BroadcastBuffer

\* The hub never sends to a closed channel, which would end the process: a
\* channel is closed only when no round of the hub can still have its browser
\* in the copy it walks, however browsers come and go (sse.go:97).
HubSendsToOpen ==
    hub.pc = "fan" => \A b \in hub.left : browser[b].pc # "closed"
=============================================================================
