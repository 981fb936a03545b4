---------------------------- MODULE EdgeRegistry -----------------------------
(***************************************************************************)
(* How core knows which edges live: an edge registers and asks for the     *)
(* list of nodes when it starts, and beats every minute (heartbeat.go);    *)
(* core keeps a row per edge and every minute marks the silent ones stale  *)
(* (core_handler.go, edge_registry.go). These messages are published       *)
(* directly, not through the outbox. Edges do not touch each other's rows, *)
(* so there is one.                                                        *)
(*                                                                         *)
(* Time passes in minutes. Within one the edge beats, core handles what    *)
(* was sent and sweeps, unless a fault delays it or core listens no more:  *)
(* the goroutine of its reader returns with the first error (client.go),   *)
(* and a core that finds no broker at its start has none. Nobody notices;  *)
(* a save of the settings or a restart brings a reader back (KafkaClient). *)
(***************************************************************************)
EXTENDS Naturals, Sequences, SequencesExt

CONSTANTS
    Threshold,         \* minutes of silence after which an edge is stale
    Tries,             \* attempts of publishWithRetry
    RegistryFaults,    \* the faults that happen in this instance
    MaxRegistryFaults, \* bound on faults
    MaxNodeLists,      \* bound on changes of core's nodes
    MaxSyncs,          \* bound on an operator's requests for the node list
    MaxOnWire          \* bound on messages under way

ASSUME RegistryAssumption ==
    /\ Threshold \in Nat /\ Tries \in Nat \ {0} /\ MaxRegistryFaults \in Nat
    /\ MaxNodeLists \in Nat /\ MaxSyncs \in Nat /\ MaxOnWire \in Nat
    /\ RegistryFaults \subseteq {"publish", "lose", "late", "restart", "mute", "manual",
                               "reader_ends"}

VARIABLES
    edge,          \* up; what Start still has to send, and the attempts left;
                   \* the attempts left of an operator's request for the list
                   \* (0: none); beat in this minute; its node list
    wire,          \* to core, in order
    answers,       \* node lists under way to the edge, in order
    row,           \* the edge's row: status, minutes since last_heartbeat
    listening,     \* core has a reader
    sweep,         \* the step of the sweep under way
    nodeList,      \* how often core's nodes changed
    syncs,         \* an operator's requests
    registryFaults

registryVars ==
    <<edge, wire, answers, row, listening, sweep, nodeList, syncs, registryFaults>>

Never == Threshold + 2       \* last_heartbeat NULL

Silent(r) == r.age # Never /\ r.age > Threshold

RegistryFault(f) ==
    /\ f \in RegistryFaults /\ registryFaults < MaxRegistryFaults
    /\ registryFaults' = registryFaults + 1

(***************************************************************************)
(* The edge.                                                               *)
(***************************************************************************)
Starting == [up |-> TRUE, queue |-> <<"register", "list">>, left |-> Tries,
             sync |-> 0, beat |-> FALSE, list |-> 0]

StartHeartbeater ==
    /\ ~edge.up
    /\ edge' = Starting
    /\ UNCHANGED <<wire, answers, row, listening, sweep, nodeList, syncs, registryFaults>>

Send(m) == Len(wire) < MaxOnWire /\ wire' = Append(wire, m)

NextInQueue == [edge EXCEPT !.queue = Tail(@), !.left = Tries]

\* What fails thrice is given up, the registration included.
PublishWithRetry ==
    /\ edge.up /\ edge.queue # << >>
    /\ \/ /\ Send(Head(edge.queue))
          /\ edge' = NextInQueue
          /\ UNCHANGED registryFaults
       \/ /\ RegistryFault("publish")
          /\ edge' = IF edge.left > 1 THEN [edge EXCEPT !.left = @ - 1] ELSE NextInQueue
          /\ UNCHANGED wire
    /\ UNCHANGED <<answers, row, listening, sweep, nodeList, syncs>>

\* The loop starts when Start has tried to register and to ask for the list.
SendHeartbeat ==
    /\ edge.up /\ edge.queue = << >> /\ ~edge.beat
    /\ edge' = [edge EXCEPT !.beat = TRUE]
    /\ \/ Send("heartbeat") /\ UNCHANGED registryFaults
       \/ RegistryFault("mute") /\ UNCHANGED wire
    /\ UNCHANGED <<answers, row, listening, sweep, nodeList, syncs>>

\* An operator asks for the list while the loop beats on.
RequestNodeSync ==
    /\ edge.up /\ edge.sync = 0 /\ syncs < MaxSyncs
    /\ edge' = [edge EXCEPT !.sync = Tries]
    /\ syncs' = syncs + 1
    /\ UNCHANGED <<wire, answers, row, listening, sweep, nodeList, registryFaults>>

SendNodeListRequest ==
    /\ edge.up /\ edge.sync > 0
    /\ \/ /\ Send("list")
          /\ edge' = [edge EXCEPT !.sync = 0]
          /\ UNCHANGED registryFaults
       \/ /\ RegistryFault("publish")
          /\ edge' = [edge EXCEPT !.sync = @ - 1]
          /\ UNCHANGED wire
    /\ UNCHANGED <<answers, row, listening, sweep, nodeList, syncs>>

\* The page for messages by hand sends any of them at any time, untried again.
SendManualMessage ==
    /\ edge.up /\ RegistryFault("manual")
    /\ \E m \in {"register", "heartbeat", "list"} : Send(m)
    /\ UNCHANGED <<edge, answers, row, listening, sweep, nodeList, syncs>>

StopEdge ==
    /\ edge.up /\ RegistryFault("restart")
    /\ edge' = [Starting EXCEPT !.up = FALSE]
    /\ UNCHANGED <<wire, answers, row, listening, sweep, nodeList, syncs>>

SetCoreNodes ==
    /\ edge.up /\ answers # << >>
    /\ edge' = [edge EXCEPT !.list = Head(answers)]
    /\ answers' = Tail(answers)
    /\ UNCHANGED <<wire, row, listening, sweep, nodeList, syncs, registryFaults>>

(***************************************************************************)
(* Core.                                                                   *)
(***************************************************************************)
Reads(m) == listening /\ wire # << >> /\ Head(wire) = m /\ wire' = Tail(wire)

\* The upsert leaves last_heartbeat as it was.
RegisterEdge ==
    /\ Reads("register")
    /\ row' = [row EXCEPT !.status = "active"]
    /\ UNCHANGED <<edge, answers, listening, sweep, nodeList, syncs, registryFaults>>

\* Deviation: a heartbeat leaves the status as it is.
UpdateHeartbeatOnly ==
    /\ Reads("heartbeat")
    /\ row' = IF row.status = "unknown" THEN row ELSE [row EXCEPT !.age = 0]
    /\ UNCHANGED <<edge, answers, listening, sweep, nodeList, syncs, registryFaults>>

\* UPDATE ... WHERE station_id = ?: nothing happens to an unknown edge.
UpdateHeartbeat ==
    /\ Reads("heartbeat")
    /\ row' = IF row.status = "unknown" THEN row ELSE [status |-> "active", age |-> 0]
    /\ UNCHANGED <<edge, answers, listening, sweep, nodeList, syncs, registryFaults>>

HandleNodeListRequest ==
    /\ Reads("list")
    /\ answers' = Append(answers, nodeList)
    /\ UNCHANGED <<edge, row, listening, sweep, nodeList, syncs, registryFaults>>

LoseMessage ==
    /\ wire # << >> /\ RegistryFault("lose")
    /\ wire' = Tail(wire)
    /\ UNCHANGED <<edge, answers, row, listening, sweep, nodeList, syncs>>

\* ReadMessage fails, for good. If it failed in a commit that arrived, what was
\* read is lost.
CoreReaderExits ==
    /\ listening /\ RegistryFault("reader_ends")
    /\ listening' = FALSE
    /\ UNCHANGED wire \/ (wire # << >> /\ wire' = Tail(wire))
    /\ UNCHANGED <<edge, answers, row, sweep, nodeList, syncs>>

\* Somebody saves core's settings, or restarts it, which cuts a sweep short.
Resubscribe ==
    /\ ~listening
    /\ listening' = TRUE
    /\ UNCHANGED sweep \/ sweep' = "done"
    /\ UNCHANGED <<edge, wire, answers, row, nodeList, syncs, registryFaults>>

\* What nobody reads outlives its lifetime (a heartbeat 90 seconds, the others
\* five minutes) and is dropped by the reader that comes.
Expire ==
    /\ ~listening /\ wire # << >>
    /\ wire' = Tail(wire)
    /\ UNCHANGED <<edge, answers, row, listening, sweep, nodeList, syncs, registryFaults>>

ChangeNodes ==
    /\ nodeList < MaxNodeLists
    /\ nodeList' = nodeList + 1
    /\ UNCHANGED <<edge, wire, answers, row, listening, sweep, syncs, registryFaults>>

\* MarkStaleEdges: a SELECT of who will go stale, then the UPDATE.
SelectStale ==
    /\ sweep = "select"
    /\ sweep' = IF row.status = "active" /\ Silent(row)
                THEN "update" ELSE "done"
    /\ UNCHANGED <<edge, wire, answers, row, listening, nodeList, syncs, registryFaults>>

\* Deviation: the UPDATE names the edges of the SELECT and looks no more.
UpdateStaleSelected ==
    /\ sweep = "update"
    /\ row' = [row EXCEPT !.status = "stale"]
    /\ sweep' = "notify"
    /\ UNCHANGED <<edge, wire, answers, listening, nodeList, syncs, registryFaults>>

UpdateStale ==
    /\ sweep = "update"
    /\ row' = IF row.status = "active" /\ Silent(row)
              THEN [row EXCEPT !.status = "stale"] ELSE row
    /\ sweep' = "notify"
    /\ UNCHANGED <<edge, wire, answers, listening, nodeList, syncs, registryFaults>>

\* The edge only logs the notice.
SendStaleNotification ==
    /\ sweep = "notify"
    /\ sweep' = "done"
    /\ UNCHANGED <<edge, wire, answers, row, listening, nodeList, syncs, registryFaults>>

Minute ==
    /\ sweep = "done"
    /\ \/ /\ wire = << >> \/ ~listening
          /\ edge.up => edge.queue = << >> /\ edge.beat
          /\ UNCHANGED registryFaults
       \/ RegistryFault("late")
    /\ edge' = [edge EXCEPT !.beat = FALSE]
    /\ row' = IF row.age > Threshold THEN row ELSE [row EXCEPT !.age = @ + 1]
    /\ sweep' = "select"
    /\ UNCHANGED <<wire, answers, listening, nodeList, syncs>>

RegistryInit ==
    /\ edge = Starting
    /\ wire = << >> /\ answers = << >>
    /\ row = [status |-> "unknown", age |-> Never]
    /\ listening = TRUE
    /\ sweep = "done"
    /\ nodeList = 0 /\ syncs = 0 /\ registryFaults = 0

RegistryNext ==
    \/ StartHeartbeater \/ PublishWithRetry \/ SendHeartbeat \/ RequestNodeSync
    \/ SendNodeListRequest \/ SendManualMessage
    \/ StopEdge \/ SetCoreNodes
    \/ RegisterEdge \/ UpdateHeartbeat \/ HandleNodeListRequest \/ LoseMessage
    \/ CoreReaderExits \/ Resubscribe \/ Expire
    \/ ChangeNodes \/ SelectStale \/ UpdateStale \/ SendStaleNotification \/ Minute

\* An edge that was stopped comes back, its goroutine sends, core's reader
\* reads as long as there is one, and core's ticker ticks. Nobody need save the
\* settings.
RegistryFairness ==
    /\ WF_registryVars(StartHeartbeater)
    /\ WF_registryVars(PublishWithRetry \/ SendHeartbeat)
    /\ WF_registryVars(SendNodeListRequest)
    /\ WF_registryVars(RegisterEdge \/ UpdateHeartbeat \/ HandleNodeListRequest)
    /\ WF_registryVars(SelectStale \/ UpdateStale \/ SendStaleNotification \/ Minute)

RegistrySpec == RegistryInit /\ [][RegistryNext]_registryVars /\ RegistryFairness

(***************************************************************************)
(* Properties.                                                             *)
(***************************************************************************)
\* Type: the row, the edge and the sweep are in their ranges.
RegistryTypeOK ==
    /\ listening \in BOOLEAN
    /\ row \in [status : {"unknown", "active", "stale"}, age : 0..Never]
    /\ edge.left \in 1..Tries /\ edge.sync \in 0..Tries /\ edge.list \in 0..nodeList
    /\ sweep \in {"select", "update", "notify", "done"}
    /\ \A i \in DOMAIN wire : wire[i] \in {"register", "heartbeat", "list"}

\* Only an edge that has been silent for longer than the threshold is shown
\* stale, whatever arrives between the sweep's SELECT and its UPDATE; an edge
\* that never beat is not (edge_registry.go:83).
StaleIsSilent == row.status = "stale" => Silent(row)

\* An edge that core knows is shown active for good once nothing goes wrong any
\* more, though it was stale, restarted or registered again before - unless core
\* has lost its reader and nobody subscribes it again: then the edge stays stale.
KnownEdgeRecovers ==
    [](row.status # "unknown" => <>[](row.status = "active" \/ ~listening))
=============================================================================
