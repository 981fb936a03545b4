----------------------------- MODULE LinkProofs ------------------------------
(***************************************************************************)
(* Proofs about the links that are kept up: the hub of the open pages, the *)
(* registry of edges in core, core's connection to Kafka, and the edge's   *)
(* feed from WarLink.                                                      *)
(***************************************************************************)
EXTENDS EdgeRegistry, WarLinkFeed, EventHub, KafkaClient, SequenceTheorems, FiniteSetTheorems, TLAPS

-----------------------------------------------------------------------------
(* The hub sends to open channels.                                         *)

Page == [pc : {"away", "reading", "removed", "closed"}, queue : Seq(Nat)]

HubTypes ==
    /\ emitted \in Nat
    /\ emitting \in [Emitters -> [event : Nat, calls : Seq({"engine", "hub"})]]
    /\ subscribers \in Seq({"engine", "hub"})
    /\ broadcast \in Seq(Nat)
    /\ hub \in [pc : {"select", "fan", "stopped"}, event : Nat, left : SUBSET Browsers]
    /\ clients \in SUBSET Browsers
    /\ browser \in [Browsers -> Page]

\* A page in the map reads its channel, and a round of the hub goes to pages in
\* the map: nobody leaves it while the round holds the lock.
HubInv ==
    /\ HubTypes
    /\ hub.left \subseteq clients
    /\ hub.pc # "fan" => hub.left = {}
    /\ \A b \in clients : browser[b].pc = "reading"

\* An emitter's step sends to open channels only.
LEMMA EmitStep ==
    ASSUME HubInv, NEW e \in Emitters, Emit(e) \/ CallSubscriber(e)
    PROVE  HubInv'
<1>1. UNCHANGED <<hub, clients, browser>>
  BY DEF Emit, CallSubscriber
<1>2. HubTypes'
  <2>1. CASE Emit(e)
    <3>1. PICK m \in [event : Nat, calls : Seq({"engine", "hub"})] :
               emitting' = [emitting EXCEPT ![e] = m]
      <4>1. emitted \in Nat /\ subscribers \in Seq({"engine", "hub"})
        BY DEF HubInv, HubTypes
      <4>2. PICK n \in Nat : n = emitted'
        BY <2>1, <4>1 DEF Emit
      <4>3. emitting' = [emitting EXCEPT ![e] = [event |-> n, calls |-> subscribers]]
        BY <2>1, <4>2 DEF Emit
      <4>4. QED
        BY <4>1, <4>2, <4>3
    <3>2. emitted' \in Nat /\ UNCHANGED <<subscribers, broadcast>>
      BY <2>1 DEF HubInv, HubTypes, Emit
    <3>3. QED
      BY <1>1, <3>1, <3>2 DEF HubInv, HubTypes
  <2>2. CASE CallSubscriber(e)
    <3>1. PICK m : m = emitting[e]
      OBVIOUS
    <3>2. m \in [event : Nat, calls : Seq({"engine", "hub"})] /\ m.calls # << >>
      BY <2>2, <3>1 DEF HubInv, HubTypes, CallSubscriber
    <3>3. Tail(m.calls) \in Seq({"engine", "hub"})
      BY <3>2
    <3>4. PICK n : n = IF Len(m.calls) = 1 THEN NoEvent ELSE [event |-> m.event, calls |-> Tail(m.calls)]
      OBVIOUS
    <3>5. n \in [event : Nat, calls : Seq({"engine", "hub"})]
      <4>1. NoEvent \in [event : Nat, calls : Seq({"engine", "hub"})]
        BY DEF NoEvent, Keepalive
      <4>2. PICK t : t = Tail(m.calls)
        OBVIOUS
      <4>3. [event |-> m.event, calls |-> t] \in [event : Nat, calls : Seq({"engine", "hub"})]
        BY <3>2, <3>3, <4>2
      <4>4. QED
        BY <3>4, <4>1, <4>2, <4>3
    <3>6. emitting' = [emitting EXCEPT ![e] = n]
      BY <2>2, <3>1, <3>4 DEF CallSubscriber
    <3>7. broadcast' \in Seq(Nat)
      <4>1. broadcast \in Seq(Nat) /\ m.event \in Nat
        BY <3>2 DEF HubInv, HubTypes
      <4>2. broadcast' \in {broadcast, Append(broadcast, m.event)}
        BY <2>2, <3>1 DEF CallSubscriber, Broadcast
      <4>3. QED
        BY <4>1, <4>2
    <3>8. UNCHANGED <<subscribers, emitted>>
      BY <2>2 DEF CallSubscriber
    <3>9. QED
      BY <1>1, <3>5, <3>6, <3>7, <3>8 DEF HubInv, HubTypes
  <2>3. QED
    BY <2>1, <2>2
<1>3. QED
  BY <1>1, <1>2 DEF HubInv

\* The hub's own steps keep it so.
LEMMA HubRoundStep ==
    ASSUME HubInv, TakeBroadcast \/ TickKeepalive \/ FannedOut \/ StopHub \/ SeeStop
    PROVE  HubInv'
<1>1. UNCHANGED <<subscribers, emitting, emitted, clients, browser>>
  BY DEF TakeBroadcast, TickKeepalive, FansOut, FannedOut, StopHub, SeeStop
<1>2. broadcast' \in Seq(Nat)
  <2>1. UNCHANGED broadcast \/ (broadcast # << >> /\ broadcast' = Tail(broadcast))
    BY DEF TakeBroadcast, TickKeepalive, FansOut, FannedOut, StopHub, SeeStop
  <2>2. broadcast \in Seq(Nat)
    BY DEF HubInv, HubTypes
  <2>3. QED
    BY <2>1, <2>2
<1>3. /\ hub' \in [pc : {"select", "fan", "stopped"}, event : Nat, left : SUBSET Browsers]
      /\ hub'.left \subseteq clients
      /\ hub'.pc # "fan" => hub'.left = {}
  <2>1. CASE TakeBroadcast
    BY <2>1 DEF TakeBroadcast, FansOut, HubInv, HubTypes
  <2>2. CASE TickKeepalive
    BY <2>2 DEF TickKeepalive, FansOut, Keepalive, HubInv, HubTypes
  <2>3. CASE FannedOut
    BY <2>3 DEF FannedOut, AtSelect, Keepalive, HubInv, HubTypes
  <2>4. CASE StopHub \/ SeeStop
    BY <2>4 DEF StopHub, SeeStop, HubInv, HubTypes
  <2>5. QED
    BY <2>1, <2>2, <2>3, <2>4
<1>4. QED
  BY <1>1, <1>2, <1>3 DEF HubInv, HubTypes

\* So do the steps of a browser's page, which opens and closes its channel.
LEMMA PageStep ==
    ASSUME HubInv, NEW b \in Browsers,
           SendToClient(b) \/ AddClient(b) \/ ReadEvent(b) \/ RemoveClient(b)
    PROVE  HubInv'
<1>1. UNCHANGED <<subscribers, emitting, emitted, broadcast>>
  BY DEF SendToClient, AddClient, ReadEvent, RemoveClient
<1>2. browser[b] \in Page /\ browser \in [Browsers -> Page]
  BY DEF HubInv, HubTypes
<1>3. ASSUME NEW m \in Page, browser' = [browser EXCEPT ![b] = m],
             hub' \in [pc : {"select", "fan", "stopped"}, event : Nat, left : SUBSET Browsers],
             clients' \subseteq clients \cup {b}, b \in clients' => m.pc = "reading",
             hub'.left \subseteq clients', hub'.pc # "fan" => hub'.left = {}
      PROVE  HubInv'
  BY <1>1, <1>2, <1>3 DEF HubInv, HubTypes
<1>4. CASE SendToClient(b)
  <2>1. PICK m \in Page : browser' = [browser EXCEPT ![b] = m] /\ m.pc = browser[b].pc
    <3>1. PICK m : m = IF Len(browser[b].queue) < ClientBuffer
                       THEN [browser[b] EXCEPT !.queue = Append(@, hub.event)] ELSE browser[b]
      OBVIOUS
    <3>2. browser' = [browser EXCEPT ![b] = m]
      BY <1>2, <1>4, <3>1 DEF SendToClient
    <3>3. m \in Page /\ m.pc = browser[b].pc
      <4>1. browser[b].queue \in Seq(Nat) /\ hub.event \in Nat
        BY <1>2 DEF Page, HubInv, HubTypes
      <4>2. PICK q \in Seq(Nat) : q = Append(browser[b].queue, hub.event)
        <5>1. PICK r, v : r = browser[b].queue /\ v = hub.event
          OBVIOUS
        <5>2. Append(r, v) \in Seq(Nat)
          BY <4>1, <5>1
        <5>3. QED
          BY <5>1, <5>2
      <4>3. m \in {[browser[b] EXCEPT !.queue = q], browser[b]}
        BY <3>1, <4>2
      <4>4. QED
        BY <1>2, <4>3 DEF Page
    <3>4. QED
      BY <3>2, <3>3
  <2>2. hub' = [hub EXCEPT !.left = @ \ {b}] /\ UNCHANGED clients /\ hub.pc = "fan"
    BY <1>4 DEF SendToClient
  <2>3. /\ hub' \in [pc : {"select", "fan", "stopped"}, event : Nat, left : SUBSET Browsers]
        /\ hub'.left \subseteq clients /\ hub'.pc = "fan"
    BY <2>2 DEF HubInv, HubTypes
  <2>4. b \in clients => m.pc = "reading"
    BY <2>1 DEF HubInv
  <2>5. QED
    BY <1>3, <2>1, <2>2, <2>3, <2>4
<1>5. CASE AddClient(b)
  <2>1. PICK m \in Page : browser' = [browser EXCEPT ![b] = m] /\ m.pc = "reading"
    <3>1. PICK m : m = [browser[b] EXCEPT !.pc = "reading"]
      OBVIOUS
    <3>2. m \in Page /\ m.pc = "reading"
      BY <1>2, <3>1 DEF Page
    <3>3. QED
      BY <1>5, <3>1, <3>2 DEF AddClient
  <2>2. UNCHANGED hub /\ clients' = clients \cup {b}
    BY <1>5 DEF AddClient
  <2>3. QED
    BY <1>3, <2>1, <2>2 DEF HubInv, HubTypes
<1>6. CASE ReadEvent(b)
  <2>1. PICK m \in Page : browser' = [browser EXCEPT ![b] = m] /\ m.pc = "reading"
    <3>1. PICK m : m = [browser[b] EXCEPT !.queue = Tail(@)]
      OBVIOUS
    <3>2. browser' = [browser EXCEPT ![b] = m] /\ browser[b].queue # << >>
          /\ browser[b].pc = "reading"
      BY <1>6, <3>1 DEF ReadEvent
    <3>3. PICK q \in Seq(Nat) : q = Tail(browser[b].queue)
      <4>1. browser[b].queue \in Seq(Nat)
        BY <1>2 DEF Page
      <4>2. PICK r : r = browser[b].queue
        OBVIOUS
      <4>3. Tail(r) \in Seq(Nat)
        BY <3>2, <4>1, <4>2
      <4>4. QED
        BY <4>2, <4>3
    <3>4. m \in Page /\ m.pc = "reading"
      BY <1>2, <3>1, <3>2, <3>3 DEF Page
    <3>5. QED
      BY <3>2, <3>4
  <2>2. UNCHANGED <<hub, clients>>
    BY <1>6 DEF ReadEvent
  <2>3. QED
    BY <1>3, <2>1, <2>2 DEF HubInv, HubTypes
<1>7. CASE RemoveClient(b)
  <2>1. PICK m \in Page : browser' = [browser EXCEPT ![b] = m]
    BY <1>2, <1>7 DEF RemoveClient, Page
  <2>2. UNCHANGED hub /\ b \notin clients'
        /\ clients' \subseteq clients /\ hub.left \subseteq clients'
    <3>1. CASE browser[b].pc = "reading" /\ Unlocked /\ clients' = clients \ {b}
               /\ UNCHANGED hub
      BY <3>1 DEF Unlocked, HubInv
    <3>2. CASE browser[b].pc = "removed" /\ UNCHANGED <<hub, clients>>
      BY <3>2 DEF HubInv
    <3>3. QED
      BY <1>7, <3>1, <3>2 DEF RemoveClient
  <2>3. QED
    BY <1>3, <2>1, <2>2 DEF HubInv, HubTypes
<1>8. QED
  BY <1>4, <1>5, <1>6, <1>7

\* A round of the hub never comes to a closed channel: who leaves goes out of the
\* map first, and cannot while the round holds the lock.
THEOREM HubToOpen == HubSpec => []HubSendsToOpen
<1>1. HubInit => HubInv
  <2> SUFFICES ASSUME HubInit PROVE HubInv
    OBVIOUS
  <2>1. [pc |-> "away", queue |-> << >>] \in Page
    BY DEF Page
  <2>2. browser \in [Browsers -> Page]
    BY <2>1 DEF HubInit
  <2>3. emitting \in [Emitters -> [event : Nat, calls : Seq({"engine", "hub"})]]
    BY DEF HubInit, NoEvent, Keepalive
  <2>4. QED
    BY <2>2, <2>3 DEF HubInit, HubInv, HubTypes, AtSelect, Keepalive
<1>2. HubInv /\ [HubNext]_hubVars => HubInv'
  <2> SUFFICES ASSUME HubInv, [HubNext]_hubVars PROVE HubInv'
    OBVIOUS
  <2>1. CASE SetupEngineListeners
    <3>1. UNCHANGED <<emitting, emitted, broadcast, hub, clients, browser>>
          /\ subscribers' = Append(subscribers, "hub")
      BY <2>1 DEF SetupEngineListeners
    <3>2. QED
      BY <3>1 DEF HubInv, HubTypes
  <2>2. CASE UNCHANGED hubVars
    BY <2>2 DEF hubVars, HubInv, HubTypes
  <2>3. QED
    BY <2>1, <2>2, EmitStep, HubRoundStep, PageStep DEF HubNext
<1>3. HubInv => HubSendsToOpen
  BY DEF HubInv, HubSendsToOpen
<1>4. QED
  BY <1>1, <1>2, <1>3, PTL DEF HubSpec

-----------------------------------------------------------------------------
(* Who is stale is silent.                                                 *)

RowTypes == row \in [status : {"unknown", "active", "stale"}, age : 0..Never]

SilentInv == RowTypes /\ StaleIsSilent

\* A heartbeat, a registration or the detector's steps keep a stale edge silent.
LEMMA RegistryStep ==
    ASSUME SilentInv, [RegistryNext]_registryVars
    PROVE  SilentInv'
<1>1. Threshold \in Nat /\ Never = Threshold + 2
  BY RegistryAssumption DEF Never
<1>2. PICK st \in {"unknown", "active", "stale"}, a \in 0..Never :
           /\ st = row.status /\ a = row.age /\ row = [status |-> st, age |-> a]
           /\ st = "stale" => a = Threshold + 1
  BY <1>1 DEF SilentInv, RowTypes, StaleIsSilent, Silent
<1>3. ASSUME NEW s \in {"unknown", "active", "stale"}, NEW b \in 0..Never,
             row' = [status |-> s, age |-> b], s = "stale" => b = Threshold + 1
      PROVE  SilentInv'
  BY <1>1, <1>3 DEF SilentInv, RowTypes, StaleIsSilent, Silent, Never
<1>4. CASE UNCHANGED row
  BY <1>2, <1>3, <1>4
<1>5. CASE RegisterEdge
  BY <1>2, <1>3, <1>5 DEF RegisterEdge
<1>6. CASE UpdateHeartbeat
  BY <1>1, <1>2, <1>3, <1>6 DEF UpdateHeartbeat
<1>7. CASE UpdateStale
  BY <1>1, <1>2, <1>3, <1>7 DEF UpdateStale, Silent
<1>8. CASE Minute
  BY <1>1, <1>2, <1>3, <1>8 DEF Minute
<1>9. \/ UNCHANGED row \/ RegisterEdge \/ UpdateHeartbeat \/ UpdateStale \/ Minute
  BY DEF RegistryNext, registryVars, StartHeartbeater, PublishWithRetry, SendHeartbeat,
         RequestNodeSync, SendNodeListRequest, SendManualMessage, StopEdge, SetCoreNodes,
         HandleNodeListRequest, LoseMessage, CoreReaderExits, Resubscribe, Expire,
         ChangeNodes, SelectStale, SendStaleNotification
<1>10. QED
  BY <1>4, <1>5, <1>6, <1>7, <1>8, <1>9

\* A heartbeat between the sweep's look and its update saves the edge, and an
\* edge that never beat is not called stale.
THEOREM StaleSilent == RegistrySpec => []StaleIsSilent
<1>1. RegistryInit => SilentInv
  BY RegistryAssumption DEF RegistryInit, SilentInv, RowTypes, StaleIsSilent, Never
<1>2. SilentInv /\ [RegistryNext]_registryVars => SilentInv'
  BY RegistryStep
<1>3. SilentInv => StaleIsSilent
  BY DEF SilentInv
<1>4. QED
  BY <1>1, <1>2, <1>3, PTL DEF RegistrySpec

-----------------------------------------------------------------------------
(* One reader, and the one of the connection.                              *)

ReaderRow == [closed : BOOLEAN, running : BOOLEAN]

ClientTypes ==
    /\ broker \in BOOLEAN /\ handler \in BOOLEAN
    /\ kafka \in [up : BOOLEAN, reader : Nat]
    /\ readers \in Seq(ReaderRow)
    /\ thread \in [Threads -> {"idle", "close", "snapshot", "connect", "subscribe"}]
    /\ snapshot \in [Threads -> BOOLEAN]

\* The reader that is open and runs is the connection's.
OneOpen ==
    /\ kafka.reader = 0 \/ kafka.reader \in DOMAIN readers
    /\ ~kafka.up => kafka.reader = 0
    /\ \A r \in DOMAIN readers : readers[r].closed <=> r # kafka.reader
    /\ \A r \in DOMAIN readers : ~readers[r].closed => readers[r].running

\* While saves do not overlap, one thread at a time is under way: main, until it
\* has subscribed, then a saver.
OneAtWork ==
    /\ \A t, u \in Threads : thread[t] # "idle" /\ thread[u] # "idle" => t = u
    /\ thread["main"] # "idle" => thread["main"] \in {"connect", "subscribe"}
    /\ \A t \in Savers : thread[t] \in {"connect", "subscribe"} => snapshot[t]
    /\ thread["main"] \notin {"connect", "subscribe"} => handler

\* What the thread under way has done to the connection.
Stage ==
    /\ \A t \in Threads :
          /\ thread[t] \in {"snapshot", "connect"} => ~kafka.up
          /\ thread[t] = "subscribe" => kafka.reader = 0
    /\ (\A t \in Threads : thread[t] \in {"idle", "close"}) /\ kafka.up => kafka.reader # 0

ReaderInv ==
    ClientTypes /\ (mishaps = {} => OneOpen /\ OneAtWork /\ Stage)

\* What a thread's step makes of the threads.
LEMMA ThreadMoves ==
    ASSUME ClientTypes, NEW t \in Threads, NEW from, NEW to, At(t, from, to)
    PROVE  /\ thread[t] = from /\ thread'[t] = to
           /\ \A u \in Threads \ {t} : thread'[u] = thread[u]
BY DEF ClientTypes, At

\* Connect keeps one reader at most, though it drops the old connection.
LEMMA ConnectStep ==
    ASSUME ReaderInv, NEW t \in Threads, Connect(t)
    PROVE  ReaderInv'
<1>1. UNCHANGED <<broker, handler, readers, snapshot, mishaps>> /\ ClientTypes
  BY DEF Connect, ReaderInv
<1>2. PICK to \in {"subscribe", "idle"} :
           /\ At(t, "connect", to)
           /\ \/ UNCHANGED kafka /\ (t = "main" => to = "subscribe")
                 /\ (t # "main" => to = "idle")
              \/ kafka' = [up |-> TRUE, reader |-> 0] /\ to = "subscribe"
  BY DEF Connect
<1>3. /\ thread[t] = "connect" /\ thread'[t] = to
      /\ \A u \in Threads \ {t} : thread'[u] = thread[u]
  BY <1>1, <1>2, ThreadMoves
<1>4. ClientTypes'
  <2>1. kafka' \in [up : BOOLEAN, reader : Nat]
    <3>1. kafka \in [up : BOOLEAN, reader : Nat]
      BY <1>1 DEF ClientTypes
    <3>2. [up |-> TRUE, reader |-> 0] \in [up : BOOLEAN, reader : Nat]
      <4>1. TRUE \in BOOLEAN
        OBVIOUS
      <4>2. 0 \in Nat
        OBVIOUS
      <4>3. QED
        BY <4>1, <4>2
    <3>3. kafka' = kafka \/ kafka' = [up |-> TRUE, reader |-> 0]
      BY <1>2
    <3>4. QED
      BY <3>1, <3>2, <3>3
  <2>2. thread' \in [Threads -> {"idle", "close", "snapshot", "connect", "subscribe"}]
    BY <1>1, <1>2 DEF ClientTypes, At
  <2>3. QED
    BY <1>1, <2>1, <2>2 DEF ClientTypes
<1>5. ASSUME mishaps = {} PROVE OneOpen' /\ OneAtWork' /\ Stage'
  <2>1. OneOpen /\ OneAtWork /\ Stage
    BY <1>5 DEF ReaderInv
  <2>2. ~kafka.up /\ kafka.reader = 0
    BY <1>3, <2>1 DEF Stage, OneOpen
  <2>3. kafka'.reader = 0 /\ (to = "idle" => ~kafka'.up)
    BY <1>2, <2>2
  <2>4. OneOpen'
    <3>1. \A r \in DOMAIN readers : readers[r].closed <=> r # kafka'.reader
      BY <2>1, <2>2, <2>3 DEF OneOpen
    <3>2. QED
      BY <1>1, <2>1, <2>3, <3>1 DEF OneOpen
  <2>5. \A u \in Threads \ {t} : thread'[u] = "idle"
    BY <1>3, <2>1 DEF OneAtWork
  <2>6. OneAtWork'
    <3>1. "main" \in Threads /\ (t # "main" => t \in Savers) /\ Savers \subseteq Threads
          /\ "main" \notin Savers
      BY KafkaAssumption DEF Threads
    <3>2. \A u \in Threads, w \in Threads :
             thread'[u] # "idle" /\ thread'[w] # "idle" => u = w
      BY <2>5
    <3>3. thread'["main"] # "idle" => thread'["main"] \in {"connect", "subscribe"}
      BY <1>3, <2>5, <3>1
    <3>4. \A u \in Savers : thread'[u] \in {"connect", "subscribe"} => snapshot'[u]
      BY <1>1, <1>3, <2>1, <2>5, <3>1 DEF OneAtWork
    <3>5. thread'["main"] \notin {"connect", "subscribe"} => handler'
      BY <1>1, <1>2, <1>3, <2>1, <2>5, <3>1 DEF OneAtWork
    <3>6. QED
      BY <3>2, <3>3, <3>4, <3>5 DEF OneAtWork
  <2>7. Stage'
    BY <1>3, <2>3, <2>5 DEF Stage
  <2>8. QED
    BY <2>4, <2>6, <2>7
<1>6. QED
  BY <1>1, <1>4, <1>5 DEF ReaderInv

\* Subscribe opens the only reader, of a connection that has none.
LEMMA SubscribeStep ==
    ASSUME ReaderInv, NEW t \in Threads, Subscribe(t) \/ NothingToSubscribe(t)
    PROVE  ReaderInv'
<1>1. UNCHANGED <<broker, snapshot, mishaps>> /\ ClientTypes
      /\ At(t, "subscribe", "idle")
  BY DEF Subscribe, NothingToSubscribe, ReaderInv
<1>2. /\ thread[t] = "subscribe" /\ thread'[t] = "idle"
      /\ \A u \in Threads \ {t} : thread'[u] = thread[u]
  BY <1>1, ThreadMoves
<1>3. "main" \in Threads /\ (t # "main" => t \in Savers) /\ Savers \subseteq Threads
      /\ "main" \notin Savers
  BY KafkaAssumption DEF Threads
<1>4. CASE Subscribe(t)
  <2> DEFINE new == [closed |-> FALSE, running |-> TRUE]
  <2>1. handler' = TRUE
    BY <1>4 DEF Subscribe
  <2>2. \/ /\ kafka.up /\ readers' = Append(readers, new)
           /\ kafka' = [kafka EXCEPT !.reader = Len(readers) + 1]
        \/ ~kafka.up /\ UNCHANGED <<readers, kafka>>
    BY <1>4 DEF Subscribe, OpenReader
  <2>3. /\ kafka \in [up : BOOLEAN, reader : Nat] /\ Len(readers) \in Nat
        /\ readers \in Seq(ReaderRow)
        /\ thread \in [Threads -> {"idle", "close", "snapshot", "connect", "subscribe"}]
    BY <1>1 DEF ClientTypes
  <2>4. ClientTypes'
    <3>1. kafka' \in [up : BOOLEAN, reader : Nat]
      BY <2>2, <2>3
    <3>2. readers' \in Seq(ReaderRow)
      <4>1. new \in ReaderRow
        BY DEF ReaderRow
      <4>2. QED
        BY <2>2, <2>3, <4>1
    <3>3. thread' \in [Threads -> {"idle", "close", "snapshot", "connect", "subscribe"}]
      BY <1>1, <2>3 DEF At
    <3>4. QED
      BY <1>1, <2>1, <3>1, <3>2, <3>3 DEF ClientTypes
  <2>5. ASSUME mishaps = {} PROVE OneOpen' /\ OneAtWork' /\ Stage'
    <3>1. OneOpen /\ OneAtWork /\ Stage
      BY <2>5 DEF ReaderInv
    <3>2. kafka.reader = 0
      BY <1>2, <3>1 DEF Stage
    <3>3. \A r \in DOMAIN readers : readers[r].closed
      BY <2>3, <3>1, <3>2 DEF OneOpen
    <3>4. \A u \in Threads : thread'[u] = "idle"
      BY <1>2, <3>1 DEF OneAtWork
    <3>5. OneOpen'
      <4>1. CASE ~kafka.up
        BY <2>2, <3>1, <4>1 DEF OneOpen
      <4>2. CASE kafka.up
        <5>1. PICK n \in Nat : n = Len(readers)
          BY <2>3
        <5>2. /\ kafka'.reader = n + 1 /\ kafka'.up
              /\ DOMAIN readers' = 1..n + 1 /\ DOMAIN readers = 1..n
              /\ readers'[n + 1] = new /\ \A r \in 1..n : readers'[r] = readers[r]
          BY <2>2, <2>3, <4>2, <5>1
        <5>3. \A r \in DOMAIN readers' : readers'[r].closed <=> r # n + 1
          BY <3>3, <5>2
        <5>4. \A r \in DOMAIN readers' : ~readers'[r].closed => readers'[r].running
          BY <3>3, <5>2
        <5>5. QED
          BY <5>2, <5>3, <5>4 DEF OneOpen
      <4>3. QED
        BY <4>1, <4>2
    <3>6. OneAtWork'
      BY <1>3, <2>1, <3>4 DEF OneAtWork
    <3>7. Stage'
      <4>1. kafka'.up => kafka'.reader # 0
        BY <2>2, <2>3
      <4>2. QED
        BY <3>4, <4>1 DEF Stage
    <3>8. QED
      BY <3>5, <3>6, <3>7
  <2>6. QED
    BY <1>1, <2>4, <2>5 DEF ReaderInv
<1>5. CASE NothingToSubscribe(t)
  <2>1. UNCHANGED <<kafka, handler, readers>> /\ t \in Savers /\ ~snapshot[t]
    BY <1>3, <1>5 DEF NothingToSubscribe
  <2>2. ClientTypes'
    BY <1>1, <2>1 DEF ClientTypes, At
  <2>3. mishaps # {}
    <3>1. ASSUME mishaps = {} PROVE FALSE
      BY <1>2, <2>1, <3>1 DEF ReaderInv, OneAtWork
    <3>2. QED
      BY <3>1
  <2>4. QED
    BY <1>1, <2>2, <2>3 DEF ReaderInv
<1>6. QED
  BY <1>4, <1>5

\* A save begins only when no other thread is at work.
LEMMA SaveStep ==
    ASSUME ReaderInv, NEW t \in Savers, SaveSettings(t)
    PROVE  ReaderInv'
<1>1. UNCHANGED <<broker, kafka, handler, readers, snapshot>> /\ ClientTypes
      /\ At(t, "idle", "close") /\ t \in Threads /\ "main" \in Threads
      /\ thread["main"] = "idle" /\ t # "main" /\ Savers \subseteq Threads
  BY KafkaAssumption DEF SaveSettings, ReaderInv, Threads
<1>2. /\ thread[t] = "idle" /\ thread'[t] = "close"
      /\ \A u \in Threads \ {t} : thread'[u] = thread[u]
  BY <1>1, ThreadMoves
<1>3. ClientTypes'
  BY <1>1 DEF ClientTypes, At
<1>4. ASSUME mishaps' = {} PROVE OneOpen' /\ OneAtWork' /\ Stage'
  <2>1. mishaps = {} /\ Reconfiguring = {}
    BY <1>4 DEF SaveSettings
  <2>2. OneOpen /\ OneAtWork /\ Stage
    BY <2>1 DEF ReaderInv
  <2>3. \A u \in Threads : thread[u] = "idle"
    BY <1>1, <2>1 DEF Reconfiguring, Threads
  <2>4. QED
    BY <1>1, <1>2, <2>2, <2>3 DEF OneOpen, OneAtWork, Stage
<1>5. QED
  BY <1>3, <1>4 DEF ReaderInv

\* Close leaves no reader open.
LEMMA CloseStep ==
    ASSUME ReaderInv, NEW t \in Savers, Close(t)
    PROVE  ReaderInv'
<1>1. UNCHANGED <<broker, handler, snapshot, mishaps>> /\ ClientTypes
      /\ At(t, "close", "snapshot") /\ t \in Threads /\ "main" \in Threads
      /\ t # "main" /\ Savers \subseteq Threads
      /\ kafka' = [up |-> FALSE, reader |-> 0]
  BY KafkaAssumption DEF Close, ReaderInv, Threads, NoKafka
<1>2. /\ thread[t] = "close" /\ thread'[t] = "snapshot"
      /\ \A u \in Threads \ {t} : thread'[u] = thread[u]
  BY <1>1, ThreadMoves
<1>3. readers \in Seq(ReaderRow)
  BY <1>1 DEF ClientTypes
<1>4. PICK k : k = kafka.reader
  OBVIOUS
<1>5. /\ DOMAIN readers' = DOMAIN readers
      /\ \A r \in DOMAIN readers : /\ r = k => readers'[r].closed
                                   /\ r # k => readers'[r] = readers[r]
      /\ readers' \in Seq(ReaderRow)
  <2>1. readers' = [r \in DOMAIN readers |->
                      IF r = k THEN [readers[r] EXCEPT !.closed = TRUE] ELSE readers[r]]
    BY <1>4 DEF Close
  <2>2. DOMAIN readers = 1..Len(readers) /\ Len(readers) \in Nat
    BY <1>3
  <2>3. \A r \in 1..Len(readers) : readers[r] \in ReaderRow
    BY <1>3
  <2>4. \A r \in 1..Len(readers) : readers'[r] \in ReaderRow
    BY <2>1, <2>2, <2>3 DEF ReaderRow
  <2>5. QED
    BY <2>1, <2>2, <2>3, <2>4
<1>6. ClientTypes'
  BY <1>1, <1>5 DEF ClientTypes, At
<1>7. ASSUME mishaps = {} PROVE OneOpen' /\ OneAtWork' /\ Stage'
  <2>1. OneOpen /\ OneAtWork /\ Stage
    BY <1>7 DEF ReaderInv
  <2>2. \A r \in DOMAIN readers' : readers'[r].closed /\ r # 0
    BY <1>3, <1>4, <1>5, <2>1 DEF OneOpen
  <2>3. OneOpen'
    BY <1>1, <2>2 DEF OneOpen
  <2>4. \A u \in Threads \ {t} : thread'[u] = "idle"
    BY <1>1, <1>2, <2>1 DEF OneAtWork
  <2>5. OneAtWork' /\ Stage'
    BY <1>1, <1>2, <2>1, <2>4 DEF OneAtWork, Stage
  <2>6. QED
    BY <2>3, <2>5
<1>8. QED
  BY <1>1, <1>6, <1>7 DEF ReaderInv

\* The snapshot of the handlers leaves the connection alone.
LEMMA SnapshotStep ==
    ASSUME ReaderInv, NEW t \in Savers, SnapshotHandlers(t)
    PROVE  ReaderInv'
<1>1. UNCHANGED <<broker, kafka, handler, readers, mishaps>> /\ ClientTypes
      /\ At(t, "snapshot", "connect") /\ t \in Threads /\ "main" \in Threads
      /\ t # "main" /\ Savers \subseteq Threads
      /\ snapshot' = [snapshot EXCEPT ![t] = handler]
  BY KafkaAssumption DEF SnapshotHandlers, ReaderInv, Threads
<1>2. /\ thread[t] = "snapshot" /\ thread'[t] = "connect"
      /\ \A u \in Threads \ {t} : thread'[u] = thread[u]
  BY <1>1, ThreadMoves
<1>3. ClientTypes' /\ snapshot'[t] = handler
  BY <1>1 DEF ClientTypes, At
<1>4. ASSUME mishaps = {} PROVE OneOpen' /\ OneAtWork' /\ Stage'
  <2>1. OneOpen /\ OneAtWork /\ Stage
    BY <1>4 DEF ReaderInv
  <2>2. \A u \in Threads \ {t} : thread'[u] = "idle"
    BY <1>1, <1>2, <2>1 DEF OneAtWork
  <2>3. handler
    BY <1>1, <1>2, <2>1, <2>2 DEF OneAtWork
  <2>4. OneOpen'
    BY <1>1, <2>1 DEF OneOpen
  <2>5. OneAtWork'
    BY <1>1, <1>2, <1>3, <2>2, <2>3 DEF OneAtWork
  <2>6. Stage'
    BY <1>1, <1>2, <2>1, <2>2 DEF Stage
  <2>7. QED
    BY <2>4, <2>5, <2>6
<1>5. QED
  BY <1>1, <1>3, <1>4 DEF ReaderInv

\* A reader exits after it was closed.
LEMMA ExitStep ==
    ASSUME ReaderInv, NEW r \in DOMAIN readers, ReaderExits(r)
    PROVE  ReaderInv'
<1>1. UNCHANGED <<broker, kafka, handler, thread, snapshot>> /\ ClientTypes
      /\ readers' = [readers EXCEPT ![r].running = FALSE]
      /\ \/ readers[r].closed /\ UNCHANGED mishaps
         \/ mishaps' = mishaps \cup {"commit"}
  BY DEF ReaderExits, ReaderInv
<1>2. readers \in Seq(ReaderRow)
  BY <1>1 DEF ClientTypes
<1>3. PICK m \in ReaderRow :
           readers' = [readers EXCEPT ![r] = m] /\ m.closed = readers[r].closed
  <2>1. readers[r] \in ReaderRow
    BY <1>2
  <2>2. PICK m : m = [readers[r] EXCEPT !.running = FALSE]
    OBVIOUS
  <2>3. m \in ReaderRow /\ m.closed = readers[r].closed
    BY <2>1, <2>2 DEF ReaderRow
  <2>4. QED
    BY <1>1, <2>2, <2>3
<1>4. /\ readers' \in Seq(ReaderRow)
      /\ DOMAIN readers' = DOMAIN readers
      /\ \A q \in DOMAIN readers : /\ readers'[q].closed = readers[q].closed
                                   /\ q # r => readers'[q] = readers[q]
  BY <1>2, <1>3
<1>5. ClientTypes'
  BY <1>1, <1>4 DEF ClientTypes
<1>6. ASSUME mishaps' = {} PROVE OneOpen' /\ OneAtWork' /\ Stage'
  <2>1. mishaps = {} /\ readers[r].closed
    BY <1>1, <1>6
  <2>2. OneOpen /\ OneAtWork /\ Stage
    BY <2>1 DEF ReaderInv
  <2>3. OneOpen'
    BY <1>1, <1>4, <2>1, <2>2 DEF OneOpen
  <2>4. OneAtWork' /\ Stage'
    BY <1>1, <2>2 DEF OneAtWork, Stage
  <2>5. QED
    BY <2>3, <2>4
<1>7. QED
  BY <1>5, <1>6 DEF ReaderInv

\* Whoever the broker was away for, a client that is connected and at rest reads
\* with the reader of its connection and with no other.
THEOREM ReadsOnce == KafkaSpec => []OneReader
<1>1. KafkaInit => ReaderInv
  <2> SUFFICES ASSUME KafkaInit PROVE ReaderInv
    OBVIOUS
  <2>1. "main" \in Threads /\ Savers \subseteq Threads /\ "main" \notin Savers
    BY KafkaAssumption DEF Threads
  <2>2. ClientTypes
    <3>1. kafka \in [up : BOOLEAN, reader : Nat] /\ readers \in Seq(ReaderRow)
      BY DEF KafkaInit, NoKafka
    <3>2. /\ thread \in [Threads -> {"idle", "close", "snapshot", "connect", "subscribe"}]
          /\ snapshot \in [Threads -> BOOLEAN]
      BY DEF KafkaInit
    <3>3. QED
      BY <3>1, <3>2 DEF KafkaInit, ClientTypes
  <2>3. OneOpen
    BY DEF KafkaInit, OneOpen, NoKafka
  <2>4. OneAtWork /\ Stage
    BY <2>1 DEF KafkaInit, OneAtWork, Stage, NoKafka
  <2>5. QED
    BY <2>2, <2>3, <2>4 DEF ReaderInv
<1>2. ReaderInv /\ [KafkaNext]_kafkaVars => ReaderInv'
  <2> SUFFICES ASSUME ReaderInv, [KafkaNext]_kafkaVars PROVE ReaderInv'
    OBVIOUS
  <2>1. CASE BrokerChanges
    <3>1. broker' \in BOOLEAN
          /\ UNCHANGED <<kafka, handler, readers, thread, snapshot, mishaps>>
      BY <2>1 DEF BrokerChanges
    <3>2. QED
      BY <3>1 DEF ReaderInv, ClientTypes, OneOpen, OneAtWork, Stage
  <2>2. CASE UNCHANGED kafkaVars
    BY <2>2 DEF kafkaVars, ReaderInv, ClientTypes, OneOpen, OneAtWork, Stage
  <2>3. QED
    BY <2>1, <2>2, ConnectStep, SubscribeStep, SaveStep, CloseStep, SnapshotStep, ExitStep
       DEF KafkaNext
<1>3. ReaderInv => OneReader
  <2> SUFFICES ASSUME ReaderInv, mishaps = {}, \A t \in Threads : thread[t] = "idle"
               PROVE  /\ kafka.up => kafka.reader # 0
                      /\ {r \in DOMAIN readers : readers[r].running /\ ~readers[r].closed} =
                            IF kafka.up THEN {kafka.reader} ELSE {}
    BY DEF OneReader
  <2>1. OneOpen /\ Stage /\ readers \in Seq(ReaderRow)
    BY DEF ReaderInv, ClientTypes
  <2>2. kafka.up => kafka.reader # 0
    BY <2>1 DEF Stage
  <2>3. \A r \in DOMAIN readers : readers[r].running /\ ~readers[r].closed <=> r = kafka.reader
    BY <2>1 DEF OneOpen
  <2>4. ~kafka.up => kafka.reader \notin DOMAIN readers
    BY <2>1 DEF OneOpen
  <2>5. kafka.up => kafka.reader \in DOMAIN readers
    BY <2>1, <2>2 DEF OneOpen
  <2>6. QED
    BY <2>2, <2>3, <2>4, <2>5
<1>4. QED
  BY <1>1, <1>2, <1>3, PTL DEF KafkaSpec

-----------------------------------------------------------------------------
(* The WarLink feed: types and the stage of the loop.                      *)

Fields == {"status", "value"}
Statuses == {"none", "absent", "Connected", "Error", "Disconnected"}
PlcRow == [status : Statuses, value : Nat]
Wire == [up : BOOLEAN, plc : [PLCs -> PlcRow]]
Held == [connected : BOOLEAN, plc : [PLCs -> PlcRow]]
FeedEvent == [plc : PLCs, field : {"status"}, is : Statuses] \cup [plc : PLCs, field : {"value"}, is : Nat]
StreamRow == [open : BOOLEAN, broken : BOOLEAN, events : Seq(FeedEvent)]
LoopPcs == {"none", "tick", "apply", "waiting", "top", "connect", "dial", "opened", "read",
            "lost", "backoff"}
LoopRow == [pc : LoopPcs, mode : {"poll", "sse"}, list : [PLCs -> Statuses], was : BOOLEAN,
            closed : BOOLEAN, cancelled : BOOLEAN, known : SUBSET (PLCs \X Fields)]
ToldRow == [warlink : BOOLEAN, plc : [PLCs -> BOOLEAN]]

FeedTypes ==
    /\ warlink \in Wire /\ stream \in StreamRow /\ loop \in LoopRow /\ cache \in Held
    /\ told \in ToldRow /\ settings.mode \in {"poll", "sse"}

\* There is one loop at most, and only a loop that is being stopped runs on
\* while the manager takes it for ended; the stream belongs to a loop that
\* follows it.
LoopStage ==
    /\ ~running /\ saver # "wait" => loop.pc = "none"
    /\ saver \in {"wait", "start"} => ~running
    /\ stream.open => loop.mode = "sse" /\ loop.pc \in {"tick", "apply", "opened", "read"}
    /\ loop.pc \in {"top", "connect", "dial", "opened", "read", "lost", "backoff"} =>
          loop.mode = "sse"
    /\ loop.pc = "waiting" => loop.mode = "poll"
    /\ loop.pc \in {"tick", "apply", "opened", "read"} /\ loop.mode = "sse" => stream.open

Put(w, p, f, is) == [w EXCEPT !.plc[p][f] = is]

\* A field of one PLC overwritten, in WarLink and in the cache.
LEMMA PlcPut ==
    ASSUME NEW w, w \in Wire \/ w \in Held, NEW p \in PLCs, NEW f \in Fields, NEW is,
           f = "status" => is \in Statuses, f = "value" => is \in Nat,
           NEW new, new = Put(w, p, f, is)
    PROVE  /\ w \in Wire => new \in Wire /\ new.up = w.up
           /\ w \in Held => new \in Held /\ new.connected = w.connected
           /\ new.plc[p][f] = is
           /\ \A q \in PLCs, g \in Fields :
                 <<q, g>> # <<p, f>> => new.plc[q][g] = w.plc[q][g]
<1>1. PICK old, held : old = w.plc[p] /\ held = [old EXCEPT ![f] = is]
  OBVIOUS
<1>2. w.plc \in [PLCs -> PlcRow] /\ old \in PlcRow
  BY <1>1 DEF Wire, Held
<1>3. held \in PlcRow /\ held[f] = is /\ \A g \in Fields \ {f} : held[g] = old[g]
  <2>1. CASE f = "status"
    BY <1>1, <1>2, <2>1 DEF PlcRow, Fields
  <2>2. CASE f = "value"
    BY <1>1, <1>2, <2>2 DEF PlcRow, Fields
  <2>3. QED
    BY <2>1, <2>2 DEF Fields
<1>a. \A g : old[g] = w.plc[p][g]
  BY <1>1
<1>4. PICK rows : rows = [w.plc EXCEPT ![p] = held]
  OBVIOUS
<1>5. rows \in [PLCs -> PlcRow] /\ rows[p] = held /\ \A q \in PLCs \ {p} : rows[q] = w.plc[q]
  BY <1>2, <1>3, <1>4
<1>6. new = [w EXCEPT !.plc = rows]
  BY <1>1, <1>4 DEF Put
<1>7. /\ w \in Wire => new \in Wire /\ new.up = w.up /\ new.plc = rows
      /\ w \in Held => new \in Held /\ new.connected = w.connected /\ new.plc = rows
  BY <1>5, <1>6 DEF Wire, Held
<1>8. new.plc = rows
  BY <1>7
<1>9. QED
  BY <1>3, <1>a, <1>5, <1>7, <1>8

\* The step of a loop that changes nothing else of it.
LEMMA LoopMoves ==
    ASSUME loop \in LoopRow, NEW pc \in LoopPcs, Loop(pc)
    PROVE  /\ loop' \in LoopRow /\ loop'.pc = pc
           /\ loop'.mode = loop.mode /\ loop'.was = loop.was /\ loop'.list = loop.list
           /\ loop'.known = loop.known
BY DEF Loop, LoopRow

\* What happens to a PLC is sent on the stream, if one is open.
LEMMA ChangeIs ==
    ASSUME FeedTypes, NEW p \in PLCs, NEW f \in Fields, NEW is,
           f = "status" => is \in Statuses, f = "value" => is \in Nat, Changes(p, f, is)
    PROVE  /\ warlink' \in Wire /\ stream' \in StreamRow
           /\ warlink'.plc[p][f] = is
           /\ \A q \in PLCs, g \in Fields :
                 <<q, g>> # <<p, f>> => warlink'.plc[q][g] = warlink.plc[q][g]
           /\ stream'.open = stream.open /\ stream'.broken = stream.broken
           /\ \E ev \in FeedEvent :
                 /\ ev.plc = p /\ ev.field = f /\ ev.is = is
                 /\ stream'.events = IF stream.open /\ ~stream.broken
                                     THEN Append(stream.events, ev) ELSE stream.events
<1>1. warlink \in Wire /\ stream \in StreamRow /\ stream.events \in Seq(FeedEvent)
  BY DEF FeedTypes, StreamRow
<1>2. warlink' = Put(warlink, p, f, is)
  BY DEF Changes, Put
<1>3. /\ warlink' \in Wire /\ warlink'.plc[p][f] = is
      /\ \A q \in PLCs, g \in Fields :
            <<q, g>> # <<p, f>> => warlink'.plc[q][g] = warlink.plc[q][g]
  BY <1>1, <1>2, PlcPut
<1>4. PICK ev : ev = [plc |-> p, field |-> f, is |-> is]
  OBVIOUS
<1>5. ev \in FeedEvent /\ ev.plc = p /\ ev.field = f /\ ev.is = is
  <2>1. CASE f = "status"
    BY <1>4, <2>1 DEF FeedEvent
  <2>2. CASE f = "value"
    BY <1>4, <2>2 DEF FeedEvent
  <2>3. QED
    BY <2>1, <2>2 DEF Fields
<1>6. PICK evs \in Seq(FeedEvent) : evs = Append(stream.events, ev)
  BY <1>1, <1>5, AppendProperties
<1>7. stream' = IF stream.open /\ ~stream.broken THEN [stream EXCEPT !.events = evs]
                ELSE stream
  BY <1>4, <1>6 DEF Changes
<1>8. /\ stream' \in StreamRow /\ stream'.open = stream.open /\ stream'.broken = stream.broken
      /\ stream'.events = IF stream.open /\ ~stream.broken THEN evs ELSE stream.events
  BY <1>1, <1>7 DEF StreamRow
<1>9. QED
  BY <1>3, <1>5, <1>6, <1>8

\* A PLC of WarLink changes one field of its row, or vanishes.
LEMMA WarLinkStep ==
    ASSUME FeedTypes, WarLinkChanges
    PROVE  \E p \in PLCs, f \in Fields, is \in Statuses \cup Nat :
              /\ f = "status" => is \in Statuses
              /\ f = "value" => is \in Nat
              /\ \/ Changes(p, f, is)
                 \/ /\ warlink' = Put(warlink, p, f, is) /\ UNCHANGED stream
                    /\ f = "status" /\ is = "absent"
<1>1. PICK p \in PLCs :
        \/ \E s \in {"Connected", "Error"} \ {warlink.plc[p].status} : Changes(p, "status", s)
        \/ Changes(p, "value", warlink.plc[p].value + 1)
        \/ warlink' = [warlink EXCEPT !.plc[p].status = "absent"] /\ UNCHANGED stream
  BY DEF WarLinkChanges
<1>2. warlink.plc[p].value + 1 \in Nat
  BY DEF FeedTypes, Wire, PlcRow
<1>3. "status" \in Fields /\ "value" \in Fields
  BY DEF Fields
<1>4. CASE \E s \in {"Connected", "Error"} \ {warlink.plc[p].status} : Changes(p, "status", s)
  <2>1. PICK s \in {"Connected", "Error"} : Changes(p, "status", s)
    BY <1>4
  <2>2. s \in Statuses
    BY DEF Statuses
  <2>3. QED
    BY <1>3, <2>1, <2>2
<1>5. CASE Changes(p, "value", warlink.plc[p].value + 1)
  <2>1. PICK n \in Nat : n = warlink.plc[p].value + 1
    BY <1>2
  <2>2. Changes(p, "value", n)
    BY <1>5, <2>1
  <2>3. QED
    BY <1>3, <2>2
<1>6. CASE warlink' = [warlink EXCEPT !.plc[p].status = "absent"] /\ UNCHANGED stream
  <2>1. warlink' = Put(warlink, p, "status", "absent")
    BY <1>6 DEF Put
  <2>2. "absent" \in Statuses
    BY DEF Statuses
  <2>3. QED
    BY <1>3, <1>6, <2>1, <2>2
<1>7. QED
  BY <1>1, <1>4, <1>5, <1>6

\* A poll that fails keeps what the cache holds of the PLCs; one that succeeds
\* goes on with the list it got.
LEMMA FetchIs ==
    ASSUME FeedTypes, FetchPLCs
    PROVE  /\ loop' \in LoopRow /\ cache' \in Held /\ told' \in ToldRow
           /\ loop.pc = "tick" /\ loop'.mode = loop.mode
           /\ cache'.plc = cache.plc /\ told'.plc = told.plc
           /\ \/ /\ loop'.pc = AfterTick /\ loop'.known = loop.known
                 /\ cache'.connected = FALSE
                 /\ told'.warlink = (told.warlink /\ ~cache.connected)
              \/ /\ loop'.pc = "apply" /\ loop'.was = cache.connected
                 /\ \A p \in PLCs : loop'.list[p] = warlink.plc[p].status
                 /\ cache'.connected = TRUE /\ told' = told
<1>1. /\ loop \in LoopRow /\ cache \in Held /\ told \in ToldRow /\ warlink \in Wire
      /\ TRUE \in BOOLEAN /\ FALSE \in BOOLEAN
      /\ AfterTick \in LoopPcs
  BY DEF FeedTypes, AfterTick, LoopPcs
<1>2. loop.pc = "tick"
  BY DEF FetchPLCs
<1>3. CASE /\ Loop(AfterTick) /\ cache' = [cache EXCEPT !.connected = FALSE]
           /\ told' = [told EXCEPT !.warlink = @ /\ ~cache.connected]
  <2>1. cache' \in Held /\ cache'.plc = cache.plc /\ cache'.connected = FALSE
    BY <1>1, <1>3 DEF Held
  <2>2. PICK w \in BOOLEAN : w = (told.warlink /\ ~cache.connected)
    OBVIOUS
  <2>3. told' = [told EXCEPT !.warlink = w]
    BY <1>3, <2>2
  <2>4. told' \in ToldRow /\ told'.plc = told.plc /\ told'.warlink = w
    BY <1>1, <2>2, <2>3 DEF ToldRow
  <2>5. QED
    BY <1>1, <1>2, <1>3, <2>1, <2>2, <2>4, LoopMoves
<1>4. CASE /\ cache' = [cache EXCEPT !.connected = TRUE] /\ told' = told
           /\ loop' = [loop EXCEPT !.pc = "apply", !.was = cache.connected,
                                   !.list = [p \in PLCs |-> warlink.plc[p].status]]
  <2>1. PICK was \in BOOLEAN : was = cache.connected
    BY <1>1 DEF Held
  <2>2. cache' \in Held /\ cache'.connected = TRUE /\ cache'.plc = cache.plc
    BY <1>1, <1>4 DEF Held
  <2>3. PICK list : list = [p \in PLCs |-> warlink.plc[p].status]
    OBVIOUS
  <2>4. list \in [PLCs -> Statuses] /\ \A p \in PLCs : list[p] = warlink.plc[p].status
    BY <1>1, <2>3 DEF Wire, PlcRow
  <2>5. PICK l1, l2 : l1 = [loop EXCEPT !.pc = "apply"] /\ l2 = [l1 EXCEPT !.was = was]
    OBVIOUS
  <2>6. l1 \in LoopRow /\ l1.pc = "apply" /\ l1.mode = loop.mode
    BY <1>1, <2>5 DEF LoopRow, LoopPcs
  <2>7. l2 \in LoopRow /\ l2.pc = "apply" /\ l2.mode = loop.mode /\ l2.was = was
    BY <2>5, <2>6 DEF LoopRow
  <2>8. loop' = [l2 EXCEPT !.list = list]
    BY <1>4, <2>1, <2>3, <2>5
  <2>9. /\ loop' \in LoopRow /\ loop'.pc = "apply" /\ loop'.mode = loop.mode
        /\ loop'.was = was /\ loop'.list = list
    BY <2>4, <2>7, <2>8 DEF LoopRow
  <2>10. QED
    BY <1>1, <1>2, <1>4, <2>1, <2>2, <2>4, <2>9
<1>5. QED
  BY <1>3, <1>4 DEF FetchPLCs

\* The rows the tags were read of are known, and what they hold is told.
LEMMA ApplyIs ==
    ASSUME FeedTypes, ApplyPLCs
    PROVE  /\ loop' \in LoopRow /\ cache' \in Held /\ told' \in ToldRow
           /\ loop.pc = "apply" /\ loop'.mode = loop.mode /\ loop'.pc = AfterTick
           /\ cache'.connected = cache.connected
           /\ told'.warlink = (told.warlink \/ ~loop.was)
           /\ \A p \in PLCs :
                 /\ cache'.plc[p].status = NewStatus(p)
                 /\ told'.plc[p] = Tells(p, cache.plc[p].status, NewStatus(p))
                 /\ <<p, "status">> \in loop'.known => loop.list[p] # "absent"
                 /\ <<p, "value">> \in loop'.known =>
                       cache'.plc[p].value = warlink.plc[p].value
<1>1. /\ loop \in LoopRow /\ cache \in Held /\ told \in ToldRow /\ warlink \in Wire
      /\ AfterTick \in LoopPcs
  BY DEF FeedTypes, AfterTick, LoopPcs
<1>2. PICK got \in SUBSET Listed :
        /\ cache' = [cache EXCEPT !.plc = [p \in PLCs |->
              [status |-> NewStatus(p),
               value |-> IF p \in got THEN warlink.plc[p].value ELSE cache.plc[p].value]]]
        /\ loop' = [loop EXCEPT !.pc = AfterTick,
                                !.known = {<<p, "status">> : p \in Present}
                                             \cup {<<p, "value">> : p \in got}]
  BY DEF ApplyPLCs
<1>3. PICK rows : rows = [p \in PLCs |->
              [status |-> NewStatus(p),
               value |-> IF p \in got THEN warlink.plc[p].value ELSE cache.plc[p].value]]
  OBVIOUS
<1>4. \A p \in PLCs : NewStatus(p) \in Statuses
  BY <1>1 DEF NewStatus, LoopRow, Held, PlcRow, Statuses
<1>5. /\ rows \in [PLCs -> PlcRow]
      /\ \A p \in PLCs : /\ rows[p].status = NewStatus(p)
                         /\ p \in got => rows[p].value = warlink.plc[p].value
  BY <1>1, <1>3, <1>4 DEF Wire, Held, PlcRow
<1>6. cache' \in Held /\ cache'.plc = rows /\ cache'.connected = cache.connected
  BY <1>1, <1>2, <1>3, <1>5 DEF Held
<1>7. PICK known : known = {<<p, "status">> : p \in Present} \cup {<<p, "value">> : p \in got}
  OBVIOUS
<1>8. known \in SUBSET (PLCs \X Fields)
  BY <1>7 DEF Present, Listed, Fields
<1>9. \A p \in PLCs : /\ <<p, "status">> \in known => loop.list[p] # "absent"
                      /\ <<p, "value">> \in known => p \in got
  BY <1>7 DEF Present
<1>10. loop' \in LoopRow /\ loop'.pc = AfterTick /\ loop'.mode = loop.mode /\ loop'.known = known
  <2>1. PICK l1 : l1 = [loop EXCEPT !.pc = AfterTick]
    OBVIOUS
  <2>2. l1 \in LoopRow /\ l1.pc = AfterTick /\ l1.mode = loop.mode
    BY <1>1, <2>1 DEF LoopRow
  <2>3. loop' = [l1 EXCEPT !.known = known]
    BY <1>2, <1>7, <2>1
  <2>4. QED
    BY <1>8, <2>2, <2>3 DEF LoopRow
<1>11. /\ told' \in ToldRow /\ told'.warlink = (told.warlink \/ ~loop.was)
       /\ \A p \in PLCs : told'.plc[p] = Tells(p, cache.plc[p].status, NewStatus(p))
  <2>1. told' = [warlink |-> told.warlink \/ ~loop.was,
                 plc |-> [p \in PLCs |-> Tells(p, cache.plc[p].status, NewStatus(p))]]
    BY DEF ApplyPLCs
  <2>2. \A p \in PLCs : Tells(p, cache.plc[p].status, NewStatus(p)) \in BOOLEAN
    BY <1>1 DEF Tells, ToldRow
  <2>3. (told.warlink \/ ~loop.was) \in BOOLEAN
    OBVIOUS
  <2>4. QED
    BY <2>1, <2>2, <2>3 DEF ToldRow
<1>12. loop.pc = "apply"
  BY DEF ApplyPLCs
<1>13. QED
  BY <1>5, <1>6, <1>9, <1>10, <1>11, <1>12

\* An event overwrites one field, which is then known.
LEMMA EventIs ==
    ASSUME FeedTypes, HandleSSEEvent
    PROVE  /\ loop' \in LoopRow /\ cache' \in Held /\ told' \in ToldRow /\ stream' \in StreamRow
           /\ loop.pc = "read" /\ loop'.pc = "read" /\ loop'.mode = loop.mode
           /\ cache'.connected = cache.connected /\ told'.warlink = told.warlink
           /\ stream'.open = stream.open /\ stream'.broken = stream.broken
           /\ stream.events # << >> /\ stream'.events = Tail(stream.events)
           /\ \E ev \in FeedEvent :
                 /\ ev = Head(stream.events)
                 /\ cache'.plc[ev.plc][ev.field] = ev.is
                 /\ \A q \in PLCs, g \in Fields :
                       <<q, g>> # <<ev.plc, ev.field>> => cache'.plc[q][g] = cache.plc[q][g]
                 /\ loop'.known = loop.known \cup {<<ev.plc, ev.field>>}
                 /\ ev.field = "value" => told' = told
                 /\ ev.field = "status" =>
                       /\ told'.plc[ev.plc] = Tells(ev.plc, cache.plc[ev.plc].status, ev.is)
                       /\ \A q \in PLCs \ {ev.plc} : told'.plc[q] = told.plc[q]
<1>1. /\ loop \in LoopRow /\ cache \in Held /\ told \in ToldRow /\ stream \in StreamRow
      /\ stream.events \in Seq(FeedEvent) /\ stream.events # << >> /\ loop.pc = "read"
  BY DEF FeedTypes, StreamRow, HandleSSEEvent
<1>2. PICK ev \in FeedEvent : ev = Head(stream.events)
  BY <1>1, HeadTailProperties
<1>3. PICK p, f, is : p = ev.plc /\ f = ev.field /\ is = ev.is
  OBVIOUS
<1>4. /\ p \in PLCs /\ f \in Fields
      /\ f = "status" => is \in Statuses
      /\ f = "value" => is \in Nat
  BY <1>2, <1>3 DEF FeedEvent, Fields
<1>5. cache' = Put(cache, p, f, is)
  BY <1>2, <1>3 DEF HandleSSEEvent, Put
<1>6. /\ cache' \in Held /\ cache'.connected = cache.connected /\ cache'.plc[p][f] = is
      /\ \A q \in PLCs, g \in Fields : <<q, g>> # <<p, f>> => cache'.plc[q][g] = cache.plc[q][g]
  BY <1>1, <1>4, <1>5, PlcPut
<1>7. PICK known : known = loop.known \cup {<<p, f>>}
  OBVIOUS
<1>a. loop.known \in SUBSET (PLCs \X Fields) /\ <<p, f>> \in PLCs \X Fields
  BY <1>1, <1>4 DEF LoopRow
<1>b. known \in SUBSET (PLCs \X Fields)
  BY <1>7, <1>a
<1>8. loop' = [loop EXCEPT !.known = known]
  BY <1>2, <1>3, <1>7 DEF HandleSSEEvent
<1>9. loop' \in LoopRow /\ loop'.pc = "read" /\ loop'.mode = loop.mode /\ loop'.known = known
  BY <1>1, <1>8, <1>b DEF LoopRow
<1>10. PICK evs \in Seq(FeedEvent) : evs = Tail(stream.events)
  BY <1>1, HeadTailProperties
<1>11. stream' = [stream EXCEPT !.events = evs]
  BY <1>10 DEF HandleSSEEvent
<1>12. /\ stream' \in StreamRow /\ stream'.open = stream.open
       /\ stream'.broken = stream.broken /\ stream'.events = evs
  BY <1>1, <1>11 DEF StreamRow
<1>13. /\ told' \in ToldRow /\ told'.warlink = told.warlink
       /\ f = "value" => told' = told
       /\ f = "status" => /\ told'.plc[p] = Tells(p, cache.plc[p].status, is)
                          /\ \A q \in PLCs \ {p} : told'.plc[q] = told.plc[q]
  <2>1. CASE f = "value"
    BY <1>1, <1>2, <1>3, <2>1 DEF HandleSSEEvent
  <2>2. CASE f = "status"
    <3>1. PICK b \in BOOLEAN : b = Tells(p, cache.plc[p].status, is)
      BY <1>1, <1>4 DEF Tells, ToldRow
    <3>2. PICK plc : plc = [told.plc EXCEPT ![p] = b]
      OBVIOUS
    <3>3. /\ plc \in [PLCs -> BOOLEAN] /\ plc[p] = b
          /\ \A q \in PLCs \ {p} : plc[q] = told.plc[q]
      BY <1>1, <1>4, <3>2 DEF ToldRow
    <3>4. told' = [told EXCEPT !.plc = plc]
      BY <1>2, <1>3, <2>2, <3>1, <3>2 DEF HandleSSEEvent
    <3>5. told' \in ToldRow /\ told'.warlink = told.warlink /\ told'.plc = plc
      BY <1>1, <3>3, <3>4 DEF ToldRow
    <3>6. QED
      BY <2>2, <3>1, <3>3, <3>5
  <2>3. QED
    BY <1>4, <2>1, <2>2 DEF Fields
<1>14. QED
  BY <1>1, <1>2, <1>3, <1>6, <1>7, <1>9, <1>10, <1>12, <1>13

\* The end of a connection is told, of WarLink and of every PLC.
LEMMA DisconnectedIs ==
    ASSUME FeedTypes, AllDisconnected
    PROVE  /\ cache' \in Held /\ told' \in ToldRow
           /\ cache'.connected = FALSE /\ told'.warlink = (told.warlink /\ ~cache.connected)
           /\ \A p \in PLCs :
                 /\ cache'.plc[p].status = IF cache.plc[p].status = "Connected"
                                           THEN "Disconnected" ELSE cache.plc[p].status
                 /\ cache'.plc[p].value = cache.plc[p].value
                 /\ told'.plc[p] = Tells(p, cache.plc[p].status, cache'.plc[p].status)
<1>1. cache \in Held /\ told \in ToldRow /\ FALSE \in BOOLEAN
  BY DEF FeedTypes
<1>2. PICK now : now = [p \in PLCs |-> IF cache.plc[p].status = "Connected" THEN "Disconnected"
                                      ELSE cache.plc[p].status]
  OBVIOUS
<1>3. \A p \in PLCs : /\ now[p] \in Statuses
                      /\ now[p] = IF cache.plc[p].status = "Connected" THEN "Disconnected"
                                  ELSE cache.plc[p].status
  BY <1>1, <1>2 DEF Held, PlcRow, Statuses
<1>4. PICK rows : rows = [p \in PLCs |-> [cache.plc[p] EXCEPT !.status = now[p]]]
  OBVIOUS
<1>5. \A p \in PLCs : /\ rows[p] \in PlcRow /\ rows[p].status = now[p]
                      /\ rows[p].value = cache.plc[p].value
  <2> SUFFICES ASSUME NEW p \in PLCs
               PROVE  /\ rows[p] \in PlcRow /\ rows[p].status = now[p]
                      /\ rows[p].value = cache.plc[p].value
    OBVIOUS
  <2>1. PICK held \in PlcRow : held = cache.plc[p]
    BY <1>1 DEF Held
  <2>2. PICK s \in Statuses : s = now[p]
    BY <1>3
  <2>3. rows[p] = [held EXCEPT !.status = s]
    BY <1>4, <2>1, <2>2
  <2>4. rows[p] \in PlcRow /\ rows[p].status = s /\ rows[p].value = held.value
    BY <2>3 DEF PlcRow
  <2>5. QED
    BY <2>1, <2>2, <2>4
<1>6. rows \in [PLCs -> PlcRow]
  BY <1>4, <1>5
<1>7. PICK w \in BOOLEAN : w = (told.warlink /\ ~cache.connected)
  OBVIOUS
<1>8. PICK plc : plc = [p \in PLCs |-> Tells(p, cache.plc[p].status, now[p])]
  OBVIOUS
<1>9. /\ plc \in [PLCs -> BOOLEAN]
      /\ \A p \in PLCs : plc[p] = Tells(p, cache.plc[p].status, now[p])
  BY <1>1, <1>8 DEF Tells, ToldRow
<1>10. cache' = [connected |-> FALSE, plc |-> rows] /\ told' = [warlink |-> w, plc |-> plc]
  BY <1>2, <1>4, <1>7, <1>8 DEF AllDisconnected
<1>11. cache' \in Held /\ cache'.connected = FALSE /\ cache'.plc = rows
  BY <1>1, <1>6, <1>10 DEF Held
<1>12. told' \in ToldRow /\ told'.warlink = w /\ told'.plc = plc
  BY <1>9, <1>10 DEF ToldRow
<1>13. QED
  BY <1>3, <1>5, <1>7, <1>9, <1>11, <1>12

\* What WarLink and its stream do leaves the loop where it is.
LEMMA WarLinkTyped ==
    ASSUME FeedTypes, LoopStage, WarLinkChanges \/ WarLinkGoesDown \/ WarLinkComesUp
    PROVE  FeedTypes' /\ LoopStage'
<1>1. warlink \in Wire /\ stream \in StreamRow /\ TRUE \in BOOLEAN /\ FALSE \in BOOLEAN
  BY DEF FeedTypes
<1>2. UNCHANGED <<settings, saver, running, loop, cache, told>>
  BY DEF WarLinkChanges, WarLinkGoesDown, WarLinkComesUp
<1>3. warlink' \in Wire /\ stream' \in StreamRow /\ stream'.open = stream.open
  <2>1. CASE WarLinkChanges
    <3>1. PICK p \in PLCs, f \in Fields, is \in Statuses \cup Nat :
            /\ f = "status" => is \in Statuses
            /\ f = "value" => is \in Nat
            /\ \/ Changes(p, f, is)
               \/ warlink' = Put(warlink, p, f, is) /\ UNCHANGED stream
      BY <2>1, WarLinkStep
    <3>2. CASE Changes(p, f, is)
      BY <3>1, <3>2, ChangeIs
    <3>3. CASE warlink' = Put(warlink, p, f, is) /\ UNCHANGED stream
      BY <1>1, <3>1, <3>3, PlcPut
    <3>4. QED
      BY <3>1, <3>2, <3>3
  <2>2. CASE WarLinkGoesDown
    BY <1>1, <2>2 DEF WarLinkGoesDown, Wire, StreamRow
  <2>3. CASE WarLinkComesUp
    BY <1>1, <2>3 DEF WarLinkComesUp, Wire
  <2>4. QED
    BY <2>1, <2>2, <2>3
<1>4. QED
  BY <1>2, <1>3 DEF FeedTypes, LoopStage

\* The steps that move the loop along its two modes and no more.
LEMMA LoopMovesTyped ==
    ASSUME FeedTypes, LoopStage,
           WaitForTick \/ CheckStop \/ SSEBackoff
    PROVE  /\ FeedTypes' /\ LoopStage'
           /\ UNCHANGED <<warlink, stream, cache, told>>
           /\ loop.pc \in {"waiting", "top", "backoff"}
           /\ loop'.pc \in {"tick", "none", "connect", "top"} /\ loop'.mode = loop.mode
           /\ loop.mode = "sse" => loop'.pc # "tick"
<1>1. loop \in LoopRow /\ {"tick", "none", "connect", "top"} \subseteq LoopPcs
  BY DEF FeedTypes, LoopPcs
<1>2. /\ UNCHANGED <<warlink, stream, cache, told, settings, saver, running>>
      /\ loop.pc \in {"waiting", "top", "backoff"}
  BY DEF WaitForTick, CheckStop, SSEBackoff
<1>3. PICK pc \in {"tick", "none", "connect", "top"} :
        Loop(pc) /\ (pc = "tick" => loop.pc = "waiting")
        /\ (pc \in {"connect", "top"} => loop.pc \in {"top", "backoff"})
  BY DEF WaitForTick, CheckStop, SSEBackoff
<1>4. loop' \in LoopRow /\ loop'.pc = pc /\ loop'.mode = loop.mode
  BY <1>1, <1>3, LoopMoves
<1>5. loop.mode = "sse" => pc # "tick"
  BY <1>3 DEF LoopStage
<1>6. QED
  BY <1>2, <1>3, <1>4, <1>5 DEF FeedTypes, LoopStage

\* A stream is made, and nothing was read from it; or it is not made.
LEMMA DialTyped ==
    ASSUME FeedTypes, LoopStage, SetCancel \/ Dial
    PROVE  /\ FeedTypes' /\ LoopStage'
           /\ UNCHANGED <<warlink, cache, told>>
           /\ loop'.pc \in {"dial", "none", "lost", "tick"}
           /\ loop.pc \in {"connect", "dial"}
           /\ stream'.open => stream'.events = << >> /\ loop'.known = {}
<1>1. /\ loop \in LoopRow /\ {"dial", "none", "lost", "tick"} \subseteq LoopPcs
      /\ TRUE \in BOOLEAN /\ FALSE \in BOOLEAN /\ stream \in StreamRow
  BY DEF FeedTypes, LoopPcs
<1>2. /\ UNCHANGED <<warlink, cache, told, settings, saver, running>>
      /\ loop.pc \in {"connect", "dial"}
  BY DEF SetCancel, Dial
<1>3. ~stream.open /\ loop.mode = "sse"
  BY <1>2 DEF LoopStage
<1>4. CASE SetCancel
  <2>1. loop' = [loop EXCEPT !.pc = "dial", !.cancelled = FALSE] /\ stream' = stream
    BY <1>4 DEF SetCancel
  <2>2. loop' \in LoopRow /\ loop'.pc = "dial" /\ loop'.mode = loop.mode
    <3>1. PICK l1 : l1 = [loop EXCEPT !.pc = "dial"]
      OBVIOUS
    <3>2. l1 \in LoopRow /\ l1.pc = "dial" /\ l1.mode = loop.mode
      BY <1>1, <3>1 DEF LoopRow
    <3>3. loop' = [l1 EXCEPT !.cancelled = FALSE]
      BY <2>1, <3>1
    <3>4. QED
      BY <1>1, <3>2, <3>3 DEF LoopRow
  <2>3. QED
    BY <1>2, <1>3, <2>1, <2>2 DEF FeedTypes, LoopStage
<1>5. CASE \E pc \in {"none", "lost"} : Loop(pc) /\ UNCHANGED stream
  <2>1. PICK pc \in {"none", "lost"} : Loop(pc) /\ UNCHANGED stream
    BY <1>5
  <2>2. loop' \in LoopRow /\ loop'.pc = pc /\ loop'.mode = loop.mode
    BY <1>1, <2>1, LoopMoves
  <2>3. QED
    BY <1>2, <1>3, <2>1, <2>2 DEF FeedTypes, LoopStage
<1>6. CASE /\ stream' = [NoStream EXCEPT !.open = TRUE]
           /\ loop' = [loop EXCEPT !.pc = "tick", !.known = {}]
  <2>1. stream' \in StreamRow /\ stream'.open /\ stream'.events = << >>
    <3>1. << >> \in Seq(FeedEvent)
      OBVIOUS
    <3>2. NoStream \in StreamRow
      BY <1>1, <3>1 DEF NoStream, StreamRow
    <3>3. NoStream.events = << >>
      BY DEF NoStream
    <3>4. QED
      BY <1>1, <1>6, <3>2, <3>3 DEF StreamRow
  <2>2. /\ loop' \in LoopRow /\ loop'.pc = "tick" /\ loop'.mode = loop.mode
        /\ loop'.known = {}
    <3>1. PICK l1, none : l1 = [loop EXCEPT !.pc = "tick"] /\ none = {}
      OBVIOUS
    <3>2. l1 \in LoopRow /\ l1.pc = "tick" /\ l1.mode = loop.mode
      BY <1>1, <3>1 DEF LoopRow
    <3>3. loop' = [l1 EXCEPT !.known = none]
      BY <1>6, <3>1
    <3>4. none \in SUBSET (PLCs \X Fields)
      BY <3>1
    <3>5. QED
      BY <3>1, <3>2, <3>3, <3>4 DEF LoopRow
  <2>3. QED
    BY <1>2, <1>3, <2>1, <2>2 DEF FeedTypes, LoopStage
<1>7. QED
  BY <1>4, <1>5, <1>6 DEF Dial

\* WarLink counts as connected from the start of the stream.
LEMMA OpenedTyped ==
    ASSUME FeedTypes, LoopStage, Opened
    PROVE  /\ FeedTypes' /\ LoopStage'
           /\ UNCHANGED <<warlink, stream>>
           /\ loop.pc = "opened" /\ loop'.pc = "read" /\ loop'.known = loop.known
           /\ cache'.plc = cache.plc /\ told'.plc = told.plc
           /\ cache'.connected = TRUE
           /\ told'.warlink = (told.warlink \/ ~cache.connected)
<1>1. /\ loop \in LoopRow /\ "read" \in LoopPcs /\ cache \in Held /\ told \in ToldRow
      /\ TRUE \in BOOLEAN
  BY DEF FeedTypes, LoopPcs
<1>2. /\ UNCHANGED <<warlink, stream, settings, saver, running>> /\ loop.pc = "opened"
      /\ Loop("read") /\ cache' = [cache EXCEPT !.connected = TRUE]
  BY DEF Opened
<1>3. loop' \in LoopRow /\ loop'.pc = "read" /\ loop'.mode = loop.mode /\ loop'.known = loop.known
  BY <1>1, <1>2, LoopMoves
<1>4. cache' \in Held /\ cache'.plc = cache.plc /\ cache'.connected = TRUE
  BY <1>1, <1>2 DEF Held
<1>5. PICK w \in BOOLEAN : w = (told.warlink \/ ~cache.connected)
  OBVIOUS
<1>6. told' = [told EXCEPT !.warlink = w]
  BY <1>5 DEF Opened
<1>7. told' \in ToldRow /\ told'.plc = told.plc /\ told'.warlink = w
  BY <1>1, <1>5, <1>6 DEF ToldRow
<1>8. QED
  BY <1>2, <1>3, <1>4, <1>5, <1>7 DEF FeedTypes, LoopStage

\* The stream ends; the cache stays as it is.
LEMMA EndTyped ==
    ASSUME FeedTypes, LoopStage, StreamEnds \/ StallTimeout
    PROVE  /\ FeedTypes' /\ LoopStage'
           /\ UNCHANGED <<warlink, cache, told>>
           /\ loop.pc = "read" /\ loop'.pc \in {"none", "lost"} /\ ~stream'.open
<1>1. /\ loop \in LoopRow /\ {"none", "lost"} \subseteq LoopPcs
      /\ FALSE \in BOOLEAN /\ << >> \in Seq(FeedEvent)
  BY DEF FeedTypes, LoopPcs
<1>2. /\ UNCHANGED <<warlink, cache, told, settings, saver, running>> /\ loop.pc = "read"
      /\ stream' = NoStream
  BY DEF StreamEnds, StallTimeout
<1>3. PICK pc \in {"none", "lost"} : Loop(pc)
  BY DEF StreamEnds, StallTimeout
<1>4. loop' \in LoopRow /\ loop'.pc = pc /\ loop'.mode = loop.mode
  BY <1>1, <1>3, LoopMoves
<1>5. stream' \in StreamRow /\ ~stream'.open
  BY <1>1, <1>2 DEF NoStream, StreamRow
<1>6. QED
  BY <1>2, <1>4, <1>5 DEF FeedTypes, LoopStage

\* A lost connection is told, and waits for its retry.
LEMMA LostTyped ==
    ASSUME FeedTypes, LoopStage, ConnectionLost
    PROVE  /\ FeedTypes' /\ LoopStage' /\ UNCHANGED <<warlink, stream>>
           /\ loop.pc = "lost" /\ loop'.pc = "backoff"
           /\ AllDisconnected \/ (~cache.connected /\ UNCHANGED <<cache, told>>)
<1>1. loop \in LoopRow /\ "backoff" \in LoopPcs
  BY DEF FeedTypes, LoopPcs
<1>2. /\ UNCHANGED <<warlink, stream, settings, saver, running>> /\ loop.pc = "lost"
      /\ Loop("backoff")
      /\ AllDisconnected \/ (~cache.connected /\ UNCHANGED <<cache, told>>)
  BY DEF ConnectionLost
<1>3. loop' \in LoopRow /\ loop'.pc = "backoff" /\ loop'.mode = loop.mode
  BY <1>1, <1>2, LoopMoves
<1>4. cache' \in Held /\ told' \in ToldRow
  BY <1>2, DisconnectedIs DEF FeedTypes
<1>5. QED
  BY <1>2, <1>3, <1>4 DEF FeedTypes, LoopStage

\* The settings page stops a loop, waits for its end and starts another.
LEMMA SaverTyped ==
    ASSUME FeedTypes, LoopStage,
           UpdateWarLink \/ StopWarLinkPoller \/ StopWaited \/ StartWarLinkPoller
    PROVE  /\ FeedTypes' /\ LoopStage' /\ UNCHANGED <<warlink, stream>>
           /\ \/ UNCHANGED <<cache, told>>
                 /\ \/ loop' = loop
                    \/ /\ loop.pc = loop'.pc /\ loop.known = loop'.known
                       /\ loop.list = loop'.list /\ loop.was = loop'.was
                       /\ loop.mode = loop'.mode
                    \/ loop'.pc \in {"top", "tick"} /\ loop.pc = "none"
              \/ AllDisconnected /\ loop' = loop /\ loop.pc = "none"
<1>1. /\ loop \in LoopRow /\ {"tick", "top"} \subseteq LoopPcs /\ "none" \in LoopPcs
      /\ TRUE \in BOOLEAN /\ FALSE \in BOOLEAN /\ settings.mode \in {"poll", "sse"}
  BY DEF FeedTypes, LoopPcs
<1>2. UNCHANGED <<warlink, stream>>
  BY DEF UpdateWarLink, StopWarLinkPoller, StopWaited, StartWarLinkPoller
<1>3. CASE UpdateWarLink
  <2>1. settings'.mode \in {"poll", "sse"} /\ saver = "idle" /\ saver' = "stop"
        /\ UNCHANGED <<loop, cache, told, running>>
    BY <1>3 DEF UpdateWarLink
  <2>2. QED
    BY <1>2, <2>1 DEF FeedTypes, LoopStage
<1>4. CASE StopWarLinkPoller
  <2>1. saver = "stop" /\ UNCHANGED <<cache, told, settings>>
    BY <1>4 DEF StopWarLinkPoller
  <2>2. CASE running
    <3>1. /\ loop' = [loop EXCEPT !.closed = TRUE, !.cancelled = TRUE]
          /\ saver' = "wait" /\ running' = FALSE
      BY <1>4, <2>2 DEF StopWarLinkPoller
    <3>2. /\ loop' \in LoopRow /\ loop.pc = loop'.pc /\ loop.known = loop'.known
          /\ loop.list = loop'.list /\ loop.was = loop'.was /\ loop.mode = loop'.mode
      <4>1. PICK l1 : l1 = [loop EXCEPT !.closed = TRUE]
        OBVIOUS
      <4>2. /\ l1 \in LoopRow /\ loop.pc = l1.pc /\ loop.known = l1.known
            /\ loop.list = l1.list /\ loop.was = l1.was /\ loop.mode = l1.mode
        BY <1>1, <4>1 DEF LoopRow
      <4>3. loop' = [l1 EXCEPT !.cancelled = TRUE]
        BY <3>1, <4>1
      <4>4. QED
        BY <1>1, <4>2, <4>3 DEF LoopRow
    <3>3. QED
      BY <1>2, <2>1, <3>1, <3>2 DEF FeedTypes, LoopStage
  <2>3. CASE ~running
    <3>1. saver' = "start" /\ UNCHANGED <<running, loop>>
      BY <1>4, <2>3 DEF StopWarLinkPoller
    <3>2. QED
      BY <1>2, <2>1, <2>3, <3>1 DEF FeedTypes, LoopStage
  <2>4. QED
    BY <2>2, <2>3
<1>5. CASE StopWaited
  <2>1. /\ saver = "wait" /\ saver' = "start" /\ loop.pc = "none" /\ AllDisconnected
        /\ UNCHANGED <<settings, running, loop>>
    BY <1>5 DEF StopWaited
  <2>2. cache' \in Held /\ told' \in ToldRow
    BY <2>1, DisconnectedIs
  <2>3. QED
    BY <1>2, <2>1, <2>2 DEF FeedTypes, LoopStage
<1>6. CASE StartWarLinkPoller
  <2>1. saver = "start" /\ saver' = "idle" /\ UNCHANGED <<cache, told, settings>>
    BY <1>6 DEF StartWarLinkPoller
  <2>2. ~running /\ loop.pc = "none" /\ ~stream.open
    BY <2>1 DEF LoopStage
  <2>3. CASE settings.enabled
    <3>1. PICK pc : pc = IF settings.mode = "sse" THEN "top" ELSE "tick"
      OBVIOUS
    <3>2. loop' = [NoLoop EXCEPT !.mode = settings.mode, !.pc = pc] /\ running' = TRUE
      BY <1>6, <2>3, <3>1 DEF StartWarLinkPoller
    <3>3. NoLoop \in LoopRow
      <4>1. [p \in PLCs |-> "absent"] \in [PLCs -> Statuses]
        BY DEF Statuses
      <4>2. {} \in SUBSET (PLCs \X Fields)
        OBVIOUS
      <4>3. QED
        BY <1>1, <4>1, <4>2 DEF NoLoop, LoopRow
    <3>4. /\ loop' \in LoopRow /\ loop'.pc = pc /\ loop'.mode = settings.mode
      <4>1. PICK l1 : l1 = [NoLoop EXCEPT !.mode = settings.mode]
        OBVIOUS
      <4>2. l1 \in LoopRow /\ l1.mode = settings.mode
        BY <1>1, <3>3, <4>1 DEF LoopRow
      <4>3. loop' = [l1 EXCEPT !.pc = pc]
        BY <3>2, <4>1
      <4>4. QED
        BY <1>1, <3>1, <4>2, <4>3 DEF LoopRow
    <3>5. QED
      BY <1>1, <1>2, <2>1, <2>2, <3>1, <3>2, <3>4 DEF FeedTypes, LoopStage
  <2>4. CASE ~settings.enabled
    <3>1. UNCHANGED <<running, loop>>
      BY <1>6, <2>4 DEF StartWarLinkPoller
    <3>2. QED
      BY <1>2, <2>1, <2>2, <3>1 DEF FeedTypes, LoopStage
  <2>5. QED
    BY <2>3, <2>4
<1>7. QED
  BY <1>3, <1>4, <1>5, <1>6

\* A poll and an event keep the loop in its mode.
LEMMA PollEventTyped ==
    ASSUME FeedTypes, LoopStage, FetchPLCs \/ ApplyPLCs \/ HandleSSEEvent
    PROVE  FeedTypes' /\ LoopStage'
<1>1. CASE FetchPLCs
  <2>1. UNCHANGED <<warlink, stream, settings, saver, running>>
    BY <1>1 DEF FetchPLCs
  <2>2. QED
    BY <1>1, <2>1, FetchIs DEF FeedTypes, LoopStage, AfterTick, LoopRow
<1>2. CASE ApplyPLCs
  <2>1. UNCHANGED <<warlink, stream, settings, saver, running>>
    BY <1>2 DEF ApplyPLCs
  <2>2. QED
    BY <1>2, <2>1, ApplyIs DEF FeedTypes, LoopStage, AfterTick, LoopRow
<1>3. CASE HandleSSEEvent
  <2>1. UNCHANGED <<warlink, settings, saver, running>>
    BY <1>3 DEF HandleSSEEvent
  <2>2. QED
    BY <1>3, <2>1, EventIs DEF FeedTypes, LoopStage
<1>4. QED
  BY <1>1, <1>2, <1>3

\* Types and stages are kept by every step.
LEMMA FeedStep ==
    ASSUME FeedTypes, LoopStage, [FeedNext]_feedVars
    PROVE  FeedTypes' /\ LoopStage'
<1>1. CASE UNCHANGED feedVars
  BY <1>1 DEF feedVars, FeedTypes, LoopStage
<1>2. QED
  BY <1>1, WarLinkTyped, LoopMovesTyped, DialTyped, OpenedTyped, EndTyped, LostTyped,
     SaverTyped, PollEventTyped DEF FeedNext, LoopSteps

\* The edge starts without a loop and with nothing in its cache.
LEMMA FeedStart == FeedInit => FeedTypes /\ LoopStage
<1> SUFFICES ASSUME FeedInit PROVE FeedTypes /\ LoopStage
  OBVIOUS
<1>1. TRUE \in BOOLEAN /\ FALSE \in BOOLEAN /\ << >> \in Seq(FeedEvent)
  OBVIOUS
<1>2. PICK st \in [PLCs -> {"absent", "Connected"}] :
        warlink = [up |-> TRUE, plc |-> [p \in PLCs |-> [status |-> st[p], value |-> 1]]]
  BY DEF FeedInit
<1>3. PICK rows : rows = [p \in PLCs |-> [status |-> st[p], value |-> 1]]
  OBVIOUS
<1>4. rows \in [PLCs -> PlcRow]
  BY <1>3 DEF PlcRow, Statuses
<1>5. warlink \in Wire
  BY <1>1, <1>2, <1>3, <1>4 DEF Wire
<1>6. [p \in PLCs |-> [status |-> "none", value |-> 0]] \in [PLCs -> PlcRow]
  BY DEF PlcRow, Statuses
<1>7. cache \in Held
  BY <1>1, <1>6 DEF FeedInit, Held
<1>8. told \in ToldRow /\ stream \in StreamRow
  BY <1>1 DEF FeedInit, ToldRow, NoStream, StreamRow
<1>9. loop \in LoopRow /\ loop.pc = "none"
  <2>1. [p \in PLCs |-> "absent"] \in [PLCs -> Statuses]
    BY DEF Statuses
  <2>2. {} \in SUBSET (PLCs \X Fields)
    OBVIOUS
  <2>3. loop = NoLoop /\ NoLoop.pc = "none"
    BY DEF FeedInit, NoLoop
  <2>4. NoLoop \in LoopRow
    BY <1>1, <2>1, <2>2 DEF NoLoop, LoopRow, LoopPcs
  <2>5. QED
    BY <2>3, <2>4
<1>10. settings.mode \in {"poll", "sse"} /\ saver = "start" /\ running = FALSE /\ ~stream.open
  BY DEF FeedInit, NoStream
<1>11. QED
  BY <1>5, <1>7, <1>8, <1>9, <1>10 DEF FeedTypes, LoopStage

-----------------------------------------------------------------------------
(* What the feed's events tell.                                            *)

Agreed ==
    /\ \A p \in PLCs : told.plc[p] <=> cache.plc[p].status = "Connected"
    /\ loop.pc = "apply" => cache.connected /\ (told.warlink <=> loop.was)
    /\ loop.pc # "apply" => (told.warlink <=> cache.connected)

FeedInv == FeedTypes /\ LoopStage /\ Agreed

\* An event goes out exactly when it is news.
LEMMA NewsIs ==
    ASSUME Agreed, NEW p \in PLCs, NEW new
    PROVE  Tells(p, cache.plc[p].status, new) <=> new = "Connected"
BY DEF Agreed, Tells

\* Every step of the feed keeps manager and listeners agreed.
LEMMA AgreedStep ==
    ASSUME FeedInv, [FeedNext]_feedVars
    PROVE  FeedInv'
<1>1. FeedTypes /\ LoopStage /\ Agreed /\ FeedTypes' /\ LoopStage'
  BY FeedStep DEF FeedInv
<1>2. CASE /\ UNCHANGED <<cache, told>>
           /\ \/ loop.pc = loop'.pc /\ loop.was = loop'.was
              \/ loop.pc # "apply" /\ loop'.pc # "apply"
  BY <1>1, <1>2 DEF FeedInv, Agreed
<1>3. ASSUME AllDisconnected, loop.pc # "apply", loop'.pc # "apply" PROVE Agreed'
  <2>1. \A p \in PLCs : told'.plc[p] <=> cache'.plc[p].status = "Connected"
    BY <1>1, <1>3, DisconnectedIs, NewsIs
  <2>2. told'.warlink <=> cache'.connected
    BY <1>1, <1>3, DisconnectedIs DEF Agreed
  <2>3. QED
    BY <1>3, <2>1, <2>2 DEF Agreed
<1>4. CASE FetchPLCs
  <2>1. AfterTick # "apply"
    BY DEF AfterTick
  <2>2. QED
    BY <1>1, <1>4, <2>1, FetchIs DEF FeedInv, Agreed
<1>5. CASE ApplyPLCs
  <2>1. \A p \in PLCs : told'.plc[p] <=> cache'.plc[p].status = "Connected"
    BY <1>1, <1>5, ApplyIs, NewsIs
  <2>2. loop'.pc # "apply" /\ told'.warlink /\ cache'.connected
    BY <1>1, <1>5, ApplyIs DEF AfterTick, Agreed
  <2>3. QED
    BY <1>1, <2>1, <2>2 DEF FeedInv, Agreed
<1>6. CASE HandleSSEEvent
  <2>1. PICK ev \in FeedEvent :
          /\ cache'.plc[ev.plc][ev.field] = ev.is
          /\ \A q \in PLCs, g \in Fields :
                <<q, g>> # <<ev.plc, ev.field>> => cache'.plc[q][g] = cache.plc[q][g]
          /\ ev.field = "value" => told' = told
          /\ ev.field = "status" =>
                /\ told'.plc[ev.plc] = Tells(ev.plc, cache.plc[ev.plc].status, ev.is)
                /\ \A q \in PLCs \ {ev.plc} : told'.plc[q] = told.plc[q]
    BY <1>1, <1>6, EventIs
  <2>2. /\ loop.pc = "read" /\ loop'.pc = "read" /\ told'.warlink = told.warlink
        /\ cache'.connected = cache.connected
    BY <1>1, <1>6, EventIs
  <2>3. ev.plc \in PLCs /\ (ev.field = "status" \/ ev.field = "value")
    BY DEF FeedEvent
  <2>4. ASSUME NEW p \in PLCs PROVE told'.plc[p] <=> cache'.plc[p].status = "Connected"
    <3>1. CASE ev.field = "status" /\ p = ev.plc
      <4>1. cache'.plc[p]["status"] = ev.is
        BY <2>1, <3>1
      <4>2. told'.plc[p] <=> ev.is = "Connected"
        BY <1>1, <2>1, <2>4, <3>1, NewsIs
      <4>3. QED
        BY <4>1, <4>2
    <3>2. CASE ~(ev.field = "status" /\ p = ev.plc)
      <4>1. cache'.plc[p]["status"] = cache.plc[p]["status"]
        BY <2>1, <2>3, <2>4, <3>2 DEF Fields
      <4>2. told'.plc[p] = told.plc[p]
        BY <2>1, <2>3, <2>4, <3>2
      <4>3. QED
        BY <1>1, <2>4, <4>1, <4>2 DEF Agreed
    <3>3. QED
      BY <3>1, <3>2
  <2>5. QED
    BY <1>1, <2>2, <2>4 DEF FeedInv, Agreed
<1>7. CASE Opened
  BY <1>1, <1>7, OpenedTyped DEF FeedInv, Agreed
<1>8. CASE ConnectionLost
  <2>1. loop.pc = "lost" /\ loop'.pc = "backoff"
    BY <1>1, <1>8, LostTyped
  <2>2. AllDisconnected \/ UNCHANGED <<cache, told>>
    BY <1>1, <1>8, LostTyped
  <2>3. QED
    BY <1>1, <1>2, <1>3, <2>1, <2>2 DEF FeedInv
<1>9. CASE WarLinkChanges \/ WarLinkGoesDown \/ WarLinkComesUp \/ UNCHANGED feedVars
  BY <1>2, <1>9 DEF WarLinkChanges, WarLinkGoesDown, WarLinkComesUp, feedVars
<1>10. CASE WaitForTick \/ CheckStop \/ SSEBackoff
  BY <1>1, <1>2, <1>10, LoopMovesTyped
<1>11. CASE SetCancel \/ Dial
  BY <1>1, <1>2, <1>11, DialTyped
<1>12. CASE StreamEnds \/ StallTimeout
  BY <1>1, <1>2, <1>12, EndTyped
<1>13. CASE UpdateWarLink \/ StopWarLinkPoller \/ StopWaited \/ StartWarLinkPoller
  <2>1. CASE AllDisconnected /\ loop' = loop /\ loop.pc = "none"
    BY <1>1, <1>3, <2>1 DEF FeedInv
  <2>2. CASE ~AllDisconnected
    BY <1>1, <1>2, <1>13, <2>2, SaverTyped
  <2>3. CASE AllDisconnected /\ ~(loop' = loop /\ loop.pc = "none")
    BY <1>1, <1>2, <1>13, <2>3, SaverTyped
  <2>4. QED
    BY <2>1, <2>2, <2>3
<1>14. QED
  BY <1>4, <1>5, <1>6, <1>7, <1>8, <1>9, <1>10, <1>11, <1>12, <1>13 DEF FeedNext, LoopSteps

\* Nobody was told anything of an empty cache.
LEMMA AgreedStart == FeedInit => FeedInv
<1> SUFFICES ASSUME FeedInit PROVE FeedInv
  OBVIOUS
<1>1. FeedTypes /\ LoopStage
  BY FeedStart
<1>2. /\ told = [warlink |-> FALSE, plc |-> [p \in PLCs |-> FALSE]]
      /\ cache = [connected |-> FALSE, plc |-> [p \in PLCs |-> [status |-> "none", value |-> 0]]]
      /\ loop.pc = "none"
  BY DEF FeedInit, NoLoop
<1>3. QED
  BY <1>1, <1>2 DEF FeedInv, Agreed

\* The invariant says of every PLC and of WarLink what the property says.
LEMMA AgreedTold == FeedInv => EventsTellStatus
BY DEF FeedInv, FeedTypes, Agreed, EventsTellStatus, ToldRow, Held

\* In every reachable state the listeners know what the manager holds.
THEOREM FeedTells == FeedSpec => []EventsTellStatus
<1>1. FeedInit /\ [][FeedNext]_feedVars => []EventsTellStatus
  BY AgreedStart, AgreedStep, AgreedTold, PTL
<1>2. QED
  BY <1>1 DEF FeedSpec

-----------------------------------------------------------------------------
(* A stream that is read to its end leaves the cache current.              *)

About(ev, p, f) == ev.plc = p /\ ev.field = f

Sent(evs, p, f) == \E k \in DOMAIN evs : About(evs[k], p, f)

\* The last event about the field, if there is one, says v.
Says(evs, p, f, v) ==
    \A k \in DOMAIN evs :
        About(evs[k], p, f) /\ (\A j \in DOMAIN evs : j > k => ~About(evs[j], p, f)) =>
            evs[k].is = v

\* An event that is sent is the last about its field, and changes nothing of the others.
LEMMA SaysAppended ==
    ASSUME NEW evs \in Seq(FeedEvent), NEW ev \in FeedEvent, NEW p, NEW f,
           NEW new, new = Append(evs, ev)
    PROVE  /\ About(ev, p, f) => Sent(new, p, f) /\ Says(new, p, f, ev.is)
           /\ ~About(ev, p, f) => /\ Sent(new, p, f) <=> Sent(evs, p, f)
                                  /\ \A v : Says(evs, p, f, v) => Says(new, p, f, v)
<1>1. PICK n \in Nat : n = Len(evs) /\ DOMAIN evs = 1..n
  BY LenProperties
<1>2. /\ DOMAIN new = 1 .. n + 1 /\ new[n + 1] = ev
      /\ \A k \in 1..n : new[k] = evs[k]
  BY <1>1, AppendProperties, LenProperties
<1>3. \A k \in 1 .. n + 1 : k \in 1..n \/ k = n + 1
  BY <1>1
<1>4. n + 1 \in 1 .. n + 1 /\ \A k \in 1..n : k \in 1 .. n + 1 /\ n + 1 > k
  BY <1>1
<1>5. ASSUME About(ev, p, f) PROVE Sent(new, p, f) /\ Says(new, p, f, ev.is)
  <2>1. Sent(new, p, f)
    BY <1>2, <1>4, <1>5 DEF Sent
  <2>2. Says(new, p, f, ev.is)
    BY <1>2, <1>3, <1>4, <1>5 DEF Says
  <2>3. QED
    BY <2>1, <2>2
<1>6. ASSUME ~About(ev, p, f) PROVE Sent(new, p, f) <=> Sent(evs, p, f)
  BY <1>1, <1>2, <1>3, <1>4, <1>6 DEF Sent
<1>7. ASSUME ~About(ev, p, f), NEW v, Says(evs, p, f, v) PROVE Says(new, p, f, v)
  <2> SUFFICES ASSUME NEW k \in 1 .. n + 1, About(new[k], p, f),
                      \A j \in 1 .. n + 1 : j > k => ~About(new[j], p, f)
               PROVE  new[k].is = v
    BY <1>2 DEF Says
  <2>1. k \in 1..n /\ new[k] = evs[k]
    BY <1>2, <1>3, <1>7
  <2>2. \A j \in 1..n : j > k => ~About(evs[j], p, f)
    BY <1>2, <1>4
  <2>3. QED
    BY <1>1, <1>7, <2>1, <2>2 DEF Says
<1>8. QED
  BY <1>5, <1>6, <1>7

\* An event that is read leaves the last one of every field where it is, or was it.
LEMMA SaysHandled ==
    ASSUME NEW evs \in Seq(FeedEvent), evs # << >>, NEW ev, ev = Head(evs), NEW p, NEW f,
           NEW new, new = Tail(evs)
    PROVE  /\ \A v : Says(evs, p, f, v) => Says(new, p, f, v)
           /\ Sent(evs, p, f) /\ ~Sent(new, p, f) =>
                 About(ev, p, f) /\ \A v : Says(evs, p, f, v) => ev.is = v
<1>1. PICK n \in Nat : n = Len(evs) /\ DOMAIN evs = 1..n /\ n > 0
  BY LenProperties, EmptySeq
<1>2. /\ DOMAIN new = 1 .. n - 1 /\ ev = evs[1]
      /\ \A k \in 1 .. n - 1 : new[k] = evs[k + 1]
  BY <1>1, HeadTailProperties, LenProperties
<1>3. \A k \in 1..n : k = 1 \/ (k - 1 \in 1 .. n - 1 /\ (k - 1) + 1 = k)
  BY <1>1
<1>4. \A k \in 1 .. n - 1 : k + 1 \in 1..n
  BY <1>1
<1>5. ASSUME NEW v, Says(evs, p, f, v) PROVE Says(new, p, f, v)
  <2> SUFFICES ASSUME NEW k \in 1 .. n - 1, About(new[k], p, f),
                      \A j \in 1 .. n - 1 : j > k => ~About(new[j], p, f)
               PROVE  new[k].is = v
    BY <1>2 DEF Says
  <2>1. k + 1 \in 1..n /\ About(evs[k + 1], p, f)
    BY <1>2, <1>4
  <2>2. \A j \in 1..n : j > k + 1 => ~About(evs[j], p, f)
    <3> SUFFICES ASSUME NEW j \in 1..n, j > k + 1 PROVE ~About(evs[j], p, f)
      OBVIOUS
    <3>1. PICK i \in 1 .. n - 1 : i = j - 1 /\ i > k /\ i + 1 = j
      BY <1>1
    <3>2. QED
      BY <1>2, <3>1
  <2>3. QED
    BY <1>1, <1>2, <1>5, <2>1, <2>2 DEF Says
<1>6. ASSUME Sent(evs, p, f), ~Sent(new, p, f)
      PROVE  About(ev, p, f) /\ \A v : Says(evs, p, f, v) => ev.is = v
  <2>1. \A i \in 1 .. n - 1 : ~About(evs[i + 1], p, f)
    BY <1>2, <1>6 DEF Sent
  <2>2. \A k \in 1..n : k # 1 => ~About(evs[k], p, f)
    BY <1>3, <2>1
  <2>3. About(evs[1], p, f)
    BY <1>1, <1>6, <2>2 DEF Sent
  <2>4. 1 \in 1..n /\ \A j \in 1..n : j > 1 => ~About(evs[j], p, f)
    BY <1>1, <2>2
  <2>5. QED
    BY <1>1, <1>2, <2>3, <2>4 DEF Says
<1>7. QED
  BY <1>5, <1>6

\* While the stream lives: what it says last of a field is what WarLink holds;
\* of a field it says nothing of, the list of a poll is right, and then the
\* cache. A PLC that vanished has no status that an event would tell.
Off(p, f) == f = "status" /\ warlink.plc[p].status = "absent"

Live == stream.open /\ ~stream.broken

StreamRight ==
    Live => \A p \in PLCs, f \in Fields :
               ~Off(p, f) => Says(stream.events, p, f, warlink.plc[p][f])

ListRight ==
    Live /\ loop.pc = "apply" =>
        \A p \in PLCs :
            ~Sent(stream.events, p, "status") /\ loop.list[p] # "absent" /\ ~Off(p, "status") =>
                loop.list[p] = warlink.plc[p].status

CacheRight ==
    Live /\ loop.pc \in {"opened", "read"} =>
        \A p \in PLCs, f \in Fields :
            ~Sent(stream.events, p, f) /\ <<p, f>> \in loop.known /\ ~Off(p, f) =>
                cache.plc[p][f] = warlink.plc[p][f]

Unknown == stream.open /\ loop.pc = "tick" => loop.known = {}

CurrentInv ==
    FeedTypes /\ LoopStage /\ StreamRight /\ ListRight /\ CacheRight /\ Unknown

\* Without a living stream there is nothing to keep right.
LEMMA DeadKept ==
    ASSUME FeedTypes', LoopStage', ~Live', stream'.open => loop'.pc # "tick"
    PROVE  CurrentInv'
BY DEF CurrentInv, StreamRight, ListRight, CacheRight, Unknown, Live

\* What leaves WarLink, the stream and what the loop has of it alone.
LEMMA CurrentKept ==
    ASSUME CurrentInv, FeedTypes', LoopStage', UNCHANGED stream,
           warlink'.plc = warlink.plc, cache'.plc = cache.plc,
           loop'.pc = loop.pc \/ loop'.pc \notin {"tick", "apply", "opened", "read"}
              \/ (loop.pc = "opened" /\ loop'.pc = "read"),
           loop'.list = loop.list \/ loop'.pc # "apply",
           loop'.known = loop.known \/ loop'.pc \notin {"tick", "opened", "read"}
    PROVE  CurrentInv'
<1>1. StreamRight'
  BY DEF CurrentInv, StreamRight, Live, Off, Says
<1>2. ListRight'
  BY DEF CurrentInv, ListRight, Live, Off, Sent
<1>3. CacheRight'
  BY DEF CurrentInv, CacheRight, Live, Off, Sent
<1>4. Unknown'
  BY DEF CurrentInv, Unknown
<1>5. QED
  BY <1>1, <1>2, <1>3, <1>4 DEF CurrentInv

\* A change reaches the stream, or makes a PLC vanish.
LEMMA CurrentChange ==
    ASSUME CurrentInv, FeedTypes', LoopStage', WarLinkChanges
    PROVE  CurrentInv'
<1>1. FeedTypes /\ StreamRight /\ ListRight /\ CacheRight /\ Unknown
      /\ stream.events \in Seq(FeedEvent)
  BY DEF CurrentInv, FeedTypes, StreamRow
<1>2. PICK p \in PLCs, f \in Fields, is \in Statuses \cup Nat :
         /\ f = "status" => is \in Statuses
         /\ f = "value" => is \in Nat
         /\ \/ Changes(p, f, is)
            \/ /\ warlink' = Put(warlink, p, f, is) /\ UNCHANGED stream
               /\ f = "status" /\ is = "absent"
  BY <1>1, WarLinkStep
<1>3. UNCHANGED <<loop, cache>>
  BY DEF WarLinkChanges
<1>4. /\ warlink'.plc[p][f] = is
      /\ \A q \in PLCs, g \in Fields :
            <<q, g>> # <<p, f>> => warlink'.plc[q][g] = warlink.plc[q][g]
      /\ stream'.open = stream.open /\ stream'.broken = stream.broken
  <2>1. CASE Changes(p, f, is)
    BY <1>1, <1>2, <2>1, ChangeIs
  <2>2. CASE warlink' = Put(warlink, p, f, is) /\ UNCHANGED stream
    BY <1>1, <1>2, <2>2, PlcPut DEF FeedTypes
  <2>3. QED
    BY <1>2, <2>1, <2>2
<1>5. CASE ~Live
  <2>1. ~Live'
    BY <1>4, <1>5 DEF Live
  <2>2. QED
    BY <1>1, <1>3, <1>4, <2>1 DEF CurrentInv, StreamRight, ListRight, CacheRight, Unknown
<1>6. CASE Live
  <2>0. ASSUME Changes(p, f, is)
        PROVE  \E ev \in FeedEvent : /\ ev.plc = p /\ ev.field = f /\ ev.is = is
                                      /\ stream'.events = Append(stream.events, ev)
    <3>1. PICK ev \in FeedEvent :
            /\ ev.plc = p /\ ev.field = f /\ ev.is = is
            /\ stream'.events = IF stream.open /\ ~stream.broken
                                THEN Append(stream.events, ev) ELSE stream.events
      BY <1>1, <1>2, <2>0, ChangeIs
    <3>2. stream.open /\ ~stream.broken
      BY <1>6 DEF Live
    <3>3. QED
      BY <3>1, <3>2
  <2>1. \A q \in PLCs, g \in Fields : <<q, g>> # <<p, f>> =>
            /\ Says(stream.events, q, g, warlink.plc[q][g]) =>
                  Says(stream.events, q, g, warlink.plc[q][g])'
            /\ Sent(stream.events, q, g)' <=> Sent(stream.events, q, g)
    <3>1. CASE UNCHANGED stream
      BY <1>4, <3>1 DEF Says, Sent
    <3>2. CASE Changes(p, f, is)
      <4>1. PICK ev \in FeedEvent : /\ ev.plc = p /\ ev.field = f
                                    /\ stream'.events = Append(stream.events, ev)
        BY <2>0, <3>2
      <4>2. SUFFICES ASSUME NEW q \in PLCs, NEW g \in Fields, <<q, g>> # <<p, f>>
                     PROVE  /\ Says(stream.events, q, g, warlink.plc[q][g]) =>
                                  Says(stream'.events, q, g, warlink'.plc[q][g])
                            /\ Sent(stream'.events, q, g) <=> Sent(stream.events, q, g)
        BY DEF Says, Sent
      <4>3. ~About(ev, q, g)
        BY <4>1, <4>2 DEF About
      <4>4. warlink'.plc[q][g] = warlink.plc[q][g]
        BY <1>4, <4>2
      <4>5. PICK evs, new, v : /\ evs = stream.events /\ new = stream'.events
                               /\ v = warlink.plc[q][g]
        OBVIOUS
      <4>6. evs \in Seq(FeedEvent) /\ new = Append(evs, ev)
        BY <1>1, <4>1, <4>5
      <4>7. (Sent(new, q, g) <=> Sent(evs, q, g)) /\ (Says(evs, q, g, v) => Says(new, q, g, v))
        BY <4>3, <4>6, SaysAppended
      <4>8. QED
        BY <4>4, <4>5, <4>7
    <3>3. QED
      BY <1>2, <3>1, <3>2
  <2>2. Off(p, f)' \/ (Says(stream.events, p, f, warlink.plc[p][f])' /\ Sent(stream.events, p, f)')
    <3>1. CASE UNCHANGED stream /\ f = "status" /\ is = "absent"
      <4>1. warlink'.plc[p]["status"] = "absent"
        BY <1>4, <3>1
      <4>2. QED
        BY <3>1, <4>1 DEF Off
    <3>2. CASE Changes(p, f, is)
      <4>1. PICK ev \in FeedEvent : /\ ev.plc = p /\ ev.field = f /\ ev.is = is
                                    /\ stream'.events = Append(stream.events, ev)
        BY <2>0, <3>2
      <4>2. About(ev, p, f)
        BY <4>1 DEF About
      <4>3. Sent(stream'.events, p, f) /\ Says(stream'.events, p, f, is)
        BY <1>1, <4>1, <4>2, SaysAppended
      <4>4. QED
        BY <1>4, <4>3 DEF Says, Sent
    <3>3. QED
      BY <1>2, <3>1, <3>2
  <2>3. \A q \in PLCs, g \in Fields : <<q, g>> # <<p, f>> => (Off(q, g)' <=> Off(q, g))
    <3>1. ASSUME NEW q \in PLCs, <<q, "status">> # <<p, f>>
          PROVE  warlink'.plc[q].status = warlink.plc[q].status
      <4>1. warlink'.plc[q]["status"] = warlink.plc[q]["status"]
        BY <1>4, <3>1 DEF Fields
      <4>2. QED
        BY <4>1
    <3>2. QED
      BY <3>1 DEF Off
  <2>4. StreamRight'
    BY <1>1, <1>6, <2>1, <2>2, <2>3 DEF StreamRight
  <2>5. ListRight'
    <3> SUFFICES ASSUME Live', loop'.pc = "apply", NEW q \in PLCs,
                        ~Sent(stream.events, q, "status")', loop'.list[q] # "absent",
                        ~Off(q, "status")'
                 PROVE  loop'.list[q] = warlink'.plc[q].status
      BY DEF ListRight
    <3>1. <<q, "status">> # <<p, f>> /\ "status" \in Fields
      BY <2>2 DEF Fields
    <3>2. warlink'.plc[q]["status"] = warlink.plc[q]["status"]
      BY <1>4, <3>1
    <3>3. QED
      BY <1>1, <1>3, <1>6, <2>1, <2>3, <3>1, <3>2 DEF ListRight
  <2>6. CacheRight'
    <3> SUFFICES ASSUME Live', loop'.pc \in {"opened", "read"}, NEW q \in PLCs, NEW g \in Fields,
                        ~Sent(stream.events, q, g)', <<q, g>> \in loop'.known, ~Off(q, g)'
                 PROVE  cache'.plc[q][g] = warlink'.plc[q][g]
      BY DEF CacheRight
    <3>1. <<q, g>> # <<p, f>>
      BY <2>2
    <3>2. warlink'.plc[q][g] = warlink.plc[q][g]
      BY <1>4, <3>1
    <3>3. QED
      BY <1>1, <1>3, <1>6, <2>1, <2>3, <3>1, <3>2 DEF CacheRight
  <2>7. Unknown'
    BY <1>1, <1>3, <1>4 DEF Unknown
  <2>8. QED
    BY <2>4, <2>5, <2>6, <2>7 DEF CurrentInv
<1>8. QED
  BY <1>5, <1>6

\* The list is as WarLink has it when it is fetched.
LEMMA CurrentFetch ==
    ASSUME CurrentInv, FeedTypes', LoopStage', FetchPLCs
    PROVE  CurrentInv'
<1>1. FeedTypes /\ LoopStage /\ StreamRight /\ CacheRight /\ Unknown
  BY DEF CurrentInv
<1>2. UNCHANGED <<warlink, stream>> /\ loop.pc = "tick"
  BY DEF FetchPLCs
<1>3. StreamRight'
  BY <1>1, <1>2 DEF StreamRight, Live, Off, Says
<1>4. CASE loop'.pc = AfterTick /\ loop'.known = loop.known
  <2>1. loop'.pc # "apply" /\ loop'.pc # "tick"
    BY <1>4 DEF AfterTick
  <2>2. stream'.open => loop'.known = {}
    BY <1>1, <1>2, <1>4 DEF Unknown
  <2>3. QED
    BY <1>3, <2>1, <2>2 DEF CurrentInv, ListRight, CacheRight, Unknown, Live
<1>5. CASE loop'.pc = "apply" /\ \A p \in PLCs : loop'.list[p] = warlink.plc[p].status
  BY <1>2, <1>3, <1>5 DEF CurrentInv, ListRight, CacheRight, Unknown
<1>6. QED
  BY <1>1, <1>4, <1>5, FetchIs

\* The list is applied; what changed since is on the stream.
LEMMA CurrentApply ==
    ASSUME CurrentInv, FeedTypes', LoopStage', ApplyPLCs
    PROVE  CurrentInv'
<1>1. FeedTypes /\ LoopStage /\ StreamRight /\ ListRight
  BY DEF CurrentInv
<1>2. UNCHANGED <<warlink, stream>> /\ loop.pc = "apply"
  BY DEF ApplyPLCs
<1>3. StreamRight'
  BY <1>1, <1>2 DEF StreamRight, Live, Off, Says
<1>4. loop'.pc # "apply" /\ loop'.pc # "tick"
  BY <1>1, ApplyIs DEF AfterTick
<1>5. CacheRight'
  <2> SUFFICES ASSUME Live', NEW p \in PLCs, NEW f \in Fields,
                      ~Sent(stream.events, p, f)', <<p, f>> \in loop'.known, ~Off(p, f)'
               PROVE  cache'.plc[p][f] = warlink'.plc[p][f]
    BY DEF CacheRight
  <2>1. Live /\ ~Sent(stream.events, p, f) /\ ~Off(p, f)
    BY <1>2 DEF Live, Sent, Off
  <2>2. CASE f = "value"
    <3>1. cache'.plc[p].value = warlink.plc[p].value
      BY <1>1, <2>2, ApplyIs
    <3>2. cache'.plc[p]["value"] = warlink.plc[p]["value"]
      BY <3>1
    <3>3. QED
      BY <1>2, <2>2, <3>2
  <2>3. CASE f = "status"
    <3>1. loop.list[p] # "absent" /\ cache'.plc[p].status = NewStatus(p)
      BY <1>1, <2>3, ApplyIs
    <3>2. NewStatus(p) = loop.list[p]
      BY <3>1 DEF NewStatus
    <3>3. loop.list[p] = warlink.plc[p].status
      BY <1>1, <1>2, <2>1, <2>3, <3>1 DEF ListRight
    <3>4. cache'.plc[p]["status"] = warlink.plc[p]["status"]
      BY <3>1, <3>2, <3>3
    <3>5. QED
      BY <1>2, <2>3, <3>4
  <2>4. QED
    BY <2>2, <2>3 DEF Fields
<1>6. QED
  BY <1>3, <1>4, <1>5 DEF CurrentInv, ListRight, Unknown

\* The last event of a field brings what WarLink holds.
LEMMA CurrentEvent ==
    ASSUME CurrentInv, FeedTypes', LoopStage', HandleSSEEvent
    PROVE  CurrentInv'
<1>1. FeedTypes /\ LoopStage /\ StreamRight /\ CacheRight /\ stream.events \in Seq(FeedEvent)
  BY DEF CurrentInv, FeedTypes, StreamRow
<1>2. /\ UNCHANGED warlink /\ loop.pc = "read" /\ loop'.pc = "read" /\ stream.events # << >>
      /\ stream'.open = stream.open /\ stream'.broken = stream.broken
      /\ stream'.events = Tail(stream.events)
  BY <1>1, EventIs DEF HandleSSEEvent
<1>3. PICK ev \in FeedEvent :
        /\ ev = Head(stream.events)
        /\ cache'.plc[ev.plc][ev.field] = ev.is
        /\ \A q \in PLCs, g \in Fields :
              <<q, g>> # <<ev.plc, ev.field>> => cache'.plc[q][g] = cache.plc[q][g]
        /\ loop'.known = loop.known \cup {<<ev.plc, ev.field>>}
  BY <1>1, EventIs
<1>4. PICK evs, new : evs = stream.events /\ new = stream'.events
  OBVIOUS
<1>5. evs \in Seq(FeedEvent) /\ evs # << >> /\ ev = Head(evs) /\ new = Tail(evs)
  BY <1>1, <1>2, <1>3, <1>4
<1>6. \A p, f, v : Says(evs, p, f, v) => Says(new, p, f, v)
  BY <1>5, SaysHandled
<1>7. \A p, f, v : Sent(evs, p, f) /\ ~Sent(new, p, f) =>
                      About(ev, p, f) /\ (Says(evs, p, f, v) => ev.is = v)
  BY <1>5, SaysHandled
<1>8. Live' <=> Live
  BY <1>2 DEF Live
<1>9. \A p, f : Off(p, f)' <=> Off(p, f)
  BY <1>2 DEF Off
<1>10. StreamRight'
  <2> SUFFICES ASSUME Live', NEW p \in PLCs, NEW f \in Fields, ~Off(p, f)'
               PROVE  Says(new, p, f, warlink'.plc[p][f])
    BY <1>4 DEF StreamRight, Says
  <2>1. Says(evs, p, f, warlink.plc[p][f])
    BY <1>1, <1>4, <1>8, <1>9 DEF StreamRight
  <2>2. QED
    BY <1>2, <1>6, <2>1
<1>11. CacheRight'
  <2> SUFFICES ASSUME Live', NEW p \in PLCs, NEW f \in Fields,
                      ~Sent(new, p, f), <<p, f>> \in loop'.known, ~Off(p, f)'
               PROVE  cache'.plc[p][f] = warlink.plc[p][f]
    BY <1>2, <1>4 DEF CacheRight, Sent
  <2>1. Says(evs, p, f, warlink.plc[p][f]) /\ Live /\ ~Off(p, f)
    BY <1>1, <1>4, <1>8, <1>9 DEF StreamRight
  <2>2. CASE Sent(evs, p, f)
    <3>1. PICK v : v = warlink.plc[p][f]
      OBVIOUS
    <3>2. About(ev, p, f) /\ ev.is = v
      BY <1>7, <2>1, <2>2, <3>1
    <3>3. QED
      BY <1>3, <3>1, <3>2 DEF About
  <2>3. CASE ~Sent(evs, p, f)
    <3>1. ~About(ev, p, f)
      <4>1. DOMAIN evs = 1..Len(evs) /\ Len(evs) \in Nat /\ Len(evs) # 0 /\ ev = evs[1]
        BY <1>5, LenProperties, EmptySeq
      <4>2. 1 \in DOMAIN evs
        BY <4>1
      <4>3. QED
        BY <2>3, <4>1, <4>2 DEF Sent
    <3>2. <<p, f>> # <<ev.plc, ev.field>>
      BY <3>1 DEF About
    <3>3. <<p, f>> \in loop.known /\ cache'.plc[p][f] = cache.plc[p][f]
      BY <1>3, <3>2
    <3>4. QED
      BY <1>1, <1>2, <1>4, <2>1, <2>3, <3>3 DEF CacheRight
  <2>4. QED
    BY <2>2, <2>3
<1>12. QED
  BY <1>2, <1>10, <1>11 DEF CurrentInv, ListRight, Unknown

\* A new stream says nothing, and the loop knows nothing of it.
LEMMA CurrentDial ==
    ASSUME CurrentInv, SetCancel \/ Dial
    PROVE  CurrentInv'
<1>1. FeedTypes /\ LoopStage
  BY DEF CurrentInv
<1>2. /\ FeedTypes' /\ LoopStage' /\ UNCHANGED <<warlink, cache>>
      /\ loop'.pc \in {"dial", "none", "lost", "tick"}
      /\ stream'.open => stream'.events = << >> /\ loop'.known = {}
  BY <1>1, DialTyped
<1>3. StreamRight'
  BY <1>2 DEF StreamRight, Live, Says
<1>4. QED
  BY <1>2, <1>3 DEF CurrentInv, ListRight, CacheRight, Unknown

\* Every step keeps the cache current.
LEMMA CurrentStep ==
    ASSUME CurrentInv, [FeedNext]_feedVars
    PROVE  CurrentInv'
<1>1. FeedTypes /\ LoopStage /\ FeedTypes' /\ LoopStage'
  BY FeedStep DEF CurrentInv
<1>2. CASE WarLinkGoesDown
  <2>1. warlink' = [warlink EXCEPT !.up = FALSE] /\ stream' = [stream EXCEPT !.broken = TRUE]
        /\ UNCHANGED <<loop, cache>>
    BY <1>2 DEF WarLinkGoesDown
  <2>2. stream'.broken /\ stream'.open = stream.open
    BY <1>1, <2>1 DEF FeedTypes, StreamRow
  <2>3. QED
    BY <1>1, <2>1, <2>2 DEF CurrentInv, StreamRight, ListRight, CacheRight, Unknown, Live
<1>3. CASE WarLinkComesUp
  <2>1. warlink' = [warlink EXCEPT !.up = TRUE] /\ UNCHANGED <<stream, loop, cache>>
    BY <1>3 DEF WarLinkComesUp
  <2>2. warlink'.plc = warlink.plc
    BY <1>1, <2>1 DEF FeedTypes, Wire
  <2>3. QED
    BY <1>1, <2>1, <2>2, CurrentKept
<1>4. CASE WaitForTick \/ CheckStop \/ SSEBackoff
  <2>1. ~stream'.open
    BY <1>1, <1>4, LoopMovesTyped DEF LoopStage
  <2>2. QED
    BY <1>1, <2>1, DeadKept DEF Live
<1>5. CASE Opened
  <2>1. UNCHANGED <<warlink, stream>> /\ loop.pc = "opened" /\ loop'.pc = "read"
        /\ loop'.known = loop.known /\ cache'.plc = cache.plc
    BY <1>1, <1>5, OpenedTyped
  <2>2. QED
    BY <1>1, <2>1, CurrentKept
<1>6. CASE StreamEnds \/ StallTimeout
  <2>1. ~stream'.open
    BY <1>1, <1>6, EndTyped
  <2>2. QED
    BY <1>1, <2>1, DeadKept DEF Live
<1>7. CASE ConnectionLost
  <2>1. ~stream'.open
    BY <1>1, <1>7, LostTyped DEF LoopStage
  <2>2. QED
    BY <1>1, <2>1, DeadKept DEF Live
<1>8. CASE UpdateWarLink \/ StopWarLinkPoller \/ StopWaited \/ StartWarLinkPoller
  <2>1. UNCHANGED <<warlink, stream>>
    BY <1>1, <1>8, SaverTyped
  <2>2. CASE loop.pc = "none"
    <3>1. ~stream'.open
      BY <1>1, <2>1, <2>2 DEF LoopStage
    <3>2. QED
      BY <1>1, <3>1, DeadKept DEF Live
  <2>3. CASE loop.pc # "none"
    <3>1. /\ UNCHANGED cache /\ loop.pc = loop'.pc /\ loop.known = loop'.known
          /\ loop.list = loop'.list
      BY <1>1, <1>8, <2>3, SaverTyped
    <3>2. QED
      BY <1>1, <2>1, <3>1, CurrentKept
  <2>4. QED
    BY <2>2, <2>3
<1>9. CASE UNCHANGED feedVars
  BY <1>1, <1>9, CurrentKept DEF feedVars
<1>10. QED
  BY <1>1, <1>2, <1>3, <1>4, <1>5, <1>6, <1>7, <1>8, <1>9, CurrentChange, CurrentFetch,
     CurrentApply, CurrentEvent, CurrentDial DEF FeedNext, LoopSteps

\* The feed starts without a stream.
LEMMA CurrentStart == FeedInit => CurrentInv
<1> SUFFICES ASSUME FeedInit PROVE CurrentInv
  OBVIOUS
<1>1. ~stream.open
  BY DEF FeedInit, NoStream
<1>2. QED
  BY <1>1, FeedStart DEF CurrentInv, StreamRight, ListRight, CacheRight, Unknown, Live

\* A stream that is read to its end has nothing more to say of what is known.
LEMMA CurrentRead == CurrentInv => CacheIsCurrent
<1> SUFFICES ASSUME CurrentInv, loop.pc = "read", stream.events = << >>, ~stream.broken,
                    NEW k \in loop.known, warlink.plc[k[1]].status # "absent"
             PROVE  cache.plc[k[1]][k[2]] = warlink.plc[k[1]][k[2]]
  BY DEF CacheIsCurrent
<1>1. k \in PLCs \X Fields
  BY DEF CurrentInv, FeedTypes, LoopRow
<1>2. PICK p \in PLCs, f \in Fields : k = <<p, f>> /\ p = k[1] /\ f = k[2]
  BY <1>1
<1>3. Live
  BY DEF Live, CurrentInv, LoopStage
<1>4. ~Sent(stream.events, p, f) /\ ~Off(p, f)
  BY <1>2 DEF Sent, Off
<1>5. QED
  BY <1>2, <1>3, <1>4 DEF CurrentInv, CacheRight

\* In every reachable state a stream read to its end leaves the cache current.
THEOREM FeedIsCurrent == FeedSpec => []CacheIsCurrent
<1>1. FeedInit /\ [][FeedNext]_feedVars => []CacheIsCurrent
  BY CurrentStart, CurrentStep, CurrentRead, PTL
<1>2. QED
  BY <1>1 DEF FeedSpec
=============================================================================
