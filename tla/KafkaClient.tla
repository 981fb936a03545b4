---------------------------- MODULE KafkaClient -----------------------------
(***************************************************************************)
(* Core's link to Kafka (messaging/client.go): the writer and the readers  *)
(* of one connection, made when the process starts (main.go) and made anew *)
(* when somebody saves the settings (handlers_config.go). The goroutine of *)
(* a reader lives until ReadMessage fails: when its reader is closed, or   *)
(* when an offset could not be committed. One topic is read.               *)
(***************************************************************************)
EXTENDS Naturals, Sequences, FiniteSets

CONSTANTS
    Savers,            \* goroutines that save the settings
    KafkaFaults,       \* what happens in this instance
    MaxReconfigures,   \* bound on saves
    MaxBrokerChanges   \* bound on the broker going and coming

ASSUME KafkaAssumption ==
    /\ MaxReconfigures \in Nat /\ MaxBrokerChanges \in Nat
    /\ KafkaFaults \subseteq {"commit", "overlap"}
    /\ "main" \notin Savers

Threads == Savers \cup {"main"}

VARIABLES
    broker,        \* whether one is reachable
    kafka,         \* c.kafka: there or not, and the reader in its map (0: none)
    handler,       \* c.handlers has the topic
    readers,       \* the goroutines of Subscribe: whether their reader is closed,
                   \* whether they still run
    thread,        \* the step of every thread
    snapshot,      \* by thread: Reconfigure's copy of the handlers
    changed,       \* how often the broker went or came
    saved,         \* how often the settings were saved
    mishaps        \* what happened of KafkaFaults

kafkaVars == <<broker, kafka, handler, readers, thread, snapshot, changed, saved, mishaps>>

NoKafka == [up |-> FALSE, reader |-> 0]

At(t, from, to) == thread[t] = from /\ thread' = [thread EXCEPT ![t] = to]

\* main tries once; the web server starts when it is done.
Connect(t) ==
    /\ \/ ~broker /\ UNCHANGED kafka
             /\ At(t, "connect", IF t = "main" THEN "subscribe" ELSE "idle")
       \/ broker /\ kafka' = [up |-> TRUE, reader |-> 0] /\ At(t, "connect", "subscribe")
    /\ UNCHANGED <<broker, handler, readers, snapshot, changed, saved, mishaps>>

\* The entry in the map is overwritten, whatever reader was there.
OpenReader ==
    IF kafka.up
    THEN /\ readers' = Append(readers, [closed |-> FALSE, running |-> TRUE])
         /\ kafka' = [kafka EXCEPT !.reader = Len(readers) + 1]
    ELSE UNCHANGED <<readers, kafka>>

\* Deviation: only a connected client remembers its handlers.
SubscribeLate(t) ==
    /\ At(t, "subscribe", "idle")
    /\ t # "main" => snapshot[t]
    /\ handler' = (handler \/ kafka.up)
    /\ OpenReader
    /\ UNCHANGED <<broker, snapshot, changed, saved, mishaps>>

\* The handler is remembered even when there is no connection.
Subscribe(t) ==
    /\ At(t, "subscribe", "idle")
    /\ t # "main" => snapshot[t]
    /\ handler' = TRUE
    /\ OpenReader
    /\ UNCHANGED <<broker, snapshot, changed, saved, mishaps>>

NothingToSubscribe(t) ==
    /\ t # "main" /\ ~snapshot[t] /\ At(t, "subscribe", "idle")
    /\ UNCHANGED <<broker, kafka, handler, readers, snapshot, changed, saved, mishaps>>

Reconfiguring == {t \in Savers : thread[t] # "idle"}

SaveSettings(t) ==
    /\ thread["main"] = "idle" /\ saved < MaxReconfigures
    /\ saved' = saved + 1
    /\ At(t, "idle", "close")
    /\ IF Reconfiguring = {} THEN UNCHANGED mishaps
       ELSE "overlap" \in KafkaFaults /\ mishaps' = mishaps \cup {"overlap"}
    /\ UNCHANGED <<broker, kafka, handler, readers, snapshot, changed>>

Close(t) ==
    /\ At(t, "close", "snapshot")
    /\ readers' = [r \in DOMAIN readers |->
                      IF r = kafka.reader THEN [readers[r] EXCEPT !.closed = TRUE]
                      ELSE readers[r]]
    /\ kafka' = NoKafka
    /\ UNCHANGED <<broker, handler, snapshot, changed, saved, mishaps>>

SnapshotHandlers(t) ==
    /\ At(t, "snapshot", "connect")
    /\ snapshot' = [snapshot EXCEPT ![t] = handler]
    /\ UNCHANGED <<broker, kafka, handler, readers, changed, saved, mishaps>>

\* ReadMessage fails: for good, since the goroutine returns.
ReaderExits(r) ==
    /\ readers[r].running
    /\ \/ readers[r].closed /\ UNCHANGED mishaps
       \/ /\ ~readers[r].closed /\ "commit" \in KafkaFaults
          /\ mishaps' = mishaps \cup {"commit"}
    /\ readers' = [readers EXCEPT ![r].running = FALSE]
    /\ UNCHANGED <<broker, kafka, handler, thread, snapshot, changed, saved>>

BrokerChanges ==
    /\ changed < MaxBrokerChanges
    /\ changed' = changed + 1 /\ broker' = ~broker
    /\ UNCHANGED <<kafka, handler, readers, thread, snapshot, saved, mishaps>>

KafkaInit ==
    /\ broker \in BOOLEAN
    /\ kafka = NoKafka /\ handler = FALSE /\ readers = << >>
    /\ thread = [t \in Threads |-> IF t = "main" THEN "connect" ELSE "idle"]
    /\ snapshot = [t \in Threads |-> FALSE]
    /\ changed = 0 /\ saved = 0 /\ mishaps = {}

KafkaNext ==
    \/ \E t \in Threads : Connect(t) \/ Subscribe(t) \/ NothingToSubscribe(t)
    \/ \E t \in Savers : SaveSettings(t) \/ Close(t) \/ SnapshotHandlers(t)
    \/ \E r \in DOMAIN readers : ReaderExits(r)
    \/ BrokerChanges

KafkaSpec == KafkaInit /\ [][KafkaNext]_kafkaVars

(***************************************************************************)
(* Properties.                                                             *)
(***************************************************************************)
\* Type: the connection's reader is one of the goroutines.
KafkaTypeOK ==
    /\ kafka.up \in BOOLEAN /\ kafka.reader \in 0..Len(readers)
    /\ \A t \in Threads :
          thread[t] \in {"idle", "close", "snapshot", "connect", "subscribe"}

\* "All previously registered subscriptions are automatically restored"
\* (client.go:186): whoever the broker was away for, at the start or at a save,
\* a client that is connected reads, and with one reader only. Two saves at
\* once leave a second one, and a failed commit none.
OneReader ==
    mishaps = {} /\ (\A t \in Threads : thread[t] = "idle") =>
        /\ kafka.up => kafka.reader # 0
        /\ {r \in DOMAIN readers : readers[r].running /\ ~readers[r].closed} =
              IF kafka.up THEN {kafka.reader} ELSE {}
=============================================================================
