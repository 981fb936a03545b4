------------------------------ MODULE MCLinks -------------------------------
(***************************************************************************)
(* The links that are kept up: edge to core, edge to WarLink, core to      *)
(* Kafka, and both to their browsers. They share no variable, so every     *)
(* behaviour moves one of them, the focus, while the others stay as they   *)
(* start: fairness is asked of the one in focus.                           *)
(***************************************************************************)
EXTENDS EdgeRegistry, WarLinkFeed, EventHub, KafkaClient

VARIABLE focus

linkVars == <<focus, registryVars, feedVars, hubVars, kafkaVars>>

LinksInit ==
    /\ focus \in {"registry", "feed", "hub", "kafka"}
    /\ RegistryInit /\ FeedInit /\ HubInit /\ KafkaInit
    /\ focus # "feed" =>
          settings.mode = "sse" /\ \A p \in PLCs : warlink.plc[p].status = "absent"
    /\ focus # "hub" => side = "core"
    /\ focus # "kafka" => broker

LinksNext ==
    \/ focus = "registry" /\ RegistryNext /\ UNCHANGED <<focus, feedVars, hubVars, kafkaVars>>
    \/ focus = "feed" /\ FeedNext /\ UNCHANGED <<focus, registryVars, hubVars, kafkaVars>>
    \/ focus = "hub" /\ HubNext /\ UNCHANGED <<focus, registryVars, feedVars, kafkaVars>>
    \/ focus = "kafka" /\ KafkaNext /\ UNCHANGED <<focus, registryVars, feedVars, hubVars>>

LinksSpec ==
    /\ LinksInit /\ [][LinksNext]_linkVars
    /\ focus = "registry" => RegistryFairness
    /\ focus = "feed" => FeedFairness
=============================================================================
