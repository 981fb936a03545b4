------------------------------ MODULE SceneSync ------------------------------
(***************************************************************************)
(* The nodes and scene points of core follow the scene of the fleet         *)
(* manager (engine.go, handlers_nodes.go): SceneSync, which an atomic bool   *)
(* keeps from running twice, started by the first successful ping after an  *)
(* outage or by a button; and handleSceneSync, another button that the bool *)
(* does not guard.  Each is a sequence of statements; the node forms and    *)
(* the scene itself may change between any two of them.                     *)
(*                                                                         *)
(* The database is SQLite, the default, where nothing refuses to delete a   *)
(* node.  On Postgres the foreign keys of schema_postgres.go do, if rows    *)
(* refer to it, and engine.go:309 drops DeleteNode's error: there such a    *)
(* node would outlive a synchronisation.                                    *)
(***************************************************************************)
EXTENDS Naturals, FiniteSets

CONSTANTS Locations,      \* bin locations
          Areas,
          NoArea,         \* zone '', location ''; in a scene: the location is not there
          NoName,
          FormZones,      \* what operators type as a zone
          Syncers,        \* goroutines that run a synchronisation
          MaxIds,         \* bound: node rows ever inserted
          MaxSceneForms,  \* bound: node forms
          MaxScenes,      \* bound: changes of the scene
          MaxSyncRuns     \* bound: synchronisations started

ASSUME SceneAssumption ==
  /\ NoArea \notin Locations \cup Areas /\ NoName \notin Locations
  /\ FormZones \subseteq Areas \cup {NoArea}
  /\ MaxIds \in Nat /\ MaxSceneForms \in Nat /\ MaxScenes \in Nat /\ MaxSyncRuns \in Nat

VARIABLES scene,          \* the fleet's: location -> area
          scenePoints,    \* scene_points: pairs <<area, location>>
          rows,           \* nodes: id -> [name, loc, zone], or no row
          inserted,       \* AUTOINCREMENT: rows ever inserted, an id is never used twice
          sceneSyncing,   \* the atomic bool
          sync,           \* every syncer's progress
          sceneForms, scenes, syncRuns

sceneVars == <<scene, scenePoints, rows, inserted, sceneSyncing, sync, sceneForms, scenes, syncRuns>>

NodeIds == 1 .. MaxIds
Free == [name |-> NoName, loc |-> NoArea, zone |-> NoArea]
NodeRows == {i \in NodeIds : rows[i] # Free}
First(S) == CHOOSE x \in S : TRUE      \* lists are walked in one order, maps in any
InScene(s) == {l \in Locations : s[l] # NoArea}

(* calm: since the run began to write nodes, no form and no unguarded run   *)
(* has written them, and no node elsewhere holds a wanted name.             *)
Resting == [at |-> "idle", guarded |-> FALSE, scene |-> [l \in Locations |-> NoArea],
            areas |-> {}, todo |-> {}, list |-> [i \in NodeIds |-> Free],
            calm |-> TRUE]

SceneInit ==
  /\ scene \in [Locations -> Areas \cup {NoArea}] /\ InScene(scene) # {}
  /\ scenePoints = {}
  /\ rows = [i \in NodeIds |-> Free] /\ inserted = 0
  /\ sceneSyncing = FALSE
  /\ sync = [s \in Syncers |-> Resting]
  /\ sceneForms = 0 /\ scenes = 0 /\ syncRuns = 0

Has(l) == \E i \in NodeRows : rows[i].loc = l

Named(n) == {i \in NodeRows : rows[i].name = n}       \* the name is UNIQUE
CreateNode(n) ==
  /\ inserted < MaxIds /\ inserted' = inserted + 1
  /\ rows' = [rows EXCEPT ![inserted'] = n]

(* What another one writes disturbs a run that is in the middle of it.       *)
NodeSteps == {"create", "delete", "zone"}

NodesBy(s) ==
  [t \in Syncers |-> IF t # s /\ sync[t].at \in NodeSteps
                       THEN [sync[t] EXCEPT !.calm = FALSE] ELSE sync[t]]

-----------------------------------------------------------------------------
(* Deviation: the bool is set but not asked.                                *)
StartSyncTwice(s, guarded) ==
  /\ sync[s].at = "idle" /\ syncRuns < MaxSyncRuns
  /\ sceneSyncing' = (sceneSyncing \/ guarded)
  /\ sync' = [sync EXCEPT ![s] = [Resting EXCEPT !.at = "fetch", !.guarded = guarded]]
  /\ syncRuns' = syncRuns + 1
  /\ UNCHANGED <<scene, scenePoints, rows, inserted, sceneForms, scenes>>

(* SceneSync: a second call is refused.  handleSceneSync: always let in.    *)
StartSync(s, guarded) ==
  /\ sync[s].at = "idle" /\ syncRuns < MaxSyncRuns
  /\ guarded => ~sceneSyncing
  /\ sceneSyncing' = (sceneSyncing \/ guarded)
  /\ sync' = [sync EXCEPT ![s] = [Resting EXCEPT !.at = "fetch", !.guarded = guarded]]
  /\ syncRuns' = syncRuns + 1
  /\ UNCHANGED <<scene, scenePoints, rows, inserted, sceneForms, scenes>>

EndSync(s) ==
  /\ sync' = [sync EXCEPT ![s] = Resting]
  /\ sceneSyncing' = (sceneSyncing /\ ~sync[s].guarded)

(* GetSceneAreas: the scene at this moment, or an error that ends the run.  *)
GetSceneAreas(s) ==
  /\ sync[s].at = "fetch"
  /\ \/ /\ sync' = [sync EXCEPT ![s].at = "area", ![s].scene = scene,
                                ![s].areas = {scene[l] : l \in InScene(scene)}]
        /\ UNCHANGED sceneSyncing
     \/ EndSync(s)
  /\ UNCHANGED <<scene, scenePoints, rows, inserted, sceneForms, scenes, syncRuns>>

(* SyncScenePoints, area by area: only areas of this scene are cleared.     *)
DeleteScenePointsByArea(s) ==
  /\ sync[s].at = "area" /\ sync[s].areas # {}
  /\ LET a == First(sync[s].areas) IN
       /\ scenePoints' = {p \in scenePoints : p[1] # a}
       /\ sync' = [sync EXCEPT
                     ![s].at = "point", ![s].areas = @ \ {a},
                     ![s].todo = {l \in Locations : sync[s].scene[l] = a}]
  /\ UNCHANGED <<scene, rows, inserted, sceneSyncing, sceneForms, scenes, syncRuns>>

UpsertScenePoint(s) ==
  /\ sync[s].at = "point"
  /\ LET l == First(sync[s].todo) IN
       /\ scenePoints' = scenePoints \cup {<<sync[s].scene[l], l>>}
       /\ sync' = [sync EXCEPT
                     ![s].todo = @ \ {l},
                     ![s].at = IF sync[s].todo = {l} THEN "area" ELSE "point"]
  /\ UNCHANGED <<scene, rows, inserted, sceneSyncing, sceneForms, scenes, syncRuns>>

PointsDone(s) ==
  /\ sync[s].at = "area" /\ sync[s].areas = {}
  /\ sync' = [sync EXCEPT ![s].at = IF sync[s].guarded THEN "create" ELSE "zones",
                          ![s].todo = IF sync[s].guarded THEN InScene(sync[s].scene) ELSE {}]
  /\ UNCHANGED <<scene, scenePoints, rows, inserted, sceneSyncing, sceneForms, scenes, syncRuns>>

(* SyncFleetNodes: a node for every location that has none, then every node *)
(* whose location is not in the scene deleted, the hand-made ones too.      *)
CreateMissing(s) ==
  /\ sync[s].at = "create"
  /\ \E l \in sync[s].todo :
       LET refused == ~Has(l) /\ Named(l) # {} IN      \* the error is skipped
       /\ sync' = [sync EXCEPT ![s].todo = @ \ {l}, ![s].calm = @ /\ ~refused]
       /\ IF Has(l) \/ refused
            THEN UNCHANGED <<rows, inserted>>
            ELSE CreateNode([name |-> l, loc |-> l, zone |-> sync[s].scene[l]])
  /\ UNCHANGED <<scene, scenePoints, sceneSyncing, sceneForms, scenes, syncRuns>>

ListNodes(s) ==
  /\ \/ /\ sync[s].at = "create" /\ sync[s].todo = {}
        /\ sync' = [sync EXCEPT ![s].at = "delete",
                      ![s].todo = {i \in NodeRows : rows[i].loc \notin InScene(sync[s].scene)}]
     \/ /\ (sync[s].at = "delete" /\ sync[s].todo = {}) \/ sync[s].at = "zones"
        /\ sync' = [sync EXCEPT ![s].at = "zone", ![s].list = rows, ![s].todo = NodeRows]
  /\ UNCHANGED <<scene, scenePoints, rows, inserted, sceneSyncing, sceneForms, scenes, syncRuns>>

DeleteStale(s) ==
  /\ sync[s].at = "delete" /\ sync[s].todo # {}
  /\ LET i == First(sync[s].todo) IN
       /\ rows' = [rows EXCEPT ![i] = Free]
       /\ sync' = [sync EXCEPT ![s].todo = @ \ {i}]
  /\ UNCHANGED <<scene, scenePoints, inserted, sceneSyncing, sceneForms, scenes, syncRuns>>

(* UpdateNodeZones: the whole row of the list is written back; only         *)
(* SceneSync overwrites a zone that is set.                                 *)
NeedsZone(s, n) ==
  /\ n.loc \in InScene(sync[s].scene)
  /\ n.zone # sync[s].scene[n.loc]
  /\ sync[s].guarded \/ n.zone = NoArea

UpdateNodeZones(s) ==
  /\ sync[s].at = "zone" /\ sync[s].todo # {}
  /\ LET i == First(sync[s].todo)
         n == sync[s].list[i] IN
       IF NeedsZone(s, n)
         THEN /\ rows' = IF rows[i] = Free \/ ~(Named(n.name) \subseteq {i}) THEN rows
                         ELSE [rows EXCEPT ![i] = [n EXCEPT !.zone = sync[s].scene[n.loc]]]
              /\ sync' = [IF sync[s].guarded THEN sync ELSE NodesBy(s)
                            EXCEPT ![s].todo = @ \ {i}]
         ELSE /\ UNCHANGED rows
              /\ sync' = [sync EXCEPT ![s].todo = @ \ {i}]
  /\ UNCHANGED <<scene, scenePoints, inserted, sceneSyncing, sceneForms, scenes, syncRuns>>

FinishSync(s) ==
  /\ sync[s].at = "zone" /\ sync[s].todo = {}
  /\ EndSync(s)
  /\ UNCHANGED <<scene, scenePoints, rows, inserted, sceneForms, scenes, syncRuns>>

-----------------------------------------------------------------------------
(* The node forms: an update writes every field from the form.              *)
NodeForm ==
  /\ sceneForms < MaxSceneForms /\ sceneForms' = sceneForms + 1
  /\ sync' = [s \in Syncers |-> IF sync[s].at \in NodeSteps
                                THEN [sync[s] EXCEPT !.calm = FALSE] ELSE sync[s]]
  /\ UNCHANGED <<scene, scenePoints, sceneSyncing, scenes, syncRuns>>

(* The form may leave the location empty. *)
FormRows == [name : Locations \cup {"other"}, loc : Locations \cup {NoArea}, zone : FormZones]

SceneNodeCreate == NodeForm /\ \E n \in FormRows : Named(n.name) = {} /\ CreateNode(n)

SceneNodeUpdate ==
  /\ NodeForm /\ UNCHANGED inserted
  /\ \E i \in NodeRows, n \in FormRows :
       Named(n.name) \subseteq {i} /\ rows' = [rows EXCEPT ![i] = n]

SceneNodeDelete ==
  /\ NodeForm /\ UNCHANGED inserted
  /\ \E i \in NodeRows : rows' = [rows EXCEPT ![i] = Free]

ChangeScene ==
  /\ scenes < MaxScenes /\ scenes' = scenes + 1
  /\ \E l \in Locations, a \in Areas \cup {NoArea} :
       a # scene[l] /\ scene' = [scene EXCEPT ![l] = a]
  /\ UNCHANGED <<scenePoints, rows, inserted, sceneSyncing, sync, sceneForms, syncRuns>>

SceneNext ==
  \/ \E s \in Syncers :
       \/ \E g \in BOOLEAN : StartSync(s, g)
       \/ GetSceneAreas(s) \/ DeleteScenePointsByArea(s) \/ UpsertScenePoint(s)
       \/ PointsDone(s) \/ CreateMissing(s) \/ ListNodes(s) \/ DeleteStale(s)
       \/ UpdateNodeZones(s) \/ FinishSync(s)
  \/ SceneNodeCreate \/ SceneNodeUpdate \/ SceneNodeDelete \/ ChangeScene

SceneSpec == SceneInit /\ [][SceneNext]_sceneVars

-----------------------------------------------------------------------------
(* Type: every row, point and snapshot is over the declared sets.           *)
SceneTypeOK ==
  /\ scene \in [Locations -> Areas \cup {NoArea}]
  /\ scenePoints \subseteq Areas \X Locations
  /\ \A i \in NodeRows : /\ i <= inserted
                          /\ rows[i].zone \in Areas \cup {NoArea}
  /\ \A s \in Syncers : sync[s].guarded /\ sync[s].at # "idle" => sceneSyncing

(* A SceneSync that ends, undisturbed by a form or by the unguarded button, *)
(* leaves exactly the nodes of the scene it fetched, in their areas: two of *)
(* them never undo each other's work.                                       *)
SyncedNodes ==
  [][\A s \in Syncers :
       sync[s].at = "zone" /\ sync'[s].at = "idle" /\ sync[s].guarded /\ sync[s].calm =>
         /\ {rows[i].loc : i \in NodeRows} = InScene(sync[s].scene)
         /\ \A i \in NodeRows : rows[i].zone = sync[s].scene[rows[i].loc]]_sceneVars
==============================================================================
