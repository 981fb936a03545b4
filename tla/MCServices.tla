----------------------------- MODULE MCServices -----------------------------
(***************************************************************************)
(* The services of edge and core that share no variable with one another,  *)
(* checked in one TLC run: every behaviour moves one of them, the focus,   *)
(* while the others stay in one initial state. A run of each would explore *)
(* the same states.                                                        *)
(***************************************************************************)
EXTENDS PartCounting, Changeover, EdgeSetup, NodeState, SceneSync, Manifest, DebugLog

VARIABLE focus

Services == {"counting", "changeover", "setup", "state", "scene", "manifest", "log"}

AnyNode == CHOOSE n \in Nodes : TRUE
AnyPayload == CHOOSE p \in Payloads : TRUE

\* One initial state of every service that has several.
AtRest ==
    [counting   |-> machine.max = Max16 /\ machine.tag = 0 /\ point.linked,
     changeover |-> TRUE,
     setup      |-> published = {},
     state      |-> placed = [p \in Payloads |-> AnyNode] /\ nodes = {AnyNode},
     scene      |-> TRUE,
     manifest   |-> TRUE,
     log        |-> fileFilter = NoFile]

\* Every location in the same area: ChangeScene reaches the other scenes.
FirstScene == [l \in Locations |-> CHOOSE a \in Areas : TRUE]

ServicesInit ==
    /\ focus \in Services
    /\ CountInit /\ ChangeoverInit /\ SetupInit /\ StateInit /\ SceneInit /\ ManifestInit
    /\ DebugInit
    /\ scene = FirstScene
    /\ placed[AnyPayload] = AnyNode         \* nodes are only told apart by name
    /\ \A s \in Services \ {focus} : AtRest[s]

ServicesNext ==
    \/ /\ focus = "counting" /\ CountNext
       /\ UNCHANGED <<focus, changeoverVars, setupVars, stateVars, sceneVars, manifestVars, debugVars>>
    \/ /\ focus = "changeover" /\ ChangeoverNext
       /\ UNCHANGED <<focus, countVars, setupVars, stateVars, sceneVars, manifestVars, debugVars>>
    \/ /\ focus = "setup" /\ SetupNext
       /\ UNCHANGED <<focus, countVars, changeoverVars, stateVars, sceneVars, manifestVars, debugVars>>
    \/ /\ focus = "state" /\ StateNext
       /\ UNCHANGED <<focus, countVars, changeoverVars, setupVars, sceneVars, manifestVars, debugVars>>
    \/ /\ focus = "scene" /\ SceneNext
       /\ UNCHANGED <<focus, countVars, changeoverVars, setupVars, stateVars, manifestVars, debugVars>>
    \/ /\ focus = "manifest" /\ ManifestNext
       /\ UNCHANGED <<focus, countVars, changeoverVars, setupVars, stateVars, sceneVars, debugVars>>
    \/ /\ focus = "log" /\ DebugNext
       /\ UNCHANGED <<focus, countVars, changeoverVars, setupVars, stateVars, sceneVars, manifestVars>>

serviceVars ==
    <<focus, countVars, changeoverVars, setupVars, stateVars, sceneVars, manifestVars,
      debugVars>>

ServicesSpec == ServicesInit /\ [][ServicesNext]_serviceVars

\* Type: every service keeps its variables in their ranges.
ServicesTypeOK ==
    /\ PartsTypeOK /\ ChangeoverTypeOK /\ SetupTypeOK
    /\ NodeStateTypeOK /\ SceneTypeOK /\ ManifestTypeOK
=============================================================================
