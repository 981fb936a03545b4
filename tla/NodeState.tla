------------------------------ MODULE NodeState ------------------------------
(***************************************************************************)
(* Where core believes its payloads are: the rows of SQLite and their       *)
(* write-through copy in Redis (nodestate/), which the pages read.           *)
(*                                                                         *)
(* Only the completion of an order refreshes the copy, one node after the   *)
(* other, each by a list of the rows followed by two writes.  The payload   *)
(* forms, the claims and the deletion of a node change rows without it, and *)
(* Redis may be away: its errors are dropped.  `unfresh` remembers the       *)
(* nodes whose rows changed that way since they were last listed.           *)
(***************************************************************************)
EXTENDS Naturals, FiniteSets

CONSTANTS Nodes,          \* ids of nodes, never used twice (AUTOINCREMENT)
          Payloads,
          NoNode,         \* node_id NULL
          NoPayload,      \* a payload that is not in the table
          MaxForms,       \* bound: rows changed by forms, nodes created and deleted
          MaxMoves,       \* bound: completions
          MaxAway         \* bound: times Redis goes away or core restarts

ASSUME NodeStateAssumption ==
  /\ NoNode \notin Nodes /\ NoPayload \notin Nodes /\ NoNode # NoPayload
  /\ IsFiniteSet(Payloads)
  /\ MaxForms \in Nat /\ MaxMoves \in Nat /\ MaxAway \in Nat

VARIABLES placed,         \* payloads.node_id
          claimed,        \* payloads.claimed_by IS NOT NULL
          nodes,          \* the nodes table
          cache,          \* Redis: [up, meta, items, count]
          mover,          \* the consumer's goroutine inside MovePayload
          creating,       \* nodes inserted whose meta is not written yet
          unfresh,
          forms, moves, away

stateVars == <<placed, claimed, nodes, cache, mover, creating, unfresh, forms, moves, away>>

RowsAt(n) == {<<p, claimed[p]>> : p \in {q \in Payloads : placed[q] = n}}

Idle == [at |-> "idle", payload |-> NoPayload, from |-> NoNode, to |-> NoNode, list |-> {}]

StateInit ==
  /\ placed \in [Payloads -> Nodes]
  /\ claimed = [p \in Payloads |-> FALSE]
  /\ nodes \in SUBSET Nodes /\ \A p \in Payloads : placed[p] \in nodes
  /\ cache = [up |-> TRUE, meta |-> nodes, items |-> [n \in Nodes |-> RowsAt(n)],
              count |-> [n \in Nodes |-> Cardinality(RowsAt(n))]]
  /\ mover = Idle
  /\ creating = {} /\ unfresh = {} /\ forms = 0 /\ moves = 0 /\ away = 0

(* The dispatcher claims a payload for an order; the copy is not told. *)
ClaimPayload(p) ==
  /\ placed[p] # NoPayload /\ ~claimed[p]
  /\ claimed' = [claimed EXCEPT ![p] = TRUE]
  /\ unfresh' = unfresh \cup ({placed[p]} \cap Nodes)
  /\ UNCHANGED <<placed, nodes, cache, mover, creating, forms, moves, away>>

-----------------------------------------------------------------------------
(* MovePayload, called for the payload of a completed order.  The node is   *)
(* looked up by name before it: it may be gone by the time of the UPDATE.    *)
CompleteOrder(p, to) ==
  /\ mover.at = "idle" /\ moves < MaxMoves
  /\ placed[p] # NoPayload /\ claimed[p] /\ to \in nodes
  /\ mover' = [Idle EXCEPT !.at = "move", !.payload = p, !.from = placed[p], !.to = to]
  /\ moves' = moves + 1
  /\ UNCHANGED <<placed, claimed, nodes, cache, creating, unfresh, forms, away>>

NextNodeOnly(m) == "list_to"     \* Deviation: only where the payload went to.

NextNode(m) == IF m.from \in Nodes THEN "list_from" ELSE "list_to"

MoveRow ==
  /\ mover.at = "move"
  /\ LET p == mover.payload IN
       /\ placed' = IF placed[p] = NoPayload THEN placed ELSE [placed EXCEPT ![p] = mover.to]
       /\ unfresh' = IF placed[p] \in Nodes \ {mover.from}
                       THEN unfresh \cup {placed[p]} ELSE unfresh
  /\ mover' = [mover EXCEPT !.at = "unclaim"]
  /\ UNCHANGED <<claimed, nodes, cache, creating, forms, moves, away>>

UnclaimPayload ==
  /\ mover.at = "unclaim"
  /\ claimed' = [claimed EXCEPT ![mover.payload] = FALSE]
  /\ mover' = [mover EXCEPT !.at = NextNode(mover)]
  /\ UNCHANGED <<placed, nodes, cache, creating, unfresh, forms, moves, away>>

(* refreshNodeRedis: the list, the items, the count, for one node.          *)
Refreshed == IF mover.at \in {"list_from", "items_from", "count_from"} THEN mover.from ELSE mover.to

ListPayloadsByNode ==
  /\ mover.at \in {"list_from", "list_to"}
  /\ mover' = [mover EXCEPT !.list = RowsAt(Refreshed),
                            !.at = IF @ = "list_from" THEN "items_from" ELSE "items_to"]
  /\ unfresh' = unfresh \ {Refreshed}
  /\ UNCHANGED <<placed, claimed, nodes, cache, creating, forms, moves, away>>

Missed(n) == IF cache.up THEN unfresh ELSE unfresh \cup {n}

SetNodePayloads ==
  /\ mover.at \in {"items_from", "items_to"}
  /\ cache' = IF cache.up THEN [cache EXCEPT !.items[Refreshed] = mover.list] ELSE cache
  /\ unfresh' = Missed(Refreshed)
  /\ mover' = [mover EXCEPT !.at = IF @ = "items_from" THEN "count_from" ELSE "count_to"]
  /\ UNCHANGED <<placed, claimed, nodes, creating, forms, moves, away>>

SetCount ==
  /\ mover.at \in {"count_from", "count_to"}
  /\ cache' = IF cache.up THEN [cache EXCEPT !.count[Refreshed] = Cardinality(mover.list)] ELSE cache
  /\ unfresh' = Missed(Refreshed)
  /\ mover' = IF mover.at = "count_from" THEN [mover EXCEPT !.at = "list_to"] ELSE Idle
  /\ UNCHANGED <<placed, claimed, nodes, creating, forms, moves, away>>

-----------------------------------------------------------------------------
(* The pages.  None of the payload forms refreshes the copy.                *)
PlaceForm(p, n) ==
  /\ placed' = [placed EXCEPT ![p] = n]
  /\ unfresh' = unfresh \cup ({placed[p], n} \cap Nodes)
  /\ forms < MaxForms /\ forms' = forms + 1
  /\ UNCHANGED <<nodes, cache, mover, creating, moves, away>>

HandlePayloadCreate(p) ==
  /\ placed[p] = NoPayload /\ mover.payload # p
  /\ \E n \in nodes \cup {NoNode} : PlaceForm(p, n)
  /\ UNCHANGED claimed

HandlePayloadUpdate(p) ==
  /\ placed[p] # NoPayload
  /\ \E n \in nodes \cup {NoNode} : PlaceForm(p, n)
  /\ UNCHANGED claimed

HandlePayloadDelete(p) ==
  /\ placed[p] # NoPayload
  /\ PlaceForm(p, NoPayload)
  /\ claimed' = [claimed EXCEPT ![p] = FALSE]

(* CreateNode, from the form or from a scene sync, then RefreshNodeMeta. An *)
(* id is never used twice: no row, no key and no move tells of a new one.   *)
HandleNodeCreate(n) ==
  /\ n \notin nodes /\ n \notin cache.meta
  /\ cache.items[n] = {} /\ cache.count[n] = 0
  /\ \A p \in Payloads : placed[p] # n
  /\ mover.from # n /\ mover.to # n
  /\ forms < MaxForms /\ forms' = forms + 1
  /\ nodes' = nodes \cup {n}
  /\ creating' = creating \cup {n}
  /\ UNCHANGED <<placed, claimed, cache, mover, unfresh, moves, away>>

RefreshNodeMeta(n) ==
  /\ n \in creating
  /\ creating' = creating \ {n}
  /\ cache' = IF cache.up /\ n \in nodes THEN [cache EXCEPT !.meta = @ \cup {n}] ELSE cache
  /\ UNCHANGED <<placed, claimed, nodes, mover, unfresh, forms, moves, away>>

(* DeleteNode leaves the payload rows and every Redis key of the node.  So   *)
(* it is on SQLite, the default: its driver does not know _foreign_keys of  *)
(* the data source name (store.go:32).  On Postgres, which is not modelled,  *)
(* a node that payloads refer to is refused and stays.                      *)
HandleNodeDelete(n) ==
  /\ n \in nodes
  /\ forms < MaxForms /\ forms' = forms + 1
  /\ nodes' = nodes \ {n}
  /\ UNCHANGED <<placed, claimed, cache, mover, creating, unfresh, moves, away>>

-----------------------------------------------------------------------------
RedisGoes ==
  /\ cache.up /\ away < MaxAway
  /\ away' = away + 1
  /\ cache' = [cache EXCEPT !.up = FALSE]
  /\ UNCHANGED <<placed, claimed, nodes, mover, creating, unfresh, forms, moves>>

RedisComesBack ==                             \* checkConnectionStatus only tells the pages
  /\ ~cache.up
  /\ cache' = [cache EXCEPT !.up = TRUE]
  /\ UNCHANGED <<placed, claimed, nodes, mover, creating, unfresh, forms, moves, away>>

(* SyncRedisFromSQL, before anything else of core runs: FlushAll forgets    *)
(* the members of the node set, then the meta and the rows of every node.   *)
SyncRedisFromSQL ==
  [cache EXCEPT !.meta = nodes,
                !.items = [n \in Nodes |-> IF n \in nodes THEN RowsAt(n)
                                           ELSE IF n \in cache.meta THEN {} ELSE @[n]],
                !.count = [n \in Nodes |-> IF n \in nodes THEN Cardinality(RowsAt(n))
                                           ELSE IF n \in cache.meta THEN 0 ELSE @[n]]]

RestartCore ==
  /\ away < MaxAway /\ away' = away + 1
  /\ cache' = IF cache.up THEN SyncRedisFromSQL ELSE cache
  /\ unfresh' = IF cache.up THEN unfresh \ nodes
                ELSE unfresh \cup ({mover.from, mover.to} \cap Nodes)
  /\ mover' = Idle /\ creating' = {}
  /\ UNCHANGED <<placed, claimed, nodes, forms, moves>>

StateNext ==
  \/ \E p \in Payloads : \/ ClaimPayload(p)
                         \/ HandlePayloadCreate(p)
                         \/ HandlePayloadUpdate(p)
                         \/ HandlePayloadDelete(p)
                         \/ \E to \in Nodes : CompleteOrder(p, to)
  \/ MoveRow \/ UnclaimPayload \/ ListPayloadsByNode \/ SetNodePayloads \/ SetCount
  \/ \E n \in Nodes : HandleNodeCreate(n) \/ RefreshNodeMeta(n) \/ HandleNodeDelete(n)
  \/ RedisGoes \/ RedisComesBack \/ RestartCore

StateSpec == StateInit /\ [][StateNext]_stateVars

-----------------------------------------------------------------------------
(* What GetNodeState answers: the copy when the node's meta is there, the   *)
(* rows otherwise.                                                          *)
GetNodeState(n) ==
  IF cache.up /\ n \in cache.meta
    THEN [items |-> cache.items[n], count |-> cache.count[n]]
    ELSE [items |-> RowsAt(n), count |-> Cardinality(RowsAt(n))]

(* Type: the rows and the copy are over the declared sets.                  *)
NodeStateTypeOK ==
  /\ placed \in [Payloads -> Nodes \cup {NoNode, NoPayload}]
  /\ claimed \in [Payloads -> BOOLEAN]
  /\ nodes \subseteq Nodes /\ creating \subseteq Nodes /\ unfresh \subseteq Nodes
  /\ cache.up \in BOOLEAN /\ cache.meta \subseteq Nodes
  /\ cache.items \in [Nodes -> SUBSET (Payloads \X BOOLEAN)]
  /\ cache.count \in [Nodes -> 0 .. Cardinality(Payloads)]

(* The copy follows the moves: what a page shows of a node is what its rows *)
(* say, the claims too, when no move is under way and no form, claim or     *)
(* outage has come between since the node was last listed.  In particular a *)
(* completed order leaves neither its payload at the old node nor the claim *)
(* on the new one.                                                          *)
CopyFollowsMoves ==
  mover.at = "idle" =>
    \A n \in nodes \ unfresh :
      GetNodeState(n) = [items |-> RowsAt(n), count |-> Cardinality(RowsAt(n))]
==============================================================================
