--------------------------- MODULE MCCoreDispatch ---------------------------
(***************************************************************************)
(* The values of CoreDispatch's constants in the TLC runs: a plant with    *)
(* two storage nodes and a line, bins of one type that stand in the first  *)
(* store, and orders that compete for them.                                *)
(***************************************************************************)
EXTENDS CoreDispatch, TLC

MCNames == {"", "store1", "store2", "line1", "nowhere"}
MCNodes == {"store1", "store2", "line1"}
MCStorage == {"store1", "store2"}
MCCapacity == [n \in MCStorage |-> IF n = "store1" THEN 2 ELSE 1]
MCTypeOf == [p \in Payloads |-> "bin"]
MCStartAt == [p \in Payloads |-> "store1"]

Retrieve(u, d) ==
    [uuid |-> u, type |-> "retrieve", code |-> "bin", pickup |-> "", dest |-> d]
Move(u, s, d) ==
    [uuid |-> u, type |-> "move", code |-> "bin", pickup |-> s, dest |-> d]
Store(u, s) ==
    [uuid |-> u, type |-> "store", code |-> "bin", pickup |-> s, dest |-> ""]

\* A request may be received again: the edge's outbox repeats messages.
RetrieveRequests == {Retrieve(u, "line1") : u \in Uuids}

RetrieveAndMove == RetrieveRequests \cup {Move(u, "store1", "store2") : u \in Uuids}

\* Every type of order, and every way in which a request is turned down.
WideRequests == RetrieveAndMove \cup UNION {
    {Retrieve(u, ""), Retrieve(u, "nowhere"), Move(u, "nowhere", "line1"),
     Move(u, "store1", ""), Store(u, ""), Store(u, "line1"), Store(u, "nowhere"),
     [Retrieve(u, "line1") EXCEPT !.code = ""],
     [Retrieve(u, "line1") EXCEPT !.type = "swap"]} : u \in Uuids}

WideWaybills == {Store(u, s) : u \in Uuids, s \in {"", "line1"}}
NoWaybills == {}

\* Orders and bins are interchangeable in the safety runs.
Interchangeable == Permutations(Uuids) \cup Permutations(Payloads)
=============================================================================
