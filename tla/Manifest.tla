------------------------------- MODULE Manifest -------------------------------
(***************************************************************************)
(* The manifest of a payload and the log of its corrections: a correction   *)
(* (handlers_corrections.go) changes the manifest item first and inserts    *)
(* the log row second, in two statements that an error or a crash may part; *)
(* the plain manifest calls (handlers_payloads.go) change items unlogged.   *)
(***************************************************************************)
EXTENDS Naturals, Sequences

CONSTANTS Clients,        \* requests in progress
          MaxItems,       \* bound: manifest items ever inserted
          Quantities,
          MaxCorrections, \* bound: corrections sent
          MaxPlain,       \* bound: plain manifest calls
          MaxLogFaults    \* bound: inserts of a log row that fail, and crashes

ASSUME ManifestAssumption ==
  /\ Quantities \subseteq Nat \ {0} /\ MaxItems \in Nat
  /\ MaxCorrections \in Nat /\ MaxPlain \in Nat /\ MaxLogFaults \in Nat

VARIABLES items,          \* manifest_items: id -> [qty, lot], or Absent
          lastItem,       \* AUTOINCREMENT
          asked,          \* every client's correction: [at, kind, item, qty]
          corrections,    \* the log, in the order of its rows
          disputed,       \* history: items whose log cannot tell their quantity
          corrected, plain, logFaults

manifestVars == <<items, lastItem, asked, corrections, disputed, corrected, plain, logFaults>>

ItemIds == 1 .. MaxItems
Absent == [qty |-> 0, lot |-> FALSE]
Kinds == {"add_item", "remove_item", "adjust_qty"}
Quiet == [at |-> "idle", kind |-> "add_item", item |-> 0, qty |-> 0]

ManifestInit ==
  /\ items = [i \in ItemIds |-> Absent] /\ lastItem = 0
  /\ asked = [c \in Clients |-> Quiet]
  /\ corrections = <<>> /\ disputed = {}
  /\ corrected = 0 /\ plain = 0 /\ logFaults = 0

(* Disputed: changed by a plain call, by two corrections at a time, by one  *)
(* that lost its row or by an adjustment of an item that is not there.      *)
Dispute(ids) == disputed' = disputed \cup ids

Pending(i) == \E c \in Clients : asked[c].at = "log" /\ asked[c].item = i

OverwrittenNever(i, n) == items     \* Deviation: the statement names no row.

(* CreateManifestItem, DeleteManifestItem, UpdateManifestItem: the last two  *)
(* change nothing, and report no error, when the item is not there.         *)
CreateManifestItem(n) ==
  /\ lastItem < MaxItems /\ lastItem' = lastItem + 1
  /\ items' = [items EXCEPT ![lastItem'] = n]

Overwritten(i, n) == IF items[i] = Absent THEN items ELSE [items EXCEPT ![i] = n]

(* apiCreateCorrection, the change.  An adjustment carries neither lot code *)
(* nor date nor notes, and the UPDATE clears them.                          *)
ApplyCorrection(c, kind, i, q) ==
  /\ asked[c].at = "idle" /\ corrected < MaxCorrections
  /\ corrected' = corrected + 1
  /\ CASE kind = "add_item" ->
            /\ i = lastItem + 1
            /\ CreateManifestItem([qty |-> q, lot |-> FALSE])
       [] kind = "remove_item" ->
            /\ i <= lastItem
            /\ items' = Overwritten(i, Absent) /\ UNCHANGED lastItem
       [] kind = "adjust_qty" ->
            /\ i <= lastItem
            /\ items' = Overwritten(i, [qty |-> q, lot |-> FALSE]) /\ UNCHANGED lastItem
  /\ asked' = [asked EXCEPT ![c] = [at |-> "log", kind |-> kind, item |-> i,
                                    qty |-> IF kind = "remove_item" THEN 0 ELSE q]]
  /\ Dispute(IF Pending(i) \/ (kind = "adjust_qty" /\ items[i] = Absent) THEN {i} ELSE {})
  /\ UNCHANGED <<corrections, plain, logFaults>>

(* CreateCorrection: the row, or an error answered while the change stays.  *)
LogCorrection(c) ==
  /\ asked[c].at = "log"
  /\ corrections' = Append(corrections, [item |-> asked[c].item, qty |-> asked[c].qty])
  /\ asked' = [asked EXCEPT ![c] = Quiet]
  /\ UNCHANGED <<items, lastItem, disputed, corrected, plain, logFaults>>

LoseCorrection(c) ==
  /\ asked[c].at = "log" /\ logFaults < MaxLogFaults
  /\ logFaults' = logFaults + 1
  /\ asked' = [asked EXCEPT ![c] = Quiet]
  /\ Dispute({asked[c].item})
  /\ UNCHANGED <<items, lastItem, corrections, corrected, plain>>

(* apiCreateManifestItem, apiUpdateManifestItem, apiDeleteManifestItem.     *)
PlainCall ==
  /\ plain < MaxPlain /\ plain' = plain + 1
  /\ UNCHANGED <<asked, corrections, corrected, logFaults>>

ApiCreateManifestItem(q) ==
  /\ PlainCall /\ CreateManifestItem([qty |-> q, lot |-> TRUE])
  /\ Dispute({lastItem'})

ApiUpdateManifestItem(i, q) ==
  /\ PlainCall /\ i <= lastItem
  /\ items' = Overwritten(i, [qty |-> q, lot |-> TRUE])
  /\ Dispute({i}) /\ UNCHANGED lastItem

ApiDeleteManifestItem(i) ==
  /\ PlainCall /\ i <= lastItem
  /\ items' = Overwritten(i, Absent)
  /\ Dispute({i}) /\ UNCHANGED lastItem

ManifestNext ==
  \/ \E c \in Clients :
       \/ \E k \in Kinds, i \in ItemIds, q \in Quantities : ApplyCorrection(c, k, i, q)
       \/ LogCorrection(c) \/ LoseCorrection(c)
  \/ \E q \in Quantities : ApiCreateManifestItem(q)
  \/ \E i \in ItemIds : ApiDeleteManifestItem(i) \/ \E q \in Quantities : ApiUpdateManifestItem(i, q)

ManifestSpec == ManifestInit /\ [][ManifestNext]_manifestVars
-----------------------------------------------------------------------------
(* Type: the items and the log are over the declared sets.                  *)
ManifestTypeOK ==
  /\ items \in [ItemIds -> [qty : Quantities \cup {0}, lot : BOOLEAN]]
  /\ asked \in [Clients -> [at : {"idle", "log"}, kind : Kinds, item : 0 .. MaxItems,
                           qty : Quantities \cup {0}]]
  /\ corrections \in Seq([item : ItemIds, qty : Quantities \cup {0}])

(* The log tells the manifest: an item whose corrections are all logged has *)
(* the quantity of its last row, an item without a row is not there, unless *)
(* it is disputed.                                                          *)
LogTellsManifest ==
  \A i \in ItemIds \ disputed :
    LET its == {k \in DOMAIN corrections : corrections[k].item = i} IN
    ~Pending(i) =>
      items[i].qty = IF its = {} THEN 0
                     ELSE corrections[CHOOSE k \in its : \A j \in its : j <= k].qty
==============================================================================
