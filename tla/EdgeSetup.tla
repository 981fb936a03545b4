------------------------------ MODULE EdgeSetup ------------------------------
(***************************************************************************)
(* Setting up what an edge counts (www/handlers_api.go, plc/               *)
(* warlink_tags.go): job styles, reporting points that map a PLC's tag to  *)
(* a style, and the tags that WarLink publishes because a point asked for  *)
(* it. A request is several steps: the row, a look at the cache, a call to *)
(* WarLink, and the flag that the edge manages the tag.                    *)
(*                                                                         *)
(* The data source name asks for foreign keys in another driver's syntax   *)
(* (store.go:17), so rows may point at styles that are gone. A tag stands  *)
(* for a PLC and a tag of it.                                              *)
(***************************************************************************)
EXTENDS Naturals, FiniteSets

CONSTANTS
    Tags, Styles,
    Admins,           \* goroutines that serve requests of the setup page
    MaxPoints,        \* bound on reporting points ever made
    MaxRequests,      \* bound on requests
    SetupFaults,      \* what may go wrong in this instance
    MaxSetupFaults    \* bound on what goes wrong

ASSUME SetupAssumption ==
    /\ "none" \notin Tags
    /\ MaxPoints \in Nat /\ MaxRequests \in Nat /\ MaxSetupFaults \in Nat
    /\ SetupFaults \subseteq {"call_fails", "others_publish", "others_unpublish",
                              "lag", "crash", "overlap"}

VARIABLES
    styles,        \* by style whether it is new, live or gone
    points,        \* reporting_points by id; ids are not used again
    made,          \* points ever made
    published,     \* the tags WarLink publishes
    ours,          \* those of them that a call of the edge enabled
    seen,          \* the tags in the edge's cache
    form,          \* by admin the request under way
    requests,      \* requests made
    spoilt         \* what went wrong so far

setupVars == <<styles, points, made, published, ours, seen, form, requests, spoilt>>

NoPoint == [tag |-> "none", style |-> "none", managed |-> FALSE]

Ids == 1..MaxPoints

Rows == {i \in Ids : points[i] # NoPoint}

Taken(tag, id) == \E i \in Rows \ {id} : points[i].tag = tag

SetupFault(f) ==
    /\ f \in SetupFaults
    /\ f \in spoilt \/ Cardinality(spoilt) < MaxSetupFaults
    /\ spoilt' = spoilt \cup {f}

(***************************************************************************)
(* WarLink and the edge's cache of it.                                     *)
(***************************************************************************)
OthersPublish ==
    /\ \E t \in Tags : \/ /\ t \notin published /\ SetupFault("others_publish")
                          /\ published' = published \cup {t}
                       \/ /\ t \in published /\ SetupFault("others_unpublish")
                          /\ published' = published \ {t}
    /\ ours' = ours \cap published'
    /\ UNCHANGED <<styles, points, made, seen, form, requests>>

\* The next poll, or the next connection of the stream.
RefreshCache ==
    /\ seen' = published
    /\ UNCHANGED <<styles, points, made, published, ours, form, requests, spoilt>>

(***************************************************************************)
(* The steps of a request.                                                 *)
(***************************************************************************)
NoForm == [op |-> "none", pc |-> "idle", id |-> 0, tag |-> "none", style |-> "none",
           old |-> NoPoint]

Goto(a, pc) == form' = [form EXCEPT ![a].pc = pc]

Done(a) == form' = [form EXCEPT ![a] = NoForm]

Insert(a) ==
    LET f == form[a] IN
    /\ f.pc = "insert"
    /\ IF Taken(f.tag, 0) THEN Done(a) /\ UNCHANGED <<points, made>>
       ELSE /\ made < MaxPoints /\ made' = made + 1
            /\ points' = [points EXCEPT ![made + 1] =
                             [tag |-> f.tag, style |-> f.style, managed |-> FALSE]]
            /\ form' = [form EXCEPT ![a].pc = "check", ![a].id = made + 1]
    /\ UNCHANGED <<styles, published, ours, seen, requests, spoilt>>

\* GetReportingPoint, GetReportingPointByStyleID
ReadOld(a) ==
    LET f == form[a] IN
    /\ f.pc = "read"
    /\ IF f.op = "style" THEN
          \/ \E i \in Rows : /\ points[i].style = f.style
                             /\ form' = [form EXCEPT ![a].pc = "write", ![a].id = i,
                                                     ![a].old = points[i]]
          \/ /\ \A i \in Rows : points[i].style # f.style
             /\ IF f.tag = "none" THEN Done(a) ELSE Goto(a, "insert")
       ELSE form' = [form EXCEPT ![a].pc = "write", ![a].old = points[f.id]]
    /\ UNCHANGED <<styles, points, made, published, ours, seen, requests, spoilt>>

\* UpdateReportingPoint. The style form goes on though the tag is another
\* point's and the update was refused.
Write(a) ==
    LET f == form[a]
        refused == f.id \in Rows /\ Taken(f.tag, f.id)
    IN
    /\ f.pc = "write" /\ f.tag # "none" /\ f.op # "delete"
    /\ points' = IF f.id \in Rows /\ ~refused
                 THEN [points EXCEPT ![f.id].tag = f.tag, ![f.id].style = f.style]
                 ELSE points
    /\ spoilt' = IF refused /\ f.op = "style" THEN spoilt \cup {"refused"} ELSE spoilt
    /\ IF (refused /\ f.op # "style") \/ f.old = NoPoint \/ f.old.tag = f.tag THEN Done(a)
       ELSE Goto(a, IF f.old.managed THEN "disable" ELSE "check")
    /\ UNCHANGED <<styles, made, published, ours, seen, requests>>

\* Deviation: nobody withdraws the tag.
DeletePointOnly(a) ==
    LET f == form[a] IN
    /\ \/ f.pc = "write" /\ f.op = "delete"
       \/ f.pc \in {"write", "last"} /\ f.op = "style" /\ f.tag = "none"
    /\ points' = [points EXCEPT ![f.id] = NoPoint]
    /\ Done(a)
    /\ UNCHANGED <<styles, made, published, ours, seen, requests, spoilt>>

\* The page deletes the row and then tells WarLink, the style form the other way.
DeletePoint(a) ==
    LET f == form[a] IN
    /\ \/ f.pc = "write" /\ f.op = "delete"
       \/ f.pc \in {"write", "last"} /\ f.op = "style" /\ f.tag = "none"
    /\ IF f.op = "style" /\ f.pc = "write" /\ f.old.managed
       THEN Goto(a, "disable") /\ UNCHANGED points
       ELSE /\ points' = [points EXCEPT ![f.id] = NoPoint]
            /\ IF f.op = "delete" /\ f.old.managed THEN Goto(a, "disable") ELSE Done(a)
    /\ UNCHANGED <<styles, made, published, ours, seen, requests, spoilt>>

\* A call that fails may have reached WarLink; a failure is only logged.
DisableTagPublishing(a) ==
    LET f == form[a] IN
    /\ f.pc = "disable"
    /\ \/ published' = published \ {f.old.tag} /\ UNCHANGED spoilt
       \/ SetupFault("call_fails") /\ published' \in {published, published \ {f.old.tag}}
    /\ ours' = ours \cap published'
    /\ IF f.op = "delete" THEN Done(a)
       ELSE Goto(a, IF f.tag = "none" THEN "last" ELSE "check")
    /\ UNCHANGED <<styles, points, made, seen, requests>>

\* Deviation: nobody asks WarLink to publish the tag.
IsTagPublishedAlways(a) ==
    /\ form[a].pc = "check"
    /\ Done(a)
    /\ UNCHANGED <<styles, points, made, published, ours, seen, requests, spoilt>>

\* It looks at the cache, which may lag behind. Of a tag that is there already
\* the page, not the style form, notes that the edge does not manage it.
IsTagPublished(a) ==
    LET f == form[a] IN
    /\ f.pc = "check"
    /\ \/ (f.tag \in seen) = (f.tag \in published) /\ UNCHANGED spoilt
       \/ (f.tag \in seen) # (f.tag \in published) /\ SetupFault("lag")
    /\ IF f.tag \notin seen THEN Goto(a, "enable")
       ELSE IF f.op = "update" THEN Goto(a, "unmark") ELSE Done(a)
    /\ UNCHANGED <<styles, points, made, published, ours, seen, requests>>

EnableTagPublishing(a) ==
    LET f == form[a] IN
    /\ f.pc = "enable"
    /\ \/ /\ published' = published \cup {f.tag} /\ ours' = ours \cup {f.tag}
          /\ Goto(a, "mark") /\ UNCHANGED spoilt
       \/ /\ SetupFault("call_fails")
          /\ published' \in {published, published \cup {f.tag}}
          /\ ours' = ours \cup (published' \ published)
          /\ IF f.op = "create" THEN Done(a) ELSE Goto(a, "unmark")
    /\ UNCHANGED <<styles, points, made, seen, requests>>

SetReportingPointManaged(a) ==
    LET f == form[a] IN
    /\ f.pc \in {"mark", "unmark"}
    /\ points' = IF f.id \in Rows THEN [points EXCEPT ![f.id].managed = (f.pc = "mark")]
                 ELSE points
    /\ Done(a)
    /\ UNCHANGED <<styles, made, published, ours, seen, requests, spoilt>>

(***************************************************************************)
(* The requests.                                                           *)
(***************************************************************************)
Live == {s \in Styles : styles[s] = "live"}

Opens(a, f) ==
    /\ form[a] = NoForm /\ requests < MaxRequests /\ requests' = requests + 1
    /\ form' = [form EXCEPT ![a] = f]
    /\ \/ (\A b \in Admins : form[b] = NoForm) /\ UNCHANGED spoilt
       \/ (\E b \in Admins : form[b] # NoForm) /\ SetupFault("overlap")
    /\ UNCHANGED <<points, made, published, ours, seen>>

CreateReportingPoint(a) ==
    /\ \E t \in Tags, s \in Live :
          Opens(a, [NoForm EXCEPT !.op = "create", !.pc = "insert", !.tag = t, !.style = s])
    /\ UNCHANGED styles

UpdateReportingPoint(a) ==
    /\ \E i \in Rows, t \in Tags, s \in Live :
          Opens(a, [NoForm EXCEPT !.op = "update", !.pc = "read", !.id = i, !.tag = t,
                                  !.style = s])
    /\ UNCHANGED styles

DeleteReportingPoint(a) ==
    /\ \E i \in Rows : Opens(a, [NoForm EXCEPT !.op = "delete", !.pc = "read", !.id = i])
    /\ UNCHANGED styles

CreateJobStyle(a) ==
    \E s \in Styles, t \in Tags \cup {"none"} :
       /\ styles[s] = "new"
       /\ styles' = [styles EXCEPT ![s] = "live"]
       /\ Opens(a, IF t = "none" THEN NoForm
                   ELSE [NoForm EXCEPT !.op = "create", !.pc = "insert", !.tag = t,
                                       !.style = s])

UpdateJobStyle(a) ==
    /\ \E t \in Tags \cup {"none"}, s \in Live :
          Opens(a, [NoForm EXCEPT !.op = "style", !.pc = "read", !.tag = t, !.style = s])
    /\ UNCHANGED styles

\* The points of the style stay, and so do their tags.
DeleteJobStyle(a) ==
    \E s \in Live : styles' = [styles EXCEPT ![s] = "gone"] /\ Opens(a, NoForm)

CrashInSetup ==
    /\ \E a \in Admins : form[a] # NoForm
    /\ SetupFault("crash")
    /\ form' = [a \in Admins |-> NoForm] /\ seen' = {}
    /\ UNCHANGED <<styles, points, made, published, ours, requests>>

SetupInit ==
    /\ styles = [s \in Styles |-> "new"]
    /\ points = [i \in Ids |-> NoPoint] /\ made = 0
    /\ published \in SUBSET Tags /\ ours = {} /\ seen = published
    /\ form = [a \in Admins |-> NoForm] /\ requests = 0 /\ spoilt = {}

SetupNext ==
    \/ OthersPublish \/ RefreshCache \/ CrashInSetup
    \/ \E a \in Admins :
          \/ CreateReportingPoint(a) \/ UpdateReportingPoint(a) \/ DeleteReportingPoint(a)
          \/ CreateJobStyle(a) \/ UpdateJobStyle(a) \/ DeleteJobStyle(a)
          \/ Insert(a) \/ ReadOld(a) \/ Write(a) \/ DeletePoint(a)
          \/ DisableTagPublishing(a) \/ IsTagPublished(a) \/ EnableTagPublishing(a)
          \/ SetReportingPointManaged(a)

SetupSpec == SetupInit /\ [][SetupNext]_setupVars

(***************************************************************************)
(* Properties.                                                             *)
(***************************************************************************)
\* Type: rows have different tags, and ids are not used again.
SetupTypeOK ==
    /\ \A i \in Ids : points[i].managed \in BOOLEAN /\ (i > made => points[i] = NoPoint)
    /\ \A i, j \in Rows : i # j => points[i].tag # points[j].tag
    /\ ours \subseteq published /\ published \subseteq Tags

Settled == \A a \in Admins : form[a] = NoForm

\* A reporting point's tag is published, or nothing would be counted: only these
\* mishaps leave a point without (handlers_api.go:574, 626, 714, 774, 790).
PointHasItsTag ==
    Settled /\ spoilt \cap {"lag", "refused", "call_fails", "crash", "overlap",
                            "others_unpublish"} = {} =>
        \A i \in Rows : points[i].tag \in published

\* A tag the edge made WarLink publish belongs to a point that manages it, so
\* that it is withdrawn with the point: only these mishaps leave one behind.
NoTagLeft ==
    Settled /\ spoilt \cap {"refused", "call_fails", "crash", "overlap"} = {} =>
        ours \subseteq {points[i].tag : i \in {j \in Rows : points[j].managed}}
=============================================================================
