----------------------------- MODULE WarLinkFeed -----------------------------
(***************************************************************************)
(* The edge's picture of the PLCs, as WarLink gives it (plc/manager.go,    *)
(* plc/sse.go): one goroutine either polls WarLink's REST interface or     *)
(* follows its event stream after one poll that fills the cache, and the   *)
(* settings page stops and starts it. Saves of the settings are modelled   *)
(* one at a time. A PLC has one tag, its counter.                          *)
(***************************************************************************)
EXTENDS Naturals, Sequences, SequencesExt

CONSTANTS
    PLCs,
    FeedFaults,       \* the faults that happen in this instance
    MaxFeedFaults,    \* bound on faults
    MaxChanges,       \* bound on what happens to the PLCs
    MaxSaves          \* bound on saves of the settings

ASSUME FeedAssumption ==
    /\ FeedFaults \subseteq {"fetch", "tags", "down", "read", "stall"}
    /\ MaxFeedFaults \in Nat /\ MaxChanges \in Nat /\ MaxSaves \in Nat

VARIABLES
    warlink,       \* whether it answers; by PLC its status and tag value
    changes,       \* how often a PLC changed
    stream,        \* the event stream: open, broken, what was sent on it
    settings,      \* cfg.WarLink: enabled, mode
    saves,         \* saves of the settings
    saver,         \* the step of StopWarLinkPoller and StartWarLinkPoller
    running,       \* m.warlinkRunning
    loop,          \* the goroutine: step, mode, the list it fetched; whether its
                   \* stop channel is closed and its context cancelled; what of
                   \* which PLC it has from this stream and the poll before it
    cache,         \* m.warlinkConnected; by PLC what the manager holds
    told,          \* what the last events said of WarLink and of every PLC
    feedFaults

feedVars == <<warlink, changes, stream, settings, saves, saver, running, loop,
              cache, told, feedFaults>>

FeedFault(f) ==
    /\ f \in FeedFaults /\ feedFaults < MaxFeedFaults
    /\ feedFaults' = feedFaults + 1

(***************************************************************************)
(* WarLink.                                                                *)
(***************************************************************************)
Changes(p, field, is) ==
    /\ warlink' = [warlink EXCEPT !.plc[p][field] = is]
    /\ IF stream.open /\ ~stream.broken
       THEN stream' = [stream EXCEPT !.events =
                          Append(@, [plc |-> p, field |-> field, is |-> is])]
       ELSE UNCHANGED stream

\* A PLC appears, connects, fails or counts; one that is removed sends nothing.
WarLinkChanges ==
    /\ changes < MaxChanges /\ changes' = changes + 1
    /\ \E p \in PLCs :
          \/ \E s \in {"Connected", "Error"} \ {warlink.plc[p].status} :
                Changes(p, "status", s)
          \/ /\ warlink.plc[p].status = "Connected"
             /\ Changes(p, "value", warlink.plc[p].value + 1)
          \/ /\ warlink.plc[p].status # "absent"
             /\ warlink' = [warlink EXCEPT !.plc[p].status = "absent"]
             /\ UNCHANGED stream
    /\ UNCHANGED <<settings, saves, saver, running, loop, cache, told, feedFaults>>

WarLinkGoesDown ==
    /\ warlink.up /\ FeedFault("down")
    /\ warlink' = [warlink EXCEPT !.up = FALSE]
    /\ stream' = [stream EXCEPT !.broken = TRUE]
    /\ UNCHANGED <<changes, settings, saves, saver, running, loop, cache, told>>

WarLinkComesUp ==
    /\ ~warlink.up
    /\ warlink' = [warlink EXCEPT !.up = TRUE]
    /\ UNCHANGED <<changes, stream, settings, saves, saver, running, loop, cache, told,
                   feedFaults>>

(***************************************************************************)
(* One poll of the REST interface: the list of PLCs, then their tags.      *)
(***************************************************************************)
Loop(pc) == loop' = [loop EXCEPT !.pc = pc]

AfterTick == IF loop.mode = "poll" THEN "waiting" ELSE "opened"

FetchPLCs ==
    /\ loop.pc = "tick"
    /\ \/ /\ warlink.up
          /\ loop' = [loop EXCEPT !.pc = "apply", !.was = cache.connected,
                                  !.list = [p \in PLCs |-> warlink.plc[p].status]]
          /\ cache' = [cache EXCEPT !.connected = TRUE]
          /\ UNCHANGED <<told, feedFaults>>
       \/ /\ \/ ~warlink.up /\ UNCHANGED feedFaults
             \/ warlink.up /\ FeedFault("fetch")
          /\ Loop(AfterTick)
          /\ cache' = [cache EXCEPT !.connected = FALSE]
          /\ told' = [told EXCEPT !.warlink = @ /\ ~cache.connected]
    /\ UNCHANGED <<warlink, changes, stream, settings, saves, saver, running>>

NewStatus(p) ==
    IF loop.list[p] # "absent" THEN loop.list[p]
    ELSE IF cache.plc[p].status = "Connected" THEN "Disconnected"
    ELSE cache.plc[p].status

\* An event goes out when the status passes to or from Connected.
Tells(p, old, new) ==
    IF (old = "Connected") # (new = "Connected") THEN new = "Connected" ELSE told.plc[p]

Present == {p \in PLCs : loop.list[p] # "absent"}

Listed == {p \in PLCs : loop.list[p] = "Connected"}

\* Whose tags cannot be read keeps the old ones.
ApplyPLCs ==
    /\ loop.pc = "apply"
    /\ \E got \in SUBSET Listed :
          /\ \/ got = (IF warlink.up THEN Listed ELSE {}) /\ UNCHANGED feedFaults
             \/ got # Listed /\ FeedFault("tags")
          /\ cache' = [cache EXCEPT !.plc = [p \in PLCs |->
                [status |-> NewStatus(p),
                 value |-> IF p \in got THEN warlink.plc[p].value ELSE cache.plc[p].value]]]
          /\ loop' = [loop EXCEPT !.pc = AfterTick,
                                  !.known = {<<p, "status">> : p \in Present}
                                               \cup {<<p, "value">> : p \in got}]
    /\ told' = [warlink |-> told.warlink \/ ~loop.was,
                plc |-> [p \in PLCs |-> Tells(p, cache.plc[p].status, NewStatus(p))]]
    /\ UNCHANGED <<warlink, changes, stream, settings, saves, saver, running>>

\* select takes either when the tick and the stop are both ready.
WaitForTick ==
    /\ loop.pc = "waiting"
    /\ Loop("tick") \/ (loop.closed /\ Loop("none"))
    /\ UNCHANGED <<warlink, changes, stream, settings, saves, saver, running, cache, told,
                   feedFaults>>

(***************************************************************************)
(* The event stream: sseLoop, sseConnect.                                  *)
(***************************************************************************)
CheckStop ==
    /\ loop.pc = "top"
    /\ Loop(IF loop.closed THEN "none" ELSE "connect")
    /\ UNCHANGED <<warlink, changes, stream, settings, saves, saver, running, cache, told,
                   feedFaults>>

\* A stop that came since the check has cancelled an older context.
SetCancel ==
    /\ loop.pc = "connect"
    /\ loop' = [loop EXCEPT !.pc = "dial", !.cancelled = FALSE]
    /\ UNCHANGED <<warlink, changes, stream, settings, saves, saver, running, cache, told,
                   feedFaults>>

NoStream == [open |-> FALSE, broken |-> FALSE, events |-> << >>]

Dial ==
    /\ loop.pc = "dial"
    /\ \/ loop.cancelled /\ Loop("none") /\ UNCHANGED stream
       \/ ~loop.cancelled /\ ~warlink.up /\ Loop("lost") /\ UNCHANGED stream
       \/ /\ ~loop.cancelled /\ warlink.up
          /\ stream' = [NoStream EXCEPT !.open = TRUE]
          /\ loop' = [loop EXCEPT !.pc = "tick", !.known = {}]
    /\ UNCHANGED <<warlink, changes, settings, saves, saver, running, cache, told, feedFaults>>

\* Deviation: what was sent meanwhile is thrown away.
OpenedLate ==
    /\ loop.pc = "opened"
    /\ Loop("read")
    /\ cache' = [cache EXCEPT !.connected = TRUE]
    /\ told' = [told EXCEPT !.warlink = @ \/ ~cache.connected]
    /\ stream' = [stream EXCEPT !.events = << >>]
    /\ UNCHANGED <<warlink, changes, settings, saves, saver, running, feedFaults>>

\* Connected, whatever the poll that fills the cache has found.
Opened ==
    /\ loop.pc = "opened"
    /\ Loop("read")
    /\ cache' = [cache EXCEPT !.connected = TRUE]
    /\ told' = [told EXCEPT !.warlink = @ \/ ~cache.connected]
    /\ UNCHANGED <<warlink, changes, stream, settings, saves, saver, running, feedFaults>>

\* handleSSEStatusChange, handleSSEValueChange
HandleSSEEvent ==
    /\ loop.pc = "read" /\ stream.events # << >>
    /\ LET ev == Head(stream.events)
       IN  /\ cache' = [cache EXCEPT !.plc[ev.plc][ev.field] = ev.is]
           /\ told' = IF ev.field = "value" THEN told
                      ELSE [told EXCEPT !.plc[ev.plc] =
                               Tells(ev.plc, cache.plc[ev.plc].status, ev.is)]
           /\ loop' = [loop EXCEPT !.known = @ \cup {<<ev.plc, ev.field>>}]
    /\ stream' = [stream EXCEPT !.events = Tail(@)]
    /\ UNCHANGED <<warlink, changes, settings, saves, saver, running, feedFaults>>

\* sseConnect returns: cleanly after a stop, else with an error.
StreamEnds ==
    /\ loop.pc = "read"
    /\ \/ loop.cancelled /\ Loop("none") /\ UNCHANGED feedFaults
       \/ ~loop.cancelled /\ stream.broken /\ stream.events = << >> /\ Loop("lost")
          /\ UNCHANGED feedFaults
       \/ ~loop.cancelled /\ Loop("lost") /\ FeedFault("read")
    /\ stream' = NoStream
    /\ UNCHANGED <<warlink, changes, settings, saves, saver, running, cache, told>>

\* Two minutes without an event: the context is cancelled, as by a stop, and the
\* loop takes it for one.
StallTimeout ==
    /\ loop.pc = "read" /\ stream.events = << >> /\ FeedFault("stall")
    /\ Loop("none")
    /\ stream' = NoStream
    /\ UNCHANGED <<warlink, changes, settings, saves, saver, running, cache, told>>

\* Deviation: only the loss of WarLink is told.
AllDisconnectedSilently ==
    /\ cache' = [connected |-> FALSE,
                 plc |-> [p \in PLCs |->
                    IF cache.plc[p].status = "Connected"
                    THEN [cache.plc[p] EXCEPT !.status = "Disconnected"] ELSE cache.plc[p]]]
    /\ told' = [told EXCEPT !.warlink = @ /\ ~cache.connected]

\* Only what is Connected changes, and tells.
AllDisconnected ==
    LET now == [p \in PLCs |-> IF cache.plc[p].status = "Connected" THEN "Disconnected"
                               ELSE cache.plc[p].status]
    IN  /\ cache' = [connected |-> FALSE,
                     plc |-> [p \in PLCs |-> [cache.plc[p] EXCEPT !.status = now[p]]]]
        /\ told' = [warlink |-> told.warlink /\ ~cache.connected,
                    plc |-> [p \in PLCs |-> Tells(p, cache.plc[p].status, now[p])]]

ConnectionLost ==
    /\ loop.pc = "lost"
    /\ IF cache.connected THEN AllDisconnected ELSE UNCHANGED <<cache, told>>
    /\ Loop("backoff")
    /\ UNCHANGED <<warlink, changes, stream, settings, saves, saver, running, feedFaults>>

\* Deviation: the loop ends where it should wait.
SSEBackoffEnds ==
    /\ loop.pc = "backoff"
    /\ Loop("none")
    /\ UNCHANGED <<warlink, changes, stream, settings, saves, saver, running, cache, told,
                   feedFaults>>

SSEBackoff ==
    /\ loop.pc = "backoff"
    /\ Loop("top") \/ (loop.closed /\ Loop("none"))
    /\ UNCHANGED <<warlink, changes, stream, settings, saves, saver, running, cache, told,
                   feedFaults>>

(***************************************************************************)
(* The settings page, and the start of the engine.                         *)
(***************************************************************************)
NoLoop == [pc |-> "none", mode |-> "poll", list |-> [p \in PLCs |-> "absent"],
           was |-> FALSE, closed |-> FALSE, cancelled |-> FALSE, known |-> {}]

UpdateWarLink ==
    /\ saver = "idle" /\ saves < MaxSaves
    /\ \E c \in [enabled : BOOLEAN, mode : {"poll", "sse"}] : settings' = c
    /\ saves' = saves + 1 /\ saver' = "stop"
    /\ UNCHANGED <<warlink, changes, stream, running, loop, cache, told, feedFaults>>

StopWarLinkPoller ==
    /\ saver = "stop"
    /\ IF running
       THEN /\ saver' = "wait" /\ running' = FALSE
            /\ loop' = [loop EXCEPT !.closed = TRUE, !.cancelled = TRUE]
       ELSE saver' = "start" /\ UNCHANGED <<running, loop>>
    /\ UNCHANGED <<warlink, changes, stream, settings, saves, cache, told, feedFaults>>

StopWaited ==
    /\ saver = "wait" /\ loop.pc = "none"
    /\ saver' = "start"
    /\ AllDisconnected
    /\ UNCHANGED <<warlink, changes, stream, settings, saves, running, loop, feedFaults>>

StartWarLinkPoller ==
    /\ saver = "start"
    /\ saver' = "idle"
    /\ IF settings.enabled
       THEN /\ running' = TRUE
            /\ loop' = [NoLoop EXCEPT !.mode = settings.mode,
                                      !.pc = IF settings.mode = "sse" THEN "top" ELSE "tick"]
       ELSE UNCHANGED <<running, loop>>
    /\ UNCHANGED <<warlink, changes, stream, settings, saves, cache, told, feedFaults>>

FeedInit ==
    /\ \E st \in [PLCs -> {"absent", "Connected"}] :
          warlink = [up |-> TRUE, plc |-> [p \in PLCs |-> [status |-> st[p], value |-> 1]]]
    /\ changes = 0 /\ stream = NoStream
    /\ settings \in [enabled : {TRUE}, mode : {"poll", "sse"}]
    /\ saves = 0 /\ saver = "start" /\ running = FALSE /\ loop = NoLoop
    /\ cache = [connected |-> FALSE, plc |-> [p \in PLCs |-> [status |-> "none", value |-> 0]]]
    /\ told = [warlink |-> FALSE, plc |-> [p \in PLCs |-> FALSE]]
    /\ feedFaults = 0

LoopSteps ==
    \/ FetchPLCs \/ ApplyPLCs \/ WaitForTick \/ CheckStop \/ SetCancel \/ Dial \/ Opened
    \/ HandleSSEEvent \/ StreamEnds \/ ConnectionLost \/ SSEBackoff

FeedNext ==
    \/ WarLinkChanges \/ WarLinkGoesDown \/ WarLinkComesUp
    \/ LoopSteps \/ StallTimeout
    \/ UpdateWarLink \/ StopWarLinkPoller \/ StopWaited \/ StartWarLinkPoller

\* The scheduler runs the goroutine and the request that waits for it.
FeedFairness ==
    /\ WF_feedVars(LoopSteps)
    /\ WF_feedVars(StopWarLinkPoller \/ StopWaited \/ StartWarLinkPoller)

FeedSpec == FeedInit /\ [][FeedNext]_feedVars /\ FeedFairness

(***************************************************************************)
(* Properties.                                                             *)
(***************************************************************************)
\* Type: the loop and the saver are at one of their steps.
FeedTypeOK ==
    /\ loop.pc \in {"none", "tick", "apply", "waiting", "top", "connect", "dial",
                    "opened", "read", "lost", "backoff"}
    /\ loop.pc # "none" => running \/ loop.closed
    /\ DOMAIN cache.plc = PLCs /\ cache.connected \in BOOLEAN
    /\ told \in [warlink : BOOLEAN, plc : [PLCs -> BOOLEAN]]
    /\ saver \in {"idle", "stop", "wait", "start"}

\* Browsers and the engine follow events, new pages read the manager: once the
\* loop is at rest both agree on WarLink and on every PLC, through lost
\* connections, vanished PLCs and switches of the mode (manager.go:151).
EventsTellStatus ==
    loop.pc # "apply" =>
        /\ told.warlink = cache.connected
        /\ \A p \in PLCs : told.plc[p] = (cache.plc[p].status = "Connected")

\* A stream that is open and read to its end leaves the cache current: the poll
\* comes after the subscription, so no change falls between them (sse.go:132),
\* though what changed meanwhile is applied again after it.
CacheIsCurrent ==
    loop.pc = "read" /\ stream.events = << >> /\ ~stream.broken =>
        \A k \in loop.known :
            LET p == k[1]  field == k[2]
            IN  warlink.plc[p].status # "absent" =>
                    cache.plc[p][field] = warlink.plc[p][field]

\* A connection that was lost is tried again until WarLink answers or an
\* operator stops the feed (sse.go:44).
LostIsRetried ==
    (loop.pc = "lost" /\ ~loop.closed) ~> (stream.open \/ ~warlink.up \/ loop.closed)

\* "stall detected, reconnecting" (sse.go:153): a feed that is on and not being
\* stopped, with WarLink there, comes to have an open stream.
StallReconnects ==
    (running /\ loop.mode = "sse" /\ ~stream.open)
        ~> (stream.open \/ ~warlink.up \/ ~running)
=============================================================================
