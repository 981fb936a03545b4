----------------------------- MODULE Changeover ------------------------------
(***************************************************************************)
(* The changeover of one production line of an edge: the state machine in  *)
(* memory (changeover/machine.go), the log it writes and is restored from, *)
(* and the engine's registry of machines, which makes one when a request   *)
(* first asks for it.                                                      *)
(*                                                                         *)
(* Start, Advance and Cancel hold the machine's lock to the end, so each   *)
(* is one step; only the lookup before them can interleave.                *)
(***************************************************************************)
EXTENDS Naturals, Sequences, SequencesExt

CONSTANTS
    JobStyles,     \* job styles
    NoStyle,       \* the empty style
    Clerks,        \* goroutines that serve changeover requests
    MaxRestarts,   \* bound on restarts
    MaxLogErrors   \* bound on reads of the log, and inserts into it, that fail

ASSUME ChangeoverAssumption ==
    /\ NoStyle \notin JobStyles
    /\ MaxRestarts \in Nat /\ MaxLogErrors \in Nat

VARIABLES
    machines,      \* the machines made since the process started
    registered,    \* the one in changeoverMgrs, or 0
    request,       \* by clerk: the operation asked for, and the machine it got
    lastRow,       \* the newest row of changeover_log: [from, to, state]
    restarts,
    logErrors      \* reads and inserts that failed

changeoverVars == <<machines, registered, request, lastRow, restarts, logErrors>>

StateOrder == <<"running", "stopping", "counting_out", "storing", "delivering",
                "counting_in", "ready", "running">>

NextState(s) == StateOrder[SelectInSeq(StateOrder, LAMBDA x : x = s) + 1]

NewMachine == [from |-> NoStyle, to |-> NoStyle, state |-> "running", active |-> FALSE]

\* An empty log reads like one that ends with a finished changeover.
NoRow == [from |-> NoStyle, to |-> NoStyle, state |-> "running"]

RestoreNothing == NewMachine     \* Deviation: the log is not read.

\* The last row of the log tells whether a changeover was under way.
Restore ==
    IF lastRow.state = "running" THEN NewMachine
    ELSE [from |-> lastRow.from, to |-> lastRow.to, state |-> lastRow.state,
          active |-> TRUE]

LogFails == logErrors < MaxLogErrors /\ logErrors' = logErrors + 1

\* A machine is made and restored. If its log cannot be read, it starts fresh.
Makes(before) ==
    \/ machines' = Append(before, Restore) /\ UNCHANGED logErrors
    \/ machines' = Append(before, NewMachine) /\ LogFails

NoRequest == [op |-> "none", pc |-> "idle", machine |-> 0]

Ask(c) ==
    /\ request[c] = NoRequest
    /\ \E op \in {"start", "advance", "cancel"} :
          request' = [request EXCEPT ![c] = [op |-> op, pc |-> "find", machine |-> 0]]
    /\ UNCHANGED <<machines, registered, lastRow, restarts, logErrors>>

Got(c, m) == request' = [request EXCEPT ![c].pc = "operate", ![c].machine = m]

\* ChangeoverMachine: look under the read lock, then make one if there is none.
FindMachine(c) ==
    /\ request[c].pc = "find"
    /\ IF registered # 0 THEN Got(c, registered)
       ELSE request' = [request EXCEPT ![c].pc = "create"]
    /\ UNCHANGED <<machines, registered, lastRow, restarts, logErrors>>

\* Deviation: under the write lock it does not look again.
CreateMachineTwice(c) ==
    /\ request[c].pc = "create"
    /\ Makes(machines)
    /\ registered' = Len(machines) + 1
    /\ Got(c, Len(machines) + 1)
    /\ UNCHANGED <<lastRow, restarts>>

\* Under the write lock it looks again.
CreateMachine(c) ==
    /\ request[c].pc = "create"
    /\ IF registered # 0
       THEN Got(c, registered) /\ UNCHANGED <<machines, registered, logErrors>>
       ELSE /\ Makes(machines)
            /\ registered' = Len(machines) + 1
            /\ Got(c, Len(machines) + 1)
    /\ UNCHANGED <<lastRow, restarts>>

\* A row that cannot be written is only reported to the log file.
LogTransition(from, to, state) ==
    \/ lastRow' = [from |-> from, to |-> to, state |-> state] /\ UNCHANGED logErrors
    \/ LogFails /\ UNCHANGED lastRow

Becomes(c, m) ==
    /\ machines' = [machines EXCEPT ![request[c].machine] = m]
    /\ LogTransition(m.from, m.to, m.state)

Mine(c) == machines[request[c].machine]

Operates(c, op) ==
    /\ request[c].pc = "operate" /\ request[c].op = op
    /\ request' = [request EXCEPT ![c] = NoRequest]
    /\ UNCHANGED <<registered, restarts>>

Start(c) ==
    /\ Operates(c, "start") /\ ~Mine(c).active
    /\ \E from, to \in JobStyles :
          Becomes(c, [from |-> from, to |-> to, state |-> "stopping", active |-> TRUE])

Advance(c) ==
    /\ Operates(c, "advance") /\ Mine(c).active
    /\ LET next == NextState(Mine(c).state)
       IN  Becomes(c, [Mine(c) EXCEPT !.state = next, !.active = next # "running"])

\* The log of a cancelled changeover names no styles.
Cancel(c) == Operates(c, "cancel") /\ Mine(c).active /\ Becomes(c, NewMachine)

\* Or the line of the request cannot be read.
Refused(c) ==
    /\ \/ Operates(c, "start") /\ Mine(c).active
       \/ /\ request[c].pc = "create"
          /\ request' = [request EXCEPT ![c] = NoRequest]
          /\ UNCHANGED <<registered, restarts>>
       \/ \E op \in {"advance", "cancel"} : Operates(c, op) /\ ~Mine(c).active
    /\ UNCHANGED <<machines, lastRow, logErrors>>

\* The process restarts. Engine.Start makes the machine of a line it finds; one
\* that it could not list, or that is set up later, waits for the first request.
Restart ==
    /\ restarts < MaxRestarts
    /\ restarts' = restarts + 1
    /\ request' = [c \in Clerks |-> NoRequest]
    /\ \/ Makes(<< >>) /\ registered' = 1
       \/ machines' = << >> /\ registered' = 0 /\ UNCHANGED logErrors
    /\ UNCHANGED lastRow

ChangeoverInit ==
    /\ machines = << >> /\ registered = 0
    /\ request = [c \in Clerks |-> NoRequest]
    /\ lastRow = NoRow /\ restarts = 0 /\ logErrors = 0

ChangeoverNext ==
    \/ Restart
    \/ \E c \in Clerks : \/ Ask(c) \/ FindMachine(c) \/ CreateMachine(c)
                         \/ Start(c) \/ Advance(c) \/ Cancel(c) \/ Refused(c)

ChangeoverSpec == ChangeoverInit /\ [][ChangeoverNext]_changeoverVars

(***************************************************************************)
(* Properties.                                                             *)
(***************************************************************************)
LogRow == [from : JobStyles \cup {NoStyle}, to : JobStyles \cup {NoStyle},
           state : Range(StateOrder)]

\* Type: machines and log rows are in a state of the changeover.
ChangeoverTypeOK ==
    /\ \A i \in DOMAIN machines : machines[i].state \in Range(StateOrder)
    /\ \A c \in Clerks : request[c].machine \in 0..Len(machines)
    /\ registered \in 0..Len(machines)
    /\ lastRow \in LogRow

\* A restart at any moment finds the changeover where it stands: the log says
\* of the registered machine what its memory says, and no other machine is in
\* anybody's hands (engine.go:157, machine.go:39). Only a row that could not be
\* written, and a log that could not be read when it was needed, break it.
LogIsMemory ==
    /\ logErrors = 0 /\ registered # 0 =>
          LET m == machines[registered]
          IN  /\ m.active = Restore.active
              /\ m.active => m = Restore
    /\ \A c \in Clerks : request[c].pc = "operate" => request[c].machine = registered

\* The log tells changeovers from stopping to running without a gap and without
\* mixing two, whoever advances and wherever the process restarts, as long as
\* every row is written and the log is read whenever it is needed.
Follows(a, b) ==
    \/ a.state = "running" /\ b.state = "stopping"
    \/ a.state # "running" /\ b = [a EXCEPT !.state = NextState(@)]
    \/ a.state # "running" /\ b = NoRow

LogTellsChangeovers ==
    [][logErrors = 0 /\ lastRow' # lastRow => Follows(lastRow, lastRow')]_changeoverVars
=============================================================================
