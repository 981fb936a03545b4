------------------------------ MODULE DebugLog ------------------------------
(***************************************************************************)
(* Core's debug log (debuglog.go): every goroutine writes to one ring      *)
(* buffer under its lock, then tells the browser hub, then the file. The   *)
(* diagnostics page reads the ring, whole or by subsystem.                 *)
(***************************************************************************)
EXTENDS Naturals, Sequences

CONSTANTS
    Loggers,        \* goroutines that log
    Subsystems,     \* the names they log under
    FileFilters,    \* what main.go may pass: NoFile or a set, empty for all
    NoFile,         \* no file output
    NoEntry,        \* a place of the ring never written, and nothing to tell
    RingSize,       \* the size of the ring (1000)
    MaxLogged       \* bound on entries

ASSUME DebugLogAssumption ==
    /\ RingSize \in Nat \ {0} /\ MaxLogged \in Nat
    /\ \A f \in FileFilters \ {NoFile} : f \subseteq Subsystems

VARIABLES
    fileFilter,     \* l.file and l.filter
    entries,        \* the ring
    pos,            \* where the next entry goes
    full,           \* whether the ring has wrapped
    onEntry,        \* whether the hub has set its callback
    writing,        \* by goroutine: the entry it still has to tell, and where
    logged,         \* history: every entry, in the order of the lock
    filed           \* the numbers of the entries in the file, in its order

debugVars == <<fileFilter, entries, pos, full, onEntry, writing, logged, filed>>

NotWriting == [entry |-> NoEntry, next |-> "none"]

ToFile(entry) ==
    /\ fileFilter # NoFile
    /\ fileFilter = {} \/ entry.subsystem \in fileFilter

\* The critical section of Log.
Entered(g, entry) ==
    /\ entries' = [entries EXCEPT ![pos] = entry]
    /\ pos' = (pos + 1) % RingSize
    /\ logged' = Append(logged, entry)
    /\ writing' = [writing EXCEPT ![g] =
                      [entry |-> entry, next |-> IF onEntry THEN "callback" ELSE "file"]]
    /\ UNCHANGED <<fileFilter, onEntry, filed>>

NextEntry(s) == [number |-> Len(logged) + 1, subsystem |-> s]

\* Deviation: full only tells that the ring has just wrapped.
LogWrapped(g, s) ==
    /\ writing[g] = NotWriting /\ Len(logged) < MaxLogged
    /\ Entered(g, NextEntry(s))
    /\ full' = (pos' = 0)

Log(g, s) ==
    /\ writing[g] = NotWriting /\ Len(logged) < MaxLogged
    /\ Entered(g, NextEntry(s))
    /\ full' = (pos' = 0 \/ full)

\* The callback is the one there was under the lock; it is called without.
CallOnEntry(g) ==
    /\ writing[g].next = "callback"
    /\ writing' = [writing EXCEPT ![g].next = "file"]
    /\ UNCHANGED <<fileFilter, entries, pos, full, onEntry, logged, filed>>

\* The file has a lock of its own: its lines may stand in another order.
WriteFile(g) ==
    /\ writing[g].next = "file"
    /\ filed' = IF ToFile(writing[g].entry)
                THEN Append(filed, writing[g].entry.number) ELSE filed
    /\ writing' = [writing EXCEPT ![g] = NotWriting]
    /\ UNCHANGED <<fileFilter, entries, pos, full, onEntry, logged>>

SetOnEntry ==
    /\ ~onEntry /\ onEntry' = TRUE
    /\ UNCHANGED <<fileFilter, entries, pos, full, writing, logged, filed>>

DebugInit ==
    /\ fileFilter \in FileFilters
    /\ entries = [i \in 0..RingSize - 1 |-> NoEntry]
    /\ pos = 0 /\ full = FALSE /\ onEntry = FALSE
    /\ writing = [g \in Loggers |-> NotWriting]
    /\ logged = << >> /\ filed = << >>

DebugNext ==
    \/ \E g \in Loggers :
          \/ \E s \in Subsystems : Log(g, s)
          \/ CallOnEntry(g) \/ WriteFile(g)
    \/ SetOnEntry

DebugSpec == DebugInit /\ [][DebugNext]_debugVars

(***************************************************************************)
(* What the diagnostics page reads.                                        *)
(***************************************************************************)
Count == IF full THEN RingSize ELSE pos

\* Entries: the ring unrolled, the oldest entry first.
Unrolled ==
    LET oldest == IF full THEN pos ELSE 0
    IN  [i \in 1..Count |-> entries[(oldest + i - 1) % RingSize]]

OfSubsystem(log, s) == SelectSeq(log, LAMBDA entry : entry.subsystem = s)

Entries(s) == OfSubsystem(Unrolled, s)

SubsystemsSeen == {entries[i].subsystem : i \in 0..Count - 1}

(***************************************************************************)
(* Properties.                                                             *)
(***************************************************************************)
LastLogged ==
    LET n == Len(logged)
    IN  SubSeq(logged, IF n > RingSize THEN n - RingSize + 1 ELSE 1, n)

\* The page shows the last RingSize entries, oldest first and none twice,
\* before the ring has wrapped, when it is exactly full and however often it
\* wrapped; a subsystem's entries are the same ones, filtered, and the names
\* offered are those of the entries shown (debuglog.go:118, 151).
RingKeepsLast ==
    /\ Unrolled = LastLogged
    /\ \A s \in Subsystems : Entries(s) = OfSubsystem(LastLogged, s)
    /\ SubsystemsSeen = {LastLogged[i].subsystem : i \in DOMAIN LastLogged}
=============================================================================
