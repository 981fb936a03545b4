---------------------------- MODULE PartCounting -----------------------------
(***************************************************************************)
(* How the parts a machine makes become numbers: the PLC's counter, the    *)
(* poll loop of the edge (plc/manager.go), the hourly counts, the          *)
(* production reporter and its report to core, and the demand page there.  *)
(*                                                                         *)
(* The poll of one reporting point is four steps between which the process *)
(* can die: insert the snapshot, advance last_count, add to the hourly     *)
(* count, add to the reporter. Other subscribers of the counter delta are  *)
(* in LineStock; every cat_id of a style is treated alike, so there is one.*)
(***************************************************************************)
EXTENDS Integers, Sequences

CONSTANTS
    Max16, Max32,      \* the largest values of the counters a PLC may use
    JumpThreshold,     \* cfg.Counter.JumpThreshold
    Bursts,            \* how many parts are made between two looks at the counter
    FirstTags,         \* where the counter stands when the point is set up
    Typed,             \* what an operator types as produced
    MaxMade,           \* bound on the parts made
    MaxReports,        \* bound on reports
    CountFaults,       \* the faults that happen in this instance
    MaxCountFaults     \* bound on faults

ASSUME CountAssumption ==
    /\ Max16 \in Nat /\ Max32 \in Nat /\ Max16 < Max32 /\ JumpThreshold \in Nat
    /\ Bursts \subseteq Nat \ {0} /\ FirstTags \subseteq 0..Max32 /\ Typed \subseteq Nat
    /\ MaxMade \in Nat /\ MaxReports \in Nat /\ MaxCountFaults \in Nat
    /\ CountFaults \subseteq {"plc_restart", "crash", "advance_fails",
                              "enqueue_fails", "repeat", "lose", "log_fails"}

VARIABLES
    machine,       \* parts made and left to make, the PLC's counter, its largest value
    point,         \* the reporting point's last_count, and whether it has a style
    poll,          \* the poll under way
    tally,         \* sums over the snapshots and the hourly counts
    jumps,         \* the jump snapshots: [delta, state]
    reporter,      \* what the accumulator holds, and what a flush took out of it
    reports,       \* production.report messages on their way
    core,          \* the report in core's hands, and the sum of its log
    demand,        \* produced_qty (-1: no row), as a form shows it, whether typed
    countFaults    \* faults that happened

countVars == <<machine, point, poll, tally, jumps, reporter, reports, core,
               demand, countFaults>>

CountFault(f) ==
    /\ f \in CountFaults /\ Len(countFaults) < MaxCountFaults
    /\ countFaults' = Append(countFaults, f)

Happened(f) == \E i \in DOMAIN countFaults : countFaults[i] = f

(***************************************************************************)
(* The machine.                                                            *)
(***************************************************************************)
Seen == IF poll.pc = "advance" THEN poll.new ELSE point.last

\* The parts the counter shows and the next poll will find.
Unread == (machine.tag - Seen) % (machine.max + 1)

\* No machine makes a full turn of its counter between two polls; at 32 bits not
\* even what leads from the 16-bit range past the end, which would be taken for
\* the rollover of a 16-bit counter.
MakeParts(k) ==
    /\ k <= machine.left /\ Unread + k <= machine.max
    /\ machine.max = Max32 /\ Seen <= Max16 => Seen + Unread + k <= Max32
    /\ machine' = [machine EXCEPT !.made = @ + k, !.left = @ - k,
                                  !.tag = (@ + k) % (machine.max + 1)]
    /\ UNCHANGED <<point, poll, tally, jumps, reporter, reports, core, demand, countFaults>>

RestartPLC ==
    /\ CountFault("plc_restart")
    /\ machine' = [machine EXCEPT !.tag = 0]
    /\ UNCHANGED <<point, poll, tally, jumps, reporter, reports, core, demand>>

(***************************************************************************)
(* The poll loop.                                                          *)
(***************************************************************************)
\* Deviation: the step from the largest value to zero is forgotten.
RolloversShort(last, new) ==
    {(max - last) + new : max \in {m \in {Max16, Max32} : last <= m}}
        \cap 1..JumpThreshold

\* Deviation: that step counts twice.
RolloversLong(last, new) ==
    {(max - last) + new + 2 : max \in {m \in {Max16, Max32} : last <= m}}
        \cap 1..JumpThreshold

\* The wraps that would explain a backward count by a plausible delta.
Rollovers(last, new) ==
    {(max - last) + new + 1 : max \in {m \in {Max16, Max32} : last <= m}}
        \cap 1..JumpThreshold

\* tryRollover tries the 16-bit wrap first.
TryRollover(last, new) ==
    CHOOSE d \in Rollovers(last, new) : \A e \in Rollovers(last, new) : d <= e

\* Deviation: a backward count is no reset.
CalculateDeltaSigned(last, new) ==
    [delta |-> IF new < last /\ Rollovers(last, new) # {}
               THEN TryRollover(last, new) ELSE new - last,
     anomaly |-> IF new - last > JumpThreshold THEN "jump" ELSE "none"]

CalculateDelta(last, new) ==
    IF new < last /\ Rollovers(last, new) # {}
    THEN [delta |-> TryRollover(last, new), anomaly |-> "none"]
    ELSE IF new < last THEN [delta |-> new, anomaly |-> "reset"]
    ELSE [delta |-> new - last,
          anomaly |-> IF new - last > JumpThreshold THEN "jump" ELSE "none"]

NoPoll == [pc |-> "idle", new |-> 0, delta |-> 0, anomaly |-> "none"]

\* A count that did not change leaves no trace.
PollReportingPoint ==
    /\ poll.pc = "idle" /\ machine.tag # point.last
    /\ LET d == CalculateDelta(point.last, machine.tag)
       IN  /\ poll' = [pc |-> "advance", new |-> machine.tag,
                       delta |-> d.delta, anomaly |-> d.anomaly]
           /\ IF d.anomaly = "jump"
              THEN /\ jumps' = Append(jumps, [delta |-> d.delta, state |-> "open"])
                   /\ UNCHANGED tally
              ELSE /\ tally' = IF d.anomaly = "reset"
                               THEN [tally EXCEPT !.reset = @ + d.delta, !.resets = TRUE]
                               ELSE [tally EXCEPT !.normal = @ + d.delta]
                   /\ UNCHANGED jumps
    /\ UNCHANGED <<machine, point, reporter, reports, core, demand, countFaults>>

\* A failed update is only logged: the next poll counts the same parts again.
UpdateReportingPointCounter ==
    /\ poll.pc = "advance"
    /\ \/ point' = [point EXCEPT !.last = poll.new] /\ UNCHANGED countFaults
       \/ CountFault("advance_fails") /\ UNCHANGED point
    /\ poll' = IF point.linked /\ poll.anomaly # "jump" /\ poll.delta > 0
               THEN [poll EXCEPT !.pc = "hourly"] ELSE NoPoll
    /\ UNCHANGED <<machine, tally, jumps, reporter, reports, core, demand>>

\* Deviation: counts after a reset too.
UpsertHourlyCountAll ==
    /\ poll.pc = "hourly"
    /\ tally' = [tally EXCEPT !.hourly = @ + poll.delta]
    /\ poll' = [poll EXCEPT !.pc = "record"]
    /\ UNCHANGED <<machine, point, jumps, reporter, reports, core, demand, countFaults>>

\* EmitCounterDelta, HourlyTracker.HandleDelta
UpsertHourlyCount ==
    /\ poll.pc = "hourly"
    /\ tally' = IF poll.anomaly = "reset" THEN tally
                ELSE [tally EXCEPT !.hourly = @ + poll.delta]
    /\ poll' = [poll EXCEPT !.pc = "record"]
    /\ UNCHANGED <<machine, point, jumps, reporter, reports, core, demand, countFaults>>

RecordDelta ==
    /\ poll.pc = "record"
    /\ reporter' = [reporter EXCEPT !.acc = @ + poll.delta]
    /\ poll' = NoPoll
    /\ UNCHANGED <<machine, point, tally, jumps, reports, core, demand, countFaults>>

\* ConfirmAnomaly sets a flag, DismissAnomaly deletes the row (the model keeps
\* it to tell); neither changes a count.
ReviewAnomaly ==
    /\ \E i \in DOMAIN jumps, verdict \in {"confirmed", "dismissed"} :
          /\ jumps[i].state = "open"
          /\ jumps' = [jumps EXCEPT ![i].state = verdict]
    /\ UNCHANGED <<machine, point, poll, tally, reporter, reports, core, demand, countFaults>>

(***************************************************************************)
(* The production reporter and its way to core.                            *)
(***************************************************************************)
FlushTakes ==
    /\ reporter.acc > 0 /\ reporter.taken = 0 /\ Len(reports) < MaxReports
    /\ reporter' = [acc |-> 0, taken |-> reporter.acc]
    /\ UNCHANGED <<machine, point, poll, tally, jumps, reports, core, demand, countFaults>>

\* A report that cannot be enqueued is gone.
FlushEnqueues ==
    /\ reporter.taken > 0
    /\ \/ reports' = Append(reports, reporter.taken) /\ UNCHANGED countFaults
       \/ CountFault("enqueue_fails") /\ UNCHANGED reports
    /\ reporter' = [reporter EXCEPT !.taken = 0]
    /\ UNCHANGED <<machine, point, poll, tally, jumps, core, demand>>

CrashEdge ==
    /\ CountFault("crash")
    /\ poll' = NoPoll
    /\ reporter' = [acc |-> 0, taken |-> 0]
    /\ UNCHANGED <<machine, point, tally, jumps, reports, core, demand>>

LoseReport ==
    /\ reports # << >> /\ CountFault("lose")
    /\ reports' = Tail(reports)
    /\ UNCHANGED <<machine, point, poll, tally, jumps, reporter, core, demand>>

\* Deviation: the report is not passed on to the log.
IncrementProducedOnly ==
    /\ reports # << >> /\ core.report = 0
    /\ demand' = IF demand.produced < 0 THEN demand
                 ELSE [demand EXCEPT !.produced = @ + Head(reports)]
    /\ reports' = Tail(reports)
    /\ UNCHANGED <<machine, point, poll, tally, jumps, reporter, core, countFaults>>

\* handleProductionReport, at the update of the demand; a report may come again.
IncrementProduced ==
    /\ reports # << >> /\ core.report = 0
    /\ demand' = IF demand.produced < 0 THEN demand
                 ELSE [demand EXCEPT !.produced = @ + Head(reports)]
    /\ core' = [core EXCEPT !.report = Head(reports)]
    /\ \/ reports' = Tail(reports) /\ UNCHANGED countFaults
       \/ CountFault("repeat") /\ UNCHANGED reports
    /\ UNCHANGED <<machine, point, poll, tally, jumps, reporter>>

LogProduction ==
    /\ core.report > 0
    /\ \/ core' = [report |-> 0, log |-> core.log + core.report] /\ UNCHANGED countFaults
       \/ CountFault("log_fails") /\ core' = [core EXCEPT !.report = 0]
    /\ UNCHANGED <<machine, point, poll, tally, jumps, reporter, reports, demand>>

(***************************************************************************)
(* The demand page of core.                                                *)
(***************************************************************************)
Demands(d) ==
    /\ demand' = d
    /\ UNCHANGED <<machine, point, poll, tally, jumps, reporter, reports, core, countFaults>>

CreateDemand == demand.produced < 0 /\ Demands([produced |-> 0, shown |-> -1, typed |-> FALSE])

DeleteDemand == Demands([produced |-> -1, shown |-> -1, typed |-> FALSE])

ListDemands == demand.produced >= 0 /\ Demands([demand EXCEPT !.shown = demand.produced])

\* The form sends back the produced_qty it was opened with.
UpdateDemand ==
    /\ demand.produced >= 0 /\ demand.shown >= 0
    /\ Demands([demand EXCEPT !.produced = demand.shown, !.shown = -1])

\* Clear, clear all, apply and apply all.
ClearProduced == demand.produced >= 0 /\ Demands([demand EXCEPT !.produced = 0])

SetProduced ==
    /\ demand.produced >= 0
    /\ \E n \in Typed : Demands([demand EXCEPT !.produced = n, !.typed = TRUE])

CountInit ==
    /\ \E max \in {Max16, Max32} : \E tag \in FirstTags \cap 0..max :
          machine = [made |-> tag, left |-> MaxMade, tag |-> tag, max |-> max]
    /\ point \in [last : {0}, linked : BOOLEAN]
    /\ poll = NoPoll
    /\ tally = [normal |-> 0, reset |-> 0, resets |-> FALSE, hourly |-> 0]
    /\ jumps = << >>
    /\ reporter = [acc |-> 0, taken |-> 0] /\ reports = << >>
    /\ core = [report |-> 0, log |-> 0]
    /\ demand = [produced |-> 0, shown |-> -1, typed |-> FALSE]
    /\ countFaults = << >>

CountNext ==
    \/ \E k \in Bursts : MakeParts(k)
    \/ RestartPLC \/ CrashEdge \/ LoseReport
    \/ PollReportingPoint \/ UpdateReportingPointCounter
    \/ UpsertHourlyCount \/ RecordDelta \/ ReviewAnomaly
    \/ FlushTakes \/ FlushEnqueues \/ IncrementProduced \/ LogProduction
    \/ CreateDemand \/ DeleteDemand \/ ListDemands \/ UpdateDemand
    \/ ClearProduced \/ SetProduced

CountSpec == CountInit /\ [][CountNext]_countVars

(***************************************************************************)
(* Properties.                                                             *)
(***************************************************************************)
\* Type: the counts are natural numbers, the counter stays in its range.
PartsTypeOK ==
    /\ machine.tag \in 0..machine.max /\ machine.left \in 0..MaxMade
    /\ point.last \in 0..Max32
    /\ poll.pc \in {"idle", "advance", "hourly", "record"} /\ poll.delta \in 0..Max32
    /\ tally.hourly \in Nat /\ reporter.acc \in Nat /\ reporter.taken \in Nat
    /\ core.report \in Nat /\ core.log \in Nat
    /\ demand.produced \in Nat \cup {-1}

\* The parts the poll loop is about to add to the hourly count.
InPoll == IF poll.pc \in {"advance", "hourly"} /\ poll.anomaly = "none" THEN poll.delta ELSE 0

SumOf(s) ==
    LET upTo[i \in 0..Len(s)] == IF i = 0 THEN 0 ELSE upTo[i - 1] + s[i]
    IN  upTo[Len(s)]

InJumps == SumOf([i \in DOMAIN jumps |-> jumps[i].delta])

\* Every part is counted once: it is in the hourly counts, on its way there,
\* still in the counter, or in a jump that awaits an operator - through every
\* rollover (counter.go:32), as long as no fault happens and no burst carries
\* the counter past its end by more than the jump threshold, which the poll
\* takes for a reset.
NoPartLost ==
    countFaults = << >> /\ point.linked /\ ~tally.resets =>
        machine.made = tally.hourly + InPoll + InJumps + Unread

\* A crash of the edge, or trouble on the way to core, can lose parts but never
\* invents any: only a PLC that restarts near a rollover and a last_count that
\* cannot be written do (manager.go:570).
NoPartInvented ==
    ~Happened("plc_restart") /\ ~Happened("advance_fails") =>
        tally.hourly <= machine.made - (IF poll.pc = "advance" THEN 0 ELSE Unread)

InReports == SumOf(reports)

\* The edge's hourly counts and core's production log are two tallies of the
\* same parts, by different routes: they differ by what is under way, and by
\* the counts after a reset, which only core adds up (hourly_tracker.go:39).
TalliesAgree ==
    countFaults = << >> /\ point.linked =>
        tally.hourly + tally.reset =
            reporter.acc + reporter.taken + InReports + core.report + core.log
              + (IF poll.pc = "record" THEN poll.delta ELSE 0)
              + (IF poll.pc \in {"advance", "hourly"} /\ poll.anomaly = "reset"
                 THEN poll.delta ELSE 0)

\* What the demand page shows as produced is backed by the log of what the edges
\* reported, unless an operator typed a number or the log could not be written:
\* repeated reports, reset counts, deleted demands and stale forms included.
ProducedIsLogged ==
    ~demand.typed /\ ~Happened("log_fails") => demand.produced <= core.log + core.report
=============================================================================
