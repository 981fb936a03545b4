---------------------------- MODULE ServiceProofs ----------------------------
(***************************************************************************)
(* What the services beside the orders keep, for every value of the        *)
(* constants: no part is invented and none is lost, the counts of edge and *)
(* of core tell the same parts, the changeover log tells the machine, the  *)
(* correction log tells the manifest, a reporting point has its tag, the   *)
(* node copy follows the moves, a scene synchronisation leaves the nodes   *)
(* of its scene, the debug ring shows the last entries; and that the run   *)
(* of all of them is a behaviour of each, within its ranges.               *)
(***************************************************************************)
EXTENDS MCServices, SequenceTheorems, FiniteSetTheorems, WellFoundedInduction, TLAPS

-----------------------------------------------------------------------------
(* Counting: types.                                                        *)

Machine == [made : Nat, left : 0..MaxMade, tag : Nat, max : {Max16, Max32}]
Tally == [normal : Nat, reset : Nat, resets : BOOLEAN, hourly : Nat]
Poll == [pc : {"idle", "advance", "hourly", "record"}, new : Nat, delta : 0..Max32,
         anomaly : {"none", "reset", "jump"}]
Backed == [produced : Nat \cup {-1}, shown : Nat \cup {-1}, typed : BOOLEAN]

CountTypes ==
    /\ machine \in Machine /\ machine.tag <= machine.max
    /\ point \in [last : Nat, linked : BOOLEAN] /\ point.last <= machine.max
    /\ poll \in Poll /\ poll.new <= machine.max
    /\ poll.pc = "hourly" => poll.anomaly # "jump"
    /\ tally \in Tally
    /\ reporter \in [acc : Nat, taken : Nat]
    /\ reports \in Seq(Nat)
    /\ core \in [report : Nat, log : Nat]
    /\ demand \in Backed
    /\ countFaults \in Seq(CountFaults)

\* A fault that happens is one more in the list of those that happened.
LEMMA FaultsGrow ==
    ASSUME NEW f, countFaults \in Seq(CountFaults), CountFault(f)
    PROVE  /\ countFaults' \in Seq(CountFaults)
           /\ Happened(f)'
           /\ \A g : Happened(g) => Happened(g)'
<1>1. f \in CountFaults /\ countFaults' = Append(countFaults, f)
  BY DEF CountFault
<1>2. /\ countFaults' \in Seq(CountFaults)
      /\ DOMAIN countFaults' = 1 .. Len(countFaults) + 1
      /\ countFaults'[Len(countFaults) + 1] = f
      /\ \A i \in 1..Len(countFaults) : countFaults'[i] = countFaults[i]
  BY <1>1, AppendProperties, LenProperties
<1>3. DOMAIN countFaults = 1..Len(countFaults) /\ Len(countFaults) \in Nat
  BY LenProperties
<1>4. QED
  BY <1>2, <1>3 DEF Happened

\* A wrap is found by the smaller of the two widths that explain it.
LEMMA RolloverFound ==
    ASSUME NEW last \in Nat, NEW new \in Nat, Rollovers(last, new) # {}
    PROVE  LET d == TryRollover(last, new) IN
           /\ d \in Rollovers(last, new)
           /\ \A e \in Rollovers(last, new) : d <= e
<1> DEFINE S == Rollovers(last, new)
<1>1. /\ S \subseteq {(Max16 - last) + new + 1, (Max32 - last) + new + 1}
      /\ S \subseteq Int
  BY CountAssumption DEF Rollovers
<1>2. \E d \in S : \A e \in S : d <= e
  BY <1>1, CountAssumption
<1>3. QED
  BY <1>2 DEF TryRollover

\* What a poll adds is no more than a counter holds.
LEMMA DeltaTyped ==
    ASSUME NEW max \in {Max16, Max32}, NEW last \in Nat, NEW new \in Nat,
           last <= max, new <= max
    PROVE  /\ CalculateDelta(last, new).delta \in 0..Max32
           /\ CalculateDelta(last, new).anomaly \in {"none", "reset", "jump"}
<1>1. CASE new < last /\ Rollovers(last, new) # {}
  <2>1. TryRollover(last, new) \in Rollovers(last, new)
    BY <1>1, RolloverFound
  <2>2. \A d \in Rollovers(last, new) : d \in 0..Max32
    BY <1>1, CountAssumption DEF Rollovers
  <2>3. QED
    BY <1>1, <2>1, <2>2 DEF CalculateDelta
<1>2. CASE ~(new < last /\ Rollovers(last, new) # {})
  BY <1>2, CountAssumption DEF CalculateDelta
<1>3. QED
  BY <1>1, <1>2

\* Making parts and restarting the PLC keep the machine in its type.
LEMMA MachineTyped ==
    ASSUME CountTypes, (\E k \in Bursts : MakeParts(k)) \/ RestartPLC
    PROVE  machine' \in Machine /\ machine'.tag <= machine'.max /\ machine'.max = machine.max
<1>1. /\ machine \in Machine /\ machine.max \in Nat /\ machine.tag \in Nat
      /\ machine.left \in 0..MaxMade /\ MaxMade \in Nat /\ machine.made \in Nat
  BY CountAssumption DEF CountTypes, Machine
<1>2. ASSUME NEW k \in Bursts, MakeParts(k)
      PROVE  machine' \in Machine /\ machine'.tag <= machine'.max /\ machine'.max = machine.max
  <2>1. k \in Nat /\ machine.left - k \in 0..MaxMade
    <3>1. k \in Nat
      BY CountAssumption
    <3>2. k <= machine.left
      BY <1>2, Zenon DEF MakeParts
    <3>3. QED
      BY <1>1, <3>1, <3>2
  <2>2. PICK tag \in 0..machine.max : tag = (machine.tag + k) % (machine.max + 1)
    BY <1>1, <2>1
  <2>3. PICK m1 : m1 = [machine EXCEPT !.made = @ + k]
    OBVIOUS
  <2>4. m1 \in Machine /\ m1.left = machine.left /\ m1.tag = machine.tag
        /\ m1.max = machine.max
    BY <1>1, <2>1, <2>3 DEF Machine
  <2>5. PICK m2 : m2 = [m1 EXCEPT !.left = machine.left - k]
    OBVIOUS
  <2>6. m2 \in Machine /\ m2.max = machine.max
    BY <2>1, <2>4, <2>5 DEF Machine
  <2>7. machine' = [m2 EXCEPT !.tag = tag]
    BY <1>2, <2>2, <2>3, <2>4, <2>5 DEF MakeParts
  <2>8. QED
    BY <1>1, <2>2, <2>6, <2>7 DEF Machine
<1>3. CASE RestartPLC
  BY <1>1, <1>3 DEF RestartPLC, Machine
<1>4. QED
  BY <1>2, <1>3

\* What a poll that found a change leaves.
LEMMA PollIs ==
    ASSUME CountTypes, PollReportingPoint
    PROVE  \E delta \in 0..Max32, anomaly \in {"none", "reset", "jump"} :
              /\ delta = CalculateDelta(point.last, machine.tag).delta
              /\ anomaly = CalculateDelta(point.last, machine.tag).anomaly
              /\ poll' = [pc |-> "advance", new |-> machine.tag, delta |-> delta,
                          anomaly |-> anomaly]
              /\ tally' \in Tally /\ tally'.hourly = tally.hourly
<1>1. PICK delta, anomaly : delta = CalculateDelta(point.last, machine.tag).delta
                            /\ anomaly = CalculateDelta(point.last, machine.tag).anomaly
  OBVIOUS
<1>2. delta \in 0..Max32 /\ delta \in Nat /\ anomaly \in {"none", "reset", "jump"}
  <2>1. /\ machine.max \in {Max16, Max32} /\ point.last \in Nat /\ machine.tag \in Nat
        /\ point.last <= machine.max /\ machine.tag <= machine.max
    BY DEF CountTypes, Machine
  <2>2. delta \in 0..Max32 /\ anomaly \in {"none", "reset", "jump"}
    BY <1>1, <2>1, DeltaTyped
  <2>3. QED
    BY <2>2, CountAssumption
<1>3. PICK t1 : t1 = [tally EXCEPT !.reset = @ + delta]
  OBVIOUS
<1>4. /\ poll' = [pc |-> "advance", new |-> machine.tag, delta |-> delta,
                  anomaly |-> anomaly]
      /\ \/ tally' = tally
         \/ tally' = [t1 EXCEPT !.resets = TRUE]
         \/ tally' = [tally EXCEPT !.normal = @ + delta]
  BY <1>1, <1>3 DEF PollReportingPoint
<1>5. tally \in Tally
  BY DEF CountTypes
<1>6. t1 \in Tally /\ t1.hourly = tally.hourly
  BY <1>2, <1>3, <1>5 DEF Tally
<1>7. tally' \in Tally /\ tally'.hourly = tally.hourly
  <2>1. CASE tally' = tally
    BY <1>5, <2>1
  <2>2. CASE tally' = [t1 EXCEPT !.resets = TRUE]
    BY <1>6, <2>2 DEF Tally
  <2>3. CASE tally' = [tally EXCEPT !.normal = @ + delta]
    BY <1>2, <1>5, <2>3 DEF Tally
  <2>4. QED
    BY <1>4, <2>1, <2>2, <2>3
<1>8. QED
  BY <1>1, <1>2, <1>4, <1>7

\* Every step of the demand page keeps the type of the demand.
LEMMA DemandTyped ==
    ASSUME CountTypes, CreateDemand \/ DeleteDemand \/ ListDemands \/ UpdateDemand
                       \/ ClearProduced \/ SetProduced
    PROVE  /\ demand' \in Backed
           /\ UNCHANGED <<machine, point, poll, tally, jumps, reporter, reports, core,
                          countFaults>>
<1>1. demand \in Backed
  BY DEF CountTypes
<1>2. CASE CreateDemand \/ DeleteDemand
  <2>1. PICK n \in Nat \cup {-1} : Demands([produced |-> n, shown |-> -1, typed |-> FALSE])
    BY <1>2 DEF CreateDemand, DeleteDemand
  <2>2. FALSE \in BOOLEAN /\ -1 \in Nat \cup {-1}
    OBVIOUS
  <2>3. [produced |-> n, shown |-> -1, typed |-> FALSE] \in Backed
    BY <2>2 DEF Backed
  <2>4. QED
    BY <2>1, <2>3 DEF Demands
<1>3. CASE ListDemands \/ ClearProduced
  BY <1>1, <1>3 DEF ListDemands, ClearProduced, Demands, Backed
<1>4. CASE UpdateDemand
  <2>1. PICK d : d = [demand EXCEPT !.produced = demand.shown]
    OBVIOUS
  <2>2. d \in Backed
    BY <1>1, <2>1 DEF Backed
  <2>3. demand' = [d EXCEPT !.shown = -1]
    BY <1>4, <2>1 DEF UpdateDemand, Demands
  <2>4. QED
    BY <1>4, <2>2, <2>3 DEF UpdateDemand, Demands, Backed
<1>5. CASE SetProduced
  <2>1. PICK n \in Typed : Demands([demand EXCEPT !.produced = n, !.typed = TRUE])
    BY <1>5 DEF SetProduced
  <2>2. PICK d : d = [demand EXCEPT !.produced = n]
    OBVIOUS
  <2>3. d \in Backed
    BY <1>1, <2>2, CountAssumption DEF Backed
  <2>4. demand' = [d EXCEPT !.typed = TRUE]
    BY <2>1, <2>2 DEF Demands
  <2>5. demand' \in Backed
    BY <2>3, <2>4 DEF Backed
  <2>6. QED
    BY <2>1, <2>5 DEF Demands
<1>6. QED
  BY <1>2, <1>3, <1>4, <1>5

\* Every step of the counting keeps the types.
LEMMA CountTypesStep ==
    ASSUME CountTypes, [CountNext]_countVars
    PROVE  CountTypes'
<1>1. CASE (\E k \in Bursts : MakeParts(k)) \/ RestartPLC
  <2>1. countFaults' \in Seq(CountFaults)
    BY <1>1, FaultsGrow DEF CountTypes, MakeParts, RestartPLC
  <2>2. UNCHANGED <<point, poll, tally, jumps, reporter, reports, core, demand>>
    BY <1>1 DEF MakeParts, RestartPLC
  <2>3. QED
    BY <1>1, <2>1, <2>2, MachineTyped DEF CountTypes
<1>2. CASE PollReportingPoint
  <2>1. UNCHANGED <<machine, point, reporter, reports, core, demand, countFaults>>
    BY <1>2 DEF PollReportingPoint
  <2>2. PICK delta \in 0..Max32, anomaly \in {"none", "reset", "jump"} :
           /\ poll' = [pc |-> "advance", new |-> machine.tag, delta |-> delta,
                       anomaly |-> anomaly]
           /\ tally' \in Tally
    BY <1>2, PollIs
  <2>3. machine.tag \in Nat /\ machine.tag <= machine.max
    BY DEF CountTypes, Machine
  <2>4. poll' \in Poll /\ poll'.new <= machine.max /\ poll'.pc = "advance"
    BY <2>2, <2>3 DEF Poll
  <2>5. QED
    BY <2>1, <2>2, <2>4 DEF CountTypes
<1>3. CASE UpdateReportingPointCounter
  <2>1. point' \in [last : Nat, linked : BOOLEAN] /\ point'.last <= machine.max
    <3>1. point' = point \/ point' = [point EXCEPT !.last = poll.new]
      BY <1>3 DEF UpdateReportingPointCounter
    <3>2. poll.new \in Nat /\ poll.new <= machine.max
      BY DEF CountTypes, Poll
    <3>3. QED
      BY <3>1, <3>2 DEF CountTypes
  <2>2. countFaults' \in Seq(CountFaults)
    BY <1>3, FaultsGrow DEF UpdateReportingPointCounter, CountTypes
  <2>3. /\ poll' \in Poll /\ poll'.new <= machine.max
        /\ poll'.pc = "hourly" => poll'.anomaly # "jump"
    <3>1. \/ poll' = [poll EXCEPT !.pc = "hourly"] /\ poll.anomaly # "jump"
          \/ poll' = NoPoll
      BY <1>3 DEF UpdateReportingPointCounter
    <3>2. machine.max \in Nat
      BY CountAssumption DEF CountTypes, Machine
    <3>3. QED
      BY <3>1, <3>2, CountAssumption DEF CountTypes, Poll, NoPoll
  <2>4. QED
    BY <1>3, <2>1, <2>2, <2>3 DEF UpdateReportingPointCounter, CountTypes
<1>4. CASE UpsertHourlyCount
  <2>1. tally' = tally \/ tally' = [tally EXCEPT !.hourly = @ + poll.delta]
    BY <1>4 DEF UpsertHourlyCount
  <2>2. poll \in Poll /\ poll.delta \in Nat /\ tally \in Tally
    BY CountAssumption DEF CountTypes, Poll
  <2>3. tally' \in Tally
    BY <2>1, <2>2 DEF Tally
  <2>4. poll' = [poll EXCEPT !.pc = "record"]
    BY <1>4 DEF UpsertHourlyCount
  <2>5. poll' \in Poll /\ poll'.pc = "record" /\ poll'.new = poll.new
    BY <2>2, <2>4 DEF Poll
  <2>6. QED
    BY <1>4, <2>3, <2>5 DEF UpsertHourlyCount, CountTypes
<1>5. CASE RecordDelta \/ CrashEdge
  <2>1. reporter' \in [acc : Nat, taken : Nat]
    BY <1>5, CountAssumption DEF RecordDelta, CrashEdge, CountTypes, Poll
  <2>2. countFaults' \in Seq(CountFaults)
    BY <1>5, FaultsGrow DEF RecordDelta, CrashEdge, CountTypes
  <2>3. poll' \in Poll /\ poll'.pc = "idle" /\ poll'.new <= machine.max
    <3>1. poll' = NoPoll
      BY <1>5 DEF RecordDelta, CrashEdge
    <3>2. machine.max \in Nat
      BY CountAssumption DEF CountTypes, Machine
    <3>3. NoPoll \in Poll /\ NoPoll.pc = "idle" /\ NoPoll.new = 0
      BY CountAssumption DEF NoPoll, Poll
    <3>4. QED
      BY <3>1, <3>2, <3>3
  <2>4. QED
    BY <1>5, <2>1, <2>2, <2>3 DEF RecordDelta, CrashEdge, CountTypes
<1>6. CASE ReviewAnomaly \/ UNCHANGED countVars
  BY <1>6 DEF ReviewAnomaly, countVars, CountTypes
<1>7. CASE FlushTakes
  BY <1>7 DEF FlushTakes, CountTypes
<1>8. CASE FlushEnqueues \/ LoseReport
  <2>1. PICK n \in Nat : n = reporter.taken
    BY DEF CountTypes
  <2>2. reports \in Seq(Nat)
    BY DEF CountTypes
  <2>3. \/ reports' = Append(reports, n) \/ reports' = reports
        \/ reports # << >> /\ reports' = Tail(reports)
    BY <1>8, <2>1 DEF FlushEnqueues, LoseReport
  <2>4. reports' \in Seq(Nat)
    <3>1. Append(reports, n) \in Seq(Nat)
      BY <2>1, <2>2, AppendProperties
    <3>2. reports # << >> => Tail(reports) \in Seq(Nat)
      BY <2>2, HeadTailProperties
    <3>3. QED
      BY <2>2, <2>3, <3>1, <3>2
  <2>5. countFaults' \in Seq(CountFaults)
    BY <1>8, FaultsGrow DEF FlushEnqueues, LoseReport, CountTypes
  <2>6. reporter' \in [acc : Nat, taken : Nat]
    BY <1>8 DEF FlushEnqueues, LoseReport, CountTypes
  <2>7. QED
    BY <1>8, <2>4, <2>5, <2>6 DEF FlushEnqueues, LoseReport, CountTypes
<1>9. CASE IncrementProduced
  <2>1. reports # << >> /\ reports \in Seq(Nat)
    BY <1>9 DEF IncrementProduced, CountTypes
  <2>2. PICK n \in Nat : n = Head(reports)
    BY <2>1, HeadTailProperties
  <2>3. reports' \in Seq(Nat)
    BY <1>9, <2>1, HeadTailProperties DEF IncrementProduced
  <2>4. countFaults' \in Seq(CountFaults)
    BY <1>9, FaultsGrow DEF IncrementProduced, CountTypes
  <2>5. /\ core' = [core EXCEPT !.report = n]
        /\ demand' = demand
           \/ (~(demand.produced < 0) /\ demand' = [demand EXCEPT !.produced = @ + n])
        /\ UNCHANGED <<machine, point, poll, tally, jumps, reporter>>
    BY <1>9, <2>2 DEF IncrementProduced
  <2>6. demand' \in Backed
    <3>1. demand \in Backed
      BY DEF CountTypes
    <3>2. demand.produced \in Nat \cup {-1}
      BY <3>1 DEF Backed
    <3>3. ~(demand.produced < 0) => demand.produced + n \in Nat
      BY <2>2, <3>2
    <3>4. QED
      BY <2>5, <3>1, <3>3 DEF Backed
  <2>7. core' \in [report : Nat, log : Nat]
    BY <2>2, <2>5 DEF CountTypes
  <2>8. QED
    BY <2>3, <2>4, <2>5, <2>6, <2>7 DEF CountTypes
<1>10. CASE LogProduction
  <2>1. core' \in [report : Nat, log : Nat]
    BY <1>10 DEF LogProduction, CountTypes
  <2>2. countFaults' \in Seq(CountFaults)
    BY <1>10, FaultsGrow DEF LogProduction, CountTypes
  <2>3. QED
    BY <1>10, <2>1, <2>2 DEF LogProduction, CountTypes
<1>11. CASE CreateDemand \/ DeleteDemand \/ ListDemands \/ UpdateDemand \/ ClearProduced
            \/ SetProduced
  BY <1>11, DemandTyped DEF CountTypes
<1>12. QED
  BY <1>1, <1>2, <1>3, <1>4, <1>5, <1>6, <1>7, <1>8, <1>9, <1>10, <1>11 DEF CountNext

\* The counting starts within the types.
LEMMA CountTypesInit ==
    ASSUME CountInit
    PROVE  CountTypes
<1>1. machine \in Machine /\ machine.tag <= machine.max /\ machine.max \in Nat
  BY CountAssumption DEF CountInit, Machine
<1>2. point \in [last : Nat, linked : BOOLEAN] /\ point.last = 0
  BY DEF CountInit
<1>3. poll \in Poll /\ poll.new = 0 /\ poll.pc = "idle"
  BY CountAssumption DEF CountInit, NoPoll, Poll
<1>4. tally \in Tally /\ demand \in Backed
  BY DEF CountInit, Tally, Backed
<1>5. QED
  BY <1>1, <1>2, <1>3, <1>4 DEF CountInit, CountTypes

-----------------------------------------------------------------------------
(* Counting: what the demand page shows.                                   *)

\* What a form shows was produced at some time.
Logged ==
    ~demand.typed /\ ~Happened("log_fails") =>
        /\ demand.produced <= core.log + core.report
        /\ demand.shown <= core.log + core.report

LoggedInv == CountTypes /\ Logged

\* What happened has happened.
LEMMA HappenedStays ==
    ASSUME CountTypes, [CountNext]_countVars
    PROVE  \A g : Happened(g) => Happened(g)'
<1>1. UNCHANGED countFaults \/ \E f : CountFault(f)
  BY DEF CountNext, countVars, MakeParts, RestartPLC, PollReportingPoint,
         UpdateReportingPointCounter, UpsertHourlyCount, RecordDelta, ReviewAnomaly,
         FlushTakes, FlushEnqueues, CrashEdge, LoseReport, IncrementProduced,
         LogProduction, CreateDemand, DeleteDemand, ListDemands, UpdateDemand,
         ClearProduced, SetProduced, Demands
<1>2. CASE UNCHANGED countFaults
  BY <1>2 DEF Happened
<1>3. QED
  BY <1>1, <1>2, FaultsGrow DEF CountTypes

\* No step of the machine, the poll or the reporter brings the log behind.
LEMMA LoggedStep ==
    ASSUME LoggedInv, [CountNext]_countVars
    PROVE  LoggedInv'
<1>1. CountTypes /\ CountTypes'
  BY CountTypesStep DEF LoggedInv
<1>2. Logged /\ demand \in Backed /\ core \in [report : Nat, log : Nat]
  BY DEF LoggedInv, CountTypes
<1>3. \A g : Happened(g) => Happened(g)'
  BY <1>1, HappenedStays
<1>4. CASE UNCHANGED <<demand, core>>
  BY <1>1, <1>2, <1>3, <1>4 DEF Logged, LoggedInv
<1>5. CASE IncrementProduced
  <2>1. reports \in Seq(Nat) /\ reports # << >>
    BY <1>1, <1>5 DEF CountTypes, IncrementProduced
  <2>2. PICK n \in Nat : n = Head(reports)
    BY <2>1, HeadTailProperties
  <2>3. /\ core.report = 0 /\ core' = [core EXCEPT !.report = n]
        /\ \/ demand' = demand
           \/ demand' = [demand EXCEPT !.produced = @ + n]
    BY <1>5, <2>2 DEF IncrementProduced
  <2>4. core'.log = core.log /\ core'.report = n
    BY <1>2, <2>3
  <2>5. /\ demand'.typed = demand.typed /\ demand'.shown = demand.shown
        /\ demand'.produced = demand.produced \/ demand'.produced = demand.produced + n
    BY <1>2, <2>3 DEF Backed
  <2>6. demand.produced \in Int /\ demand.shown \in Int /\ core.log \in Nat
    BY <1>2 DEF Backed
  <2>7. Logged'
    BY <1>2, <1>3, <2>2, <2>3, <2>4, <2>5, <2>6 DEF Logged
  <2>8. QED
    BY <1>1, <2>7 DEF LoggedInv
<1>6. CASE LogProduction
  <2>1. UNCHANGED demand /\ demand.produced \in Int /\ demand.shown \in Int
    BY <1>2, <1>6 DEF LogProduction, Backed
  <2>2. \/ core' = [report |-> 0, log |-> core.log + core.report]
        \/ CountFault("log_fails")
    BY <1>6 DEF LogProduction
  <2>3. CASE CountFault("log_fails")
    BY <1>1, <2>3, FaultsGrow DEF CountTypes, Logged, LoggedInv
  <2>4. CASE core' = [report |-> 0, log |-> core.log + core.report]
    BY <1>1, <1>2, <1>3, <2>1, <2>4 DEF Logged, LoggedInv
  <2>5. QED
    BY <2>2, <2>3, <2>4
<1>7. CASE CreateDemand \/ DeleteDemand \/ ListDemands \/ UpdateDemand \/ ClearProduced
           \/ SetProduced
  <2>1. UNCHANGED core /\ core.log \in Nat /\ core.report \in Nat
    BY <1>1, <1>2, <1>7, DemandTyped
  <2>2. demand.produced \in Int /\ demand.shown \in Int
    BY <1>2 DEF Backed
  <2>3. ~demand'.typed =>
           /\ demand'.produced \in {0, -1, demand.produced, demand.shown}
           /\ demand'.shown \in {-1, demand.produced, demand.shown}
           /\ ~demand.typed \/ (demand'.produced \in {0, -1} /\ demand'.shown = -1)
    <3>1. CASE CreateDemand \/ DeleteDemand
      BY <3>1 DEF CreateDemand, DeleteDemand, Demands
    <3>2. CASE ListDemands \/ ClearProduced
      BY <1>2, <3>2 DEF ListDemands, ClearProduced, Demands, Backed
    <3>3. CASE UpdateDemand
      <4>1. PICK d : d = [demand EXCEPT !.produced = demand.shown]
        OBVIOUS
      <4>2. d \in Backed /\ d.typed = demand.typed /\ d.produced = demand.shown
        BY <1>2, <3>3, <4>1 DEF UpdateDemand, Backed
      <4>3. demand' = [d EXCEPT !.shown = -1]
        BY <3>3, <4>1 DEF UpdateDemand, Demands
      <4>4. QED
        BY <4>2, <4>3 DEF Backed
    <3>4. CASE SetProduced
      <4>1. PICK n : Demands([demand EXCEPT !.produced = n, !.typed = TRUE])
        BY <3>4 DEF SetProduced
      <4>2. PICK d : d = [demand EXCEPT !.produced = n]
        OBVIOUS
      <4>3. DOMAIN d = {"produced", "shown", "typed"}
        BY <1>2, <4>2 DEF Backed
      <4>4. demand' = [d EXCEPT !.typed = TRUE]
        BY <4>1, <4>2 DEF Demands
      <4>5. demand'.typed
        BY <4>3, <4>4
      <4>6. QED
        BY <4>5
    <3>5. QED
      BY <1>7, <3>1, <3>2, <3>3, <3>4
  <2>4. Logged'
    BY <1>2, <1>3, <2>1, <2>2, <2>3 DEF Logged
  <2>5. QED
    BY <1>1, <2>4 DEF LoggedInv
<1>8. UNCHANGED <<demand, core>> \/ IncrementProduced \/ LogProduction
      \/ CreateDemand \/ DeleteDemand \/ ListDemands \/ UpdateDemand \/ ClearProduced
      \/ SetProduced
  BY DEF CountNext, countVars, MakeParts, RestartPLC, PollReportingPoint,
         UpdateReportingPointCounter, UpsertHourlyCount, RecordDelta, ReviewAnomaly,
         FlushTakes, FlushEnqueues, CrashEdge, LoseReport
<1>9. QED
  BY <1>4, <1>5, <1>6, <1>7, <1>8

\* What the demand page shows as produced is in core's log or about to be,
\* unless an operator typed it or the log failed.
THEOREM ProducedLogged == CountSpec => []ProducedIsLogged
<1>1. CountInit => LoggedInv
  <2> SUFFICES ASSUME CountInit PROVE LoggedInv
    OBVIOUS
  <2>1. demand.produced = 0 /\ demand.shown = -1 /\ core.log = 0 /\ core.report = 0
    BY DEF CountInit
  <2>2. QED
    BY <2>1, CountTypesInit DEF LoggedInv, Logged
<1>2. LoggedInv /\ [CountNext]_countVars => LoggedInv'
  BY LoggedStep
<1>3. LoggedInv => ProducedIsLogged
  BY DEF LoggedInv, Logged, ProducedIsLogged
<1>4. QED
  BY <1>1, <1>2, <1>3, PTL DEF CountSpec

-----------------------------------------------------------------------------
(* Counting: nothing is invented.                                          *)

Passed(from) == (machine.tag - from) % (machine.max + 1)

\* Every part in the hourly count, or on its way there, was made, and the
\* parts that the next poll will find are not among them - from where this
\* poll stands, and from last_count, where the next one stands after a crash.
Counted ==
    ~Happened("plc_restart") /\ ~Happened("advance_fails") =>
        /\ tally.hourly + InPoll + Unread <= machine.made
        /\ tally.hourly + Passed(point.last) <= machine.made

CountedInv == CountTypes /\ Counted

\* Parts made move the counter by as many at most, seen from anywhere.
LEMMA Turned ==
    ASSUME NEW max \in Nat, NEW tag \in 0..max, NEW from \in 0..max, NEW k \in 0..max
    PROVE  LET new == (tag + k) % (max + 1) IN
           /\ new \in 0..max
           /\ ((new - from) % (max + 1)) <= ((tag - from) % (max + 1)) + k
<1>1. PICK new \in 0..max : new = (tag + k) % (max + 1)
  OBVIOUS
<1>2. new = tag + k \/ (new = tag + k - (max + 1) /\ tag + k > max)
  BY <1>1
<1>3. \/ tag >= from /\ (tag - from) % (max + 1) = tag - from
      \/ tag < from /\ (tag - from) % (max + 1) = tag - from + (max + 1)
  OBVIOUS
<1>4. \/ new >= from /\ (new - from) % (max + 1) = new - from
      \/ new < from /\ (new - from) % (max + 1) = new - from + (max + 1)
  OBVIOUS
<1>5. QED
  BY <1>1, <1>2, <1>3, <1>4

\* A delta without an anomaly was made: the wrap that calculateDelta chooses is
\* never longer than the counter's own.
LEMMA DeltaMade ==
    ASSUME NEW max \in {Max16, Max32}, NEW last \in 0..max, NEW new \in 0..max,
           CalculateDelta(last, new).anomaly = "none"
    PROVE  CalculateDelta(last, new).delta <= (new - last) % (max + 1)
<1>1. max \in Nat /\ Max16 \in Nat /\ Max32 \in Nat /\ Max16 < Max32 /\ JumpThreshold \in Nat
  BY CountAssumption
<1>2. CASE new < last /\ Rollovers(last, new) # {}
  <2>1. PICK d : d = TryRollover(last, new)
    OBVIOUS
  <2>2. d \in Rollovers(last, new) /\ \A e \in Rollovers(last, new) : d <= e
    BY <1>1, <1>2, <2>1, RolloverFound
  <2>3. CalculateDelta(last, new).delta = d
    BY <1>2, <2>1 DEF CalculateDelta
  <2>4. (new - last) % (max + 1) = (max - last) + new + 1
    BY <1>1, <1>2
  <2>5. d <= (max - last) + new + 1
    <3>1. CASE (max - last) + new + 1 <= JumpThreshold
      <4>1. (max - last) + new + 1 \in Rollovers(last, new)
        BY <1>1, <3>1 DEF Rollovers
      <4>2. QED
        BY <2>2, <4>1
    <3>2. CASE (max - last) + new + 1 > JumpThreshold
      BY <1>1, <2>2, <3>2 DEF Rollovers
    <3>3. QED
      BY <1>1, <3>1, <3>2
  <2>6. QED
    BY <2>3, <2>4, <2>5
<1>3. CASE ~(new < last /\ Rollovers(last, new) # {})
  <2>1. new >= last /\ CalculateDelta(last, new).delta = new - last
    BY <1>1, <1>3 DEF CalculateDelta
  <2>2. (new - last) % (max + 1) = new - last
    BY <1>1, <2>1
  <2>3. QED
    BY <1>1, <2>1, <2>2
<1>4. QED
  BY <1>2, <1>3

\* What the proof needs of a state.
LEMMA CountNumbers ==
    ASSUME CountTypes
    PROVE  /\ machine.max \in {Max16, Max32} /\ machine.max \in Nat
           /\ machine.tag \in 0..machine.max
           /\ point.last \in 0..machine.max /\ poll.new \in 0..machine.max
           /\ tally.hourly \in Nat /\ machine.made \in Nat
           /\ Unread \in 0..machine.max /\ Passed(point.last) \in 0..machine.max
           /\ InPoll \in Nat /\ poll.delta \in Nat
           /\ Unread = IF poll.pc = "advance" THEN Passed(poll.new)
                       ELSE Passed(point.last)
<1>1. machine.max \in {Max16, Max32} /\ machine.max \in Nat /\ machine.tag \in 0..machine.max
      /\ machine.made \in Nat
  BY CountAssumption DEF CountTypes, Machine
<1>2. point.last \in 0..machine.max
  BY <1>1 DEF CountTypes
<1>3. poll.new \in 0..machine.max /\ poll.delta \in Nat
  BY <1>1, CountAssumption DEF CountTypes, Poll
<1>4. tally.hourly \in Nat
  BY DEF CountTypes, Tally
<1>5. Unread = IF poll.pc = "advance" THEN Passed(poll.new) ELSE Passed(point.last)
  BY DEF Unread, Seen, Passed
<1>6. Passed(poll.new) \in 0..machine.max /\ Passed(point.last) \in 0..machine.max
  <2>1. PICK max \in Nat, tag \in Int, last \in Int, new \in Int :
           max = machine.max /\ tag = machine.tag /\ last = point.last /\ new = poll.new
    BY <1>1, <1>2, <1>3
  <2>2. (tag - new) % (max + 1) \in 0..max /\ (tag - last) % (max + 1) \in 0..max
    OBVIOUS
  <2>3. QED
    BY <2>1, <2>2 DEF Passed
<1>7. QED
  BY <1>1, <1>2, <1>3, <1>4, <1>5, <1>6 DEF InPoll

Natural == Unread \in Nat /\ Passed(point.last) \in Nat

\* What is unread is a number, from last_count as from the poll under way.
LEMMA CountRange == CountTypes => Natural
BY CountNumbers DEF Natural

\* Every step keeps the count below what was made: making, polling, advancing
\* last_count, recording and the faults are the steps that can disturb it.
LEMMA CountedStep ==
    ASSUME CountedInv, [CountNext]_countVars
    PROVE  CountedInv'
<1>1. CountTypes /\ CountTypes' /\ Counted
  BY CountTypesStep DEF CountedInv
<1>2. \A g : Happened(g) => Happened(g)'
  BY <1>1, HappenedStays
<1>3. SUFFICES ASSUME ~Happened("plc_restart")', ~Happened("advance_fails")'
               PROVE  /\ tally'.hourly + InPoll' + Unread' <= machine'.made
                      /\ tally'.hourly + Passed(point.last)' <= machine'.made
  BY <1>1 DEF CountedInv, Counted
<1>4. /\ tally.hourly + InPoll + Unread <= machine.made
      /\ tally.hourly + Passed(point.last) <= machine.made
  BY <1>1, <1>2, <1>3 DEF Counted
<1>5. CASE UNCHANGED <<machine, point, poll, tally>>
  BY <1>4, <1>5 DEF InPoll, Unread, Seen, Passed
<1>6. ASSUME NEW k \in Bursts, MakeParts(k)
      PROVE  /\ tally'.hourly + InPoll' + Unread' <= machine'.made
             /\ tally'.hourly + Passed(point.last)' <= machine'.made
  <2>1. k \in Nat /\ Unread + k <= machine.max /\ UNCHANGED <<point, poll, tally>>
    BY <1>6, CountAssumption DEF MakeParts
  <2>2. /\ machine'.made = machine.made + k /\ machine'.max = machine.max
        /\ machine'.tag = (machine.tag + k) % (machine.max + 1)
    BY <1>1, <1>6 DEF MakeParts, CountTypes, Machine
  <2>3. \A from \in 0..machine.max : Passed(from)' <= Passed(from) + k
    <3> SUFFICES ASSUME NEW from \in 0..machine.max PROVE Passed(from)' <= Passed(from) + k
      OBVIOUS
    <3>1. PICK max, tag : max = machine.max /\ tag = machine.tag
      OBVIOUS
    <3>2. max \in Nat /\ tag \in 0..max /\ from \in 0..max
      BY <1>1, <3>1, CountNumbers
    <3>3. k \in 0..max
      BY <1>1, <2>1, <3>1, CountNumbers
    <3>4. PICK new : new = (tag + k) % (max + 1)
      OBVIOUS
    <3>5. ((new - from) % (max + 1)) <= ((tag - from) % (max + 1)) + k
      BY <3>2, <3>3, <3>4, Turned
    <3>6. machine'.max = max /\ machine'.tag = new
      BY <2>2, <3>1, <3>4
    <3>7. QED
      BY <3>1, <3>5, <3>6 DEF Passed
  <2>4. Passed(point.last)' <= Passed(point.last) + k
    BY <1>1, <2>1, <2>3, CountNumbers DEF Passed
  <2>5. Unread' <= Unread + k
    BY <1>1, <2>1, <2>3, CountNumbers DEF Passed, Unread, Seen
  <2>6. InPoll' = InPoll
    BY <2>1 DEF InPoll
  <2>7. Unread' \in Nat /\ Passed(point.last)' \in Nat
    <3>1. Natural'
      BY <1>1, CountRange, PTL
    <3>2. QED
      BY <3>1 DEF Natural
  <2>8. QED
    BY <1>1, <1>4, <2>1, <2>2, <2>4, <2>5, <2>6, <2>7, CountNumbers
<1>7. CASE RestartPLC
  BY <1>1, <1>3, <1>7, FaultsGrow DEF RestartPLC, CountTypes
<1>8. CASE PollReportingPoint
  <2>1. poll.pc = "idle" /\ UNCHANGED <<machine, point>>
    BY <1>8 DEF PollReportingPoint
  <2>2. PICK delta \in 0..Max32, anomaly \in {"none", "reset", "jump"} :
           /\ delta = CalculateDelta(point.last, machine.tag).delta
           /\ anomaly = CalculateDelta(point.last, machine.tag).anomaly
           /\ poll' = [pc |-> "advance", new |-> machine.tag, delta |-> delta,
                       anomaly |-> anomaly]
           /\ tally'.hourly = tally.hourly
    BY <1>1, <1>8, PollIs
  <2>3. anomaly = "none" => delta <= Passed(point.last)
    BY <1>1, <2>2, CountNumbers, DeltaMade DEF Passed
  <2>4. Unread' = 0
    <3>1. Unread' = (machine.tag - machine.tag) % (machine.max + 1)
      BY <2>1, <2>2 DEF Unread, Seen
    <3>2. QED
      BY <1>1, <3>1, CountNumbers
  <2>5. InPoll' = IF anomaly = "none" THEN delta ELSE 0
    BY <2>2 DEF InPoll
  <2>6. Passed(point.last)' = Passed(point.last)
    BY <2>1 DEF Passed
  <2>7. QED
    BY <1>1, <1>4, <2>1, <2>2, <2>3, <2>4, <2>5, <2>6, CountNumbers, CountAssumption
<1>9. CASE UpdateReportingPointCounter
  <2>1. ~CountFault("advance_fails")
    BY <1>1, <1>3, FaultsGrow DEF CountTypes
  <2>2. poll.pc = "advance" /\ point' = [point EXCEPT !.last = poll.new]
        /\ UNCHANGED <<machine, tally>>
    BY <1>9, <2>1 DEF UpdateReportingPointCounter
  <2>3. point'.last = poll.new
    BY <1>1, <2>2 DEF CountTypes
  <2>4. \/ poll' = [poll EXCEPT !.pc = "hourly"] \/ poll' = NoPoll
    BY <1>9 DEF UpdateReportingPointCounter
  <2>5. /\ poll'.pc \in {"hourly", "idle"}
        /\ InPoll' \in {0, InPoll}
    <3>1. CASE poll' = [poll EXCEPT !.pc = "hourly"]
      <4>1. poll'.pc = "hourly" /\ poll'.anomaly = poll.anomaly /\ poll'.delta = poll.delta
        BY <1>1, <3>1 DEF CountTypes, Poll
      <4>2. QED
        BY <2>2, <4>1 DEF InPoll
    <3>2. CASE poll' = NoPoll
      BY <3>2 DEF NoPoll, InPoll
    <3>3. QED
      BY <2>4, <3>1, <3>2
  <2>6. Passed(point.last)' = Passed(poll.new) /\ Unread' = Passed(poll.new)
    BY <2>2, <2>3, <2>5 DEF Passed, Unread, Seen
  <2>7. QED
    BY <1>1, <1>4, <2>2, <2>5, <2>6, CountNumbers
<1>10. CASE UpsertHourlyCount
  <2>1. /\ poll.pc = "hourly" /\ poll.anomaly # "jump" /\ UNCHANGED <<machine, point>>
        /\ poll.anomaly \in {"none", "reset", "jump"}
    BY <1>1, <1>10 DEF UpsertHourlyCount, CountTypes, Poll
  <2>2. tally' = IF poll.anomaly = "reset" THEN tally
                 ELSE [tally EXCEPT !.hourly = @ + poll.delta]
    BY <1>10 DEF UpsertHourlyCount
  <2>3. tally'.hourly = tally.hourly + InPoll
    <3>1. tally \in Tally /\ tally.hourly \in Nat
      BY <1>1, CountNumbers DEF CountTypes
    <3>2. CASE poll.anomaly = "reset"
      BY <2>1, <2>2, <3>1, <3>2 DEF InPoll
    <3>3. CASE poll.anomaly # "reset"
      <4>1. tally' = [tally EXCEPT !.hourly = @ + poll.delta]
        BY <2>2, <3>3
      <4>2. tally'.hourly = tally.hourly + poll.delta
        BY <3>1, <4>1 DEF Tally
      <4>3. InPoll = poll.delta
        BY <2>1, <3>3 DEF InPoll
      <4>4. QED
        BY <4>2, <4>3
    <3>4. QED
      BY <3>2, <3>3
  <2>4. poll'.pc = "record"
    BY <1>1, <1>10 DEF UpsertHourlyCount, CountTypes, Poll
  <2>5. InPoll' = 0 /\ Unread' = Unread /\ Passed(point.last)' = Passed(point.last)
    BY <2>1, <2>4 DEF InPoll, Unread, Seen, Passed
  <2>6. Unread = Passed(point.last)
    BY <1>1, <2>1, CountNumbers
  <2>7. QED
    BY <1>1, <1>4, <2>1, <2>3, <2>5, <2>6, CountNumbers
<1>11. CASE RecordDelta \/ CrashEdge
  <2>1. poll' = NoPoll /\ UNCHANGED <<machine, point, tally>>
    BY <1>11 DEF RecordDelta, CrashEdge
  <2>2. InPoll' = 0 /\ Unread' = Passed(point.last) /\ Passed(point.last)' = Passed(point.last)
    BY <2>1 DEF NoPoll, InPoll, Unread, Seen, Passed
  <2>3. QED
    BY <1>1, <1>4, <2>1, <2>2, CountNumbers
<1>12. UNCHANGED <<machine, point, poll, tally>> \/ (\E k \in Bursts : MakeParts(k))
       \/ RestartPLC \/ PollReportingPoint \/ UpdateReportingPointCounter
       \/ UpsertHourlyCount \/ RecordDelta \/ CrashEdge
  BY DEF CountNext, countVars, ReviewAnomaly, FlushTakes, FlushEnqueues, LoseReport,
         IncrementProduced, LogProduction, CreateDemand, DeleteDemand, ListDemands,
         UpdateDemand, ClearProduced, SetProduced, Demands
<1>13. QED
  BY <1>5, <1>6, <1>7, <1>8, <1>9, <1>10, <1>11, <1>12

\* A crash or trouble on the way never makes the hourly count exceed the parts
\* that were made and read.
THEOREM NothingInvented == CountSpec => []NoPartInvented
<1>1. CountInit => CountedInv
  <2> SUFFICES ASSUME CountInit PROVE CountedInv
    OBVIOUS
  <2>1. CountTypes
    BY CountTypesInit
  <2>2. /\ machine.made = machine.tag /\ point.last = 0 /\ tally.hourly = 0
        /\ poll.pc = "idle" /\ InPoll = 0
    BY DEF CountInit, NoPoll, InPoll
  <2>3. Passed(point.last) = machine.tag
    BY <2>1, <2>2, CountNumbers DEF Passed
  <2>4. QED
    BY <2>1, <2>2, <2>3, CountNumbers DEF CountedInv, Counted
<1>2. CountedInv /\ [CountNext]_countVars => CountedInv'
  BY CountedStep
<1>3. CountedInv => NoPartInvented
  BY CountNumbers DEF CountedInv, Counted, NoPartInvented
<1>4. QED
  BY <1>1, <1>2, <1>3, PTL DEF CountSpec

-----------------------------------------------------------------------------
(* Sums over sequences: by the least length at which they go wrong.        *)

\* A set of numbers that is not empty has a least one.
LEMMA LeastNumber ==
    ASSUME NEW S, S \subseteq Nat, S # {}
    PROVE  \E m \in S : \A k \in S : m <= k
<1> DEFINE R == OpToRel(<, Nat)
<1>1. IsWellFoundedOn(R, Nat)
  BY NatLessThanWellFounded
<1>2. \A x \in Nat, y \in Nat : x < y => <<x, y>> \in R
  BY DEF OpToRel
<1> HIDE DEF R
<1>3. PICK m \in S : \A k \in S : ~(<<k, m>> \in R)
  BY <1>1, WFMin
<1>4. \A k \in S : m <= k
  <2> SUFFICES ASSUME NEW k \in S PROVE m <= k
    OBVIOUS
  <2>1. k \in Nat /\ m \in Nat
    OBVIOUS
  <2>2. ~(k < m)
    BY <1>2, <1>3, <2>1, Zenon
  <2>3. QED
    BY <2>1, <2>2
<1>5. QED
  BY <1>4

\* The sums of the first elements of s.
Sums(g, s, n) ==
    /\ g \in [0..n -> Nat] /\ g[0] = 0
    /\ \A i \in 1..n : g[i] = g[i - 1] + s[i]

\* They exist, as far as the sequence goes.
LEMMA SumsExist ==
    ASSUME NEW s \in Seq(Nat)
    PROVE  \E g : Sums(g, s, Len(s))
<1> DEFINE Bad == {n \in 0..Len(s) : ~\E g : Sums(g, s, n)}
<1>1. Len(s) \in Nat /\ s \in [1..Len(s) -> Nat]
  BY LenProperties
<1>2. SUFFICES ASSUME Bad # {} PROVE FALSE
  BY <1>1
<1>3. PICK n \in Bad : \A k \in Bad : n <= k
  <2>1. Bad \subseteq Nat
    BY <1>1
  <2> HIDE DEF Bad
  <2>2. QED
    BY <1>2, <2>1, LeastNumber
<1>4. n \in Nat /\ n <= Len(s) /\ ~\E g : Sums(g, s, n)
  BY <1>1
<1>5. n # 0
  <2>1. Sums([i \in 0..0 |-> 0], s, 0)
    BY DEF Sums
  <2>2. QED
    BY <1>4, <2>1
<1>6. PICK g : Sums(g, s, n - 1)
  <2>1. n - 1 \in 0..Len(s) /\ n - 1 \notin Bad
    <3>1. n - 1 \in Nat /\ ~(n <= n - 1)
      BY <1>4, <1>5
    <3> HIDE DEF Bad
    <3>2. n - 1 \notin Bad
      BY <1>3, <3>1
    <3>3. QED
      BY <1>1, <1>4, <3>1, <3>2
  <2>2. QED
    BY <2>1
<1> HIDE DEF Bad
<1> DEFINE h == [i \in 0..n |-> IF i = n THEN g[n - 1] + s[n] ELSE g[i]]
<1>7. Sums(h, s, n)
  <2>1. g \in [0..(n - 1) -> Nat] /\ g[0] = 0 /\ \A i \in 1..(n - 1) : g[i] = g[i - 1] + s[i]
    BY <1>6 DEF Sums
  <2>2. s[n] \in Nat /\ g[n - 1] \in Nat
    BY <1>1, <1>4, <1>5, <2>1
  <2>3. h \in [0..n -> Nat]
    BY <1>4, <1>5, <2>1, <2>2
  <2>4. h[0] = 0
    BY <1>4, <1>5, <2>1
  <2>5. ASSUME NEW i \in 1..n PROVE h[i] = h[i - 1] + s[i]
    <3>1. i - 1 \in 0..(n - 1) /\ h[i - 1] = g[i - 1]
      BY <1>4
    <3>2. CASE i = n
      BY <1>4, <3>1, <3>2
    <3>3. CASE i # n
      <4>1. i \in 1..(n - 1) /\ h[i] = g[i]
        BY <1>4, <3>3
      <4>2. QED
        BY <2>1, <3>1, <4>1
    <3>4. QED
      BY <3>2, <3>3
  <2> HIDE DEF h
  <2>6. QED
    BY <2>3, <2>4, <2>5 DEF Sums
<1>8. QED
  BY <1>4, <1>7

\* SumOf is the last of them.
LEMMA SumIs ==
    ASSUME NEW s \in Seq(Nat)
    PROVE  \E g : Sums(g, s, Len(s)) /\ SumOf(s) = g[Len(s)]
<1> DEFINE N == Len(s)
           F(u) == [i \in 0..N |-> IF i = 0 THEN 0 ELSE u[i - 1] + s[i]]
           up == CHOOSE u : u = F(u)
<1>1. N \in Nat
  BY LenProperties
<1>2. PICK g : Sums(g, s, N)
  BY SumsExist
<1>3. g = F(g)
  BY <1>2 DEF Sums
<1>4. up = F(up)
  BY <1>3
<1>5. SumOf(s) = up[N]
  BY DEF SumOf
<1> HIDE DEF up
<1>6. DOMAIN up = 0..N /\ up[0] = 0 /\ \A i \in 1..N : up[i] = up[i - 1] + s[i]
  BY <1>1, <1>4
<1>7. \A i \in 0..N : up[i] = g[i]
  <2> DEFINE Bad == {i \in 0..N : up[i] # g[i]}
  <2>1. SUFFICES ASSUME Bad # {} PROVE FALSE
    OBVIOUS
  <2>2. PICK i \in Bad : \A k \in Bad : i <= k
    <3>1. Bad \subseteq Nat
      OBVIOUS
    <3> HIDE DEF Bad
    <3>2. QED
      BY <2>1, <3>1, LeastNumber
  <2>3. i \in 1..N
    BY <1>1, <1>2, <1>6 DEF Sums
  <2>4. i - 1 \in 0..N /\ i - 1 \notin Bad
    <3>1. i - 1 \in 0..N /\ ~(i <= i - 1)
      BY <1>1, <2>3
    <3> HIDE DEF Bad
    <3>2. QED
      BY <2>2, <3>1
  <2>5. QED
    BY <1>2, <1>6, <2>3, <2>4 DEF Sums
<1>8. QED
  BY <1>1, <1>2, <1>5, <1>7

\* Whatever runs through the sums of s ends at SumOf(s), a number.
LEMMA SumReached ==
    ASSUME NEW s \in Seq(Nat), NEW h, Sums(h, s, Len(s))
    PROVE  SumOf(s) = h[Len(s)] /\ SumOf(s) \in Nat
<1> DEFINE N == Len(s)
<1>1. N \in Nat
  BY LenProperties
<1>2. PICK g : Sums(g, s, N) /\ SumOf(s) = g[N]
  BY SumIs
<1> DEFINE Bad == {i \in 0..N : h[i] # g[i]}
<1>3. ASSUME Bad # {} PROVE FALSE
  <2>1. PICK i \in Bad : \A k \in Bad : i <= k
    <3>1. Bad \subseteq Nat
      OBVIOUS
    <3> HIDE DEF Bad
    <3>2. QED
      BY <1>3, <3>1, LeastNumber
  <2>2. i \in 1..N
    BY <1>1, <1>2 DEF Sums
  <2>3. i - 1 \in 0..N /\ i - 1 \notin Bad
    <3>1. i - 1 \in 0..N /\ ~(i <= i - 1)
      BY <1>1, <2>2
    <3> HIDE DEF Bad
    <3>2. QED
      BY <2>1, <3>1
  <2>4. QED
    BY <1>2, <2>2, <2>3 DEF Sums
<1>4. h[N] = g[N]
  BY <1>1, <1>3
<1>5. QED
  BY <1>1, <1>2, <1>4 DEF Sums

\* The sum of nothing, of one more at the end, and without the first.
LEMMA SumEmpty == SumOf(<< >>) = 0
<1>1. << >> \in Seq(Nat) /\ Len(<< >>) = 0
  OBVIOUS
<1>2. Sums([i \in 0..0 |-> 0], << >>, 0)
  BY DEF Sums
<1>3. QED
  BY <1>1, <1>2, SumReached

\* The sum of numbers is a number.
LEMMA SumNatural == ASSUME NEW s \in Seq(Nat) PROVE SumOf(s) \in Nat
BY SumsExist, SumReached

\* The sum with one more at the end.
LEMMA SumAppend ==
    ASSUME NEW s \in Seq(Nat), NEW x \in Nat
    PROVE  SumOf(Append(s, x)) = SumOf(s) + x
<1> DEFINE N == Len(s)
<1>1. N \in Nat /\ s \in [1..N -> Nat]
  BY LenProperties
<1>2. PICK t : t = Append(s, x)
  OBVIOUS
<1>3. /\ t \in Seq(Nat) /\ Len(t) = N + 1 /\ t[N + 1] = x
      /\ \A i \in 1..N : t[i] = s[i]
  BY <1>2, AppendProperties
<1>4. PICK g : Sums(g, s, N)
  BY SumsExist
<1>5. SumOf(s) = g[N]
  BY <1>4, SumReached
<1>6. g \in [0..N -> Nat] /\ g[0] = 0 /\ \A i \in 1..N : g[i] = g[i - 1] + s[i]
  BY <1>4 DEF Sums
<1> DEFINE h == [i \in 0..(N + 1) |-> IF i = N + 1 THEN g[N] + x ELSE g[i]]
<1>7. Sums(h, t, N + 1)
  <2>1. g[N] \in Nat
    BY <1>1, <1>6
  <2>2. h \in [0..(N + 1) -> Nat]
    BY <1>1, <1>6, <2>1
  <2>3. h[0] = 0 /\ h[N + 1] = g[N] + x /\ \A i \in 0..N : h[i] = g[i]
    BY <1>1, <1>6
  <2> HIDE DEF h
  <2>4. ASSUME NEW i \in 1..(N + 1) PROVE h[i] = h[i - 1] + t[i]
    <3>1. i - 1 \in 0..N /\ h[i - 1] = g[i - 1]
      BY <1>1, <2>3
    <3>2. CASE i = N + 1
      BY <1>1, <1>3, <2>3, <3>1, <3>2
    <3>3. CASE i # N + 1
      <4>1. i \in 1..N
        BY <1>1, <3>3
      <4>2. QED
        BY <1>3, <1>6, <2>3, <3>1, <4>1
    <3>4. QED
      BY <3>2, <3>3
  <2>5. QED
    BY <2>2, <2>3, <2>4 DEF Sums
<1>8. h[N + 1] = g[N] + x
  BY <1>1
<1> HIDE DEF h
<1>9. SumOf(t) = h[N + 1]
  BY <1>3, <1>7, SumReached
<1>10. QED
  BY <1>2, <1>5, <1>8, <1>9

\* The sum without the first.
LEMMA SumTail ==
    ASSUME NEW s \in Seq(Nat), s # << >>
    PROVE  SumOf(s) = Head(s) + SumOf(Tail(s))
<1> DEFINE N == Len(s)
<1>1. N \in Nat \ {0} /\ s \in [1..N -> Nat]
  BY LenProperties, EmptySeq
<1>2. PICK t : t = Tail(s)
  OBVIOUS
<1>3. /\ t \in Seq(Nat) /\ Len(t) = N - 1
      /\ \A i \in 1..(N - 1) : t[i] = s[i + 1]
      /\ Head(s) = s[1]
  BY <1>1, <1>2, HeadTailProperties
<1>4. PICK g : Sums(g, t, N - 1)
  BY <1>3, SumsExist
<1>5. SumOf(t) = g[N - 1]
  BY <1>3, <1>4, SumReached
<1>6. g \in [0..(N - 1) -> Nat] /\ g[0] = 0 /\ \A i \in 1..(N - 1) : g[i] = g[i - 1] + t[i]
  BY <1>4 DEF Sums
<1> DEFINE h == [i \in 0..N |-> IF i = 0 THEN 0 ELSE s[1] + g[i - 1]]
<1>7. h \in [0..N -> Nat]
  <2>1. s[1] \in Nat /\ \A i \in 1..N : i - 1 \in 0..(N - 1)
    BY <1>1
  <2>2. \A i \in 1..N : g[i - 1] \in Nat
    BY <1>6, <2>1
  <2>3. QED
    BY <1>1, <2>1, <2>2
<1>8. h[0] = 0 /\ \A i \in 1..N : h[i] = s[1] + g[i - 1]
  BY <1>1
<1> HIDE DEF h
<1>9. ASSUME NEW i \in 1..N PROVE h[i] = h[i - 1] + s[i]
  <2>1. s[1] \in Nat /\ i \in Nat
    BY <1>1
  <2>2. CASE i = 1
    BY <1>1, <1>6, <1>8, <2>1, <2>2
  <2>3. CASE i # 1
    <3>1. PICK p \in 1..(N - 1), q \in 0..(N - 1) : p = i - 1 /\ q = p - 1
      BY <1>1, <2>1, <2>3
    <3>2. p \in 1..N /\ p + 1 = i
      BY <1>1, <2>1, <3>1
    <3>3. g[p] = g[q] + t[p] /\ t[p] = s[i]
      BY <1>3, <1>6, <3>1, <3>2
    <3>4. h[i] = s[1] + g[p] /\ h[p] = s[1] + g[q]
      BY <1>8, <3>1, <3>2
    <3>5. g[q] \in Nat /\ s[i] \in Nat
      BY <1>1, <1>6, <3>1
    <3>6. h[i] = h[p] + s[i]
      BY <2>1, <3>3, <3>4, <3>5
    <3>7. QED
      BY <3>1, <3>6
  <2>4. QED
    BY <2>2, <2>3
<1>10. Sums(h, s, N)
  BY <1>7, <1>8, <1>9 DEF Sums
<1>11. SumOf(s) = h[N]
  BY <1>10, SumReached
<1>12. QED
  BY <1>1, <1>2, <1>3, <1>5, <1>8, <1>11

-----------------------------------------------------------------------------
(* Counting: nothing is lost, and the two tallies agree.                   *)

Jump == [delta : Nat, state : {"open", "confirmed", "dismissed"}]
Deltas(js) == [i \in DOMAIN js |-> js[i].delta]

\* The parts that wait in jumps: one more jump adds its delta, a verdict on one
\* adds nothing.
LEMMA DeltasAre ==
    ASSUME NEW js \in Seq(Jump)
    PROVE  Deltas(js) \in Seq(Nat) /\ Len(Deltas(js)) = Len(js)
<1>1. Len(js) \in Nat /\ js \in [1..Len(js) -> Jump] /\ DOMAIN js = 1..Len(js)
  BY LenProperties
<1>2. \A i \in 1..Len(js) : js[i].delta \in Nat
  BY <1>1 DEF Jump
<1>3. Deltas(js) \in [1..Len(js) -> Nat]
  BY <1>1, <1>2 DEF Deltas
<1>4. QED
  BY <1>1, <1>3, IsASeq, LenProperties

\* A jump that is recorded adds its delta.
LEMMA DeltasAppend ==
    ASSUME NEW js \in Seq(Jump), NEW j \in Jump
    PROVE  /\ Append(js, j) \in Seq(Jump)
           /\ SumOf(Deltas(Append(js, j))) = SumOf(Deltas(js)) + j.delta
<1>1. PICK ks : ks = Append(js, j)
  OBVIOUS
<1>2. /\ ks \in Seq(Jump) /\ Len(ks) = Len(js) + 1 /\ ks[Len(js) + 1] = j
      /\ \A i \in 1..Len(js) : ks[i] = js[i]
  BY <1>1, AppendProperties
<1>3. j.delta \in Nat
  BY DEF Jump
<1>4. Deltas(js) \in Seq(Nat) /\ Len(Deltas(js)) = Len(js)
      /\ Deltas(ks) \in Seq(Nat) /\ Len(Deltas(ks)) = Len(js) + 1
  BY <1>2, DeltasAre
<1>5. PICK t : t = Append(Deltas(js), j.delta)
  OBVIOUS
<1>6. /\ t \in Seq(Nat) /\ Len(t) = Len(js) + 1 /\ t[Len(js) + 1] = j.delta
      /\ \A i \in 1..Len(js) : t[i] = Deltas(js)[i]
  BY <1>3, <1>4, <1>5, AppendProperties
<1>7. \A i \in 1..(Len(js) + 1) : Deltas(ks)[i] = t[i]
  <2> TAKE i \in 1..(Len(js) + 1)
  <2>1. Len(js) \in Nat /\ DOMAIN js = 1..Len(js) /\ DOMAIN ks = 1..(Len(js) + 1)
    BY <1>2, LenProperties
  <2>2. Deltas(ks)[i] = ks[i].delta
    BY <2>1 DEF Deltas
  <2>3. CASE i = Len(js) + 1
    BY <1>2, <1>6, <2>2, <2>3
  <2>4. CASE i # Len(js) + 1
    <3>1. i \in 1..Len(js)
      BY <2>1, <2>4
    <3>2. Deltas(js)[i] = js[i].delta
      BY <2>1, <3>1 DEF Deltas
    <3>3. QED
      BY <1>2, <1>6, <2>2, <3>1, <3>2
  <2>5. QED
    BY <2>3, <2>4
<1>8. Deltas(ks) = t
  <2>1. Deltas(ks) \in [1..(Len(js) + 1) -> Nat] /\ t \in [1..(Len(js) + 1) -> Nat]
    BY <1>4, <1>6, LenProperties
  <2>2. QED
    BY <1>7, <2>1
<1>9. SumOf(t) = SumOf(Deltas(js)) + j.delta
  BY <1>3, <1>4, <1>5, SumAppend
<1>10. QED
  BY <1>1, <1>2, <1>8, <1>9

\* Reviewing a jump leaves its delta as it is.
LEMMA DeltasReviewed ==
    ASSUME NEW js \in Seq(Jump), NEW i \in DOMAIN js, NEW v \in {"confirmed", "dismissed"},
           NEW ks, ks = [js EXCEPT ![i].state = v]
    PROVE  ks \in Seq(Jump) /\ Deltas(ks) = Deltas(js)
<1>1. js \in [1..Len(js) -> Jump] /\ Len(js) \in Nat /\ DOMAIN js = 1..Len(js)
  BY LenProperties
<1>2. PICK k : k = [js[i] EXCEPT !.state = v]
  OBVIOUS
<1>3. k \in Jump /\ k.delta = js[i].delta
  BY <1>1, <1>2 DEF Jump
<1>4. ks = [js EXCEPT ![i] = k]
  BY <1>2
<1>5. ks \in [1..Len(js) -> Jump] /\ \A n \in 1..Len(js) : ks[n].delta = js[n].delta
  BY <1>1, <1>3, <1>4
<1>6. ks \in Seq(Jump)
  BY <1>1, <1>5, IsASeq
<1>7. Deltas(ks) = Deltas(js)
  BY <1>1, <1>5 DEF Deltas
<1>8. QED
  BY <1>6, <1>7

\* Every part made is counted, on its way, in the counter or in a jump. A 32-bit
\* counter last seen in the 16-bit range has not wrapped since.
Kept ==
    countFaults = << >> =>
        /\ machine.max = Max32 /\ Seen <= Max16 => Seen + Unread <= Max32
        /\ point.linked /\ ~tally.resets =>
              machine.made = tally.hourly + InPoll + InJumps + Unread

KeptInv == CountTypes /\ jumps \in Seq(Jump) /\ Kept

\* A delta that is no reset is what was made, if the wrap is the counter's own.
LEMMA DeltaExact ==
    ASSUME NEW max \in {Max16, Max32}, NEW last \in 0..max, NEW new \in 0..max,
           max = Max32 /\ last <= Max16 => last <= new,
           CalculateDelta(last, new).anomaly # "reset"
    PROVE  CalculateDelta(last, new).delta = (new - last) % (max + 1)
<1>1. max \in Nat /\ Max16 \in Nat /\ Max32 \in Nat /\ Max16 < Max32 /\ JumpThreshold \in Nat
  BY CountAssumption
<1>2. CASE new < last /\ Rollovers(last, new) # {}
  <2>1. PICK d : d = TryRollover(last, new)
    OBVIOUS
  <2>2. d \in Rollovers(last, new)
    BY <1>1, <1>2, <2>1, RolloverFound
  <2>3. CalculateDelta(last, new).delta = d /\ CalculateDelta(last, new).anomaly = "none"
    BY <1>2, <2>1 DEF CalculateDelta
  <2>4. d <= (new - last) % (max + 1)
    BY <1>1, <2>3, DeltaMade
  <2>5. (new - last) % (max + 1) = (max - last) + new + 1
    BY <1>1, <1>2
  <2>6. PICK m \in {Max16, Max32} : last <= m /\ d = (m - last) + new + 1
    BY <2>2 DEF Rollovers
  <2>7. max <= m
    BY <1>1, <1>2, <2>6
  <2>8. QED
    BY <1>1, <1>2, <2>3, <2>4, <2>5, <2>6, <2>7
<1>3. CASE ~(new < last /\ Rollovers(last, new) # {})
  <2>1. new >= last /\ CalculateDelta(last, new).delta = new - last
    BY <1>1, <1>3 DEF CalculateDelta
  <2>2. (new - last) % (max + 1) = new - last
    BY <1>1, <2>1
  <2>3. QED
    BY <1>1, <2>1, <2>2
<1>4. QED
  BY <1>2, <1>3

\* Short of a full turn, the parts made are those that come to be unread.
LEMMA TurnedBy ==
    ASSUME NEW max \in Nat, NEW tag \in 0..max, NEW from \in 0..max, NEW k \in Nat,
           ((tag - from) % (max + 1)) + k <= max
    PROVE  (((tag + k) % (max + 1)) - from) % (max + 1) = ((tag - from) % (max + 1)) + k
<1>1. PICK new \in 0..max : new = (tag + k) % (max + 1)
  OBVIOUS
<1>2. PICK u \in 0..max : u = (tag - from) % (max + 1)
  OBVIOUS
<1>3. u + k <= max
  BY <1>2
<1>4. \/ tag >= from /\ u = tag - from
      \/ tag < from /\ u = tag - from + (max + 1)
  BY <1>2
<1>5. k \in 0..max
  BY <1>3
<1>6. new = tag + k \/ (new = tag + k - (max + 1) /\ tag + k > max)
  BY <1>1, <1>5
<1>7. \/ new >= from /\ (new - from) % (max + 1) = new - from
      \/ new < from /\ (new - from) % (max + 1) = new - from + (max + 1)
  OBVIOUS
<1>8. (new - from) % (max + 1) = u + k
  BY <1>3, <1>4, <1>5, <1>6, <1>7
<1>9. QED
  BY <1>1, <1>2, <1>8

\* Making parts, within what may be made unseen.
LEMMA MadeKept ==
    ASSUME KeptInv, NEW k \in Bursts, MakeParts(k)
    PROVE  Kept'
<1>1. k \in Nat /\ k <= machine.left /\ Unread + k <= machine.max
      /\ (machine.max = Max32 /\ Seen <= Max16 => Seen + Unread + k <= Max32)
      /\ UNCHANGED <<point, poll, tally, jumps, countFaults>>
  BY CountAssumption DEF MakeParts
<1>2. /\ machine'.made = machine.made + k /\ machine'.max = machine.max
      /\ machine'.tag = (machine.tag + k) % (machine.max + 1)
  BY DEF MakeParts, KeptInv, CountTypes, Machine
<1>3. PICK max, tag, from :
        /\ max = machine.max /\ tag = machine.tag /\ from = Seen
        /\ max \in Nat /\ tag \in 0..max /\ from \in 0..max
  BY CountNumbers DEF KeptInv, Seen
<1>4. Unread = (tag - from) % (max + 1) /\ Unread' = (((tag + k) % (max + 1)) - from) % (max + 1)
      /\ Seen' = from
  BY <1>1, <1>2, <1>3 DEF Unread, Seen
<1>5. ((tag - from) % (max + 1)) + k <= max
  BY <1>1, <1>3, <1>4
<1>6. (((tag + k) % (max + 1)) - from) % (max + 1) = ((tag - from) % (max + 1)) + k
  BY <1>1, <1>3, <1>5, TurnedBy
<1>7. Unread' = Unread + k
  BY <1>4, <1>6
<1>8. InPoll' = InPoll /\ InJumps' = InJumps
  BY <1>1 DEF InPoll, InJumps
<1>9. Unread \in Nat /\ InPoll \in Nat /\ tally.hourly \in Nat /\ machine.made \in Nat
  BY CountNumbers DEF KeptInv
<1>10. InJumps \in Nat
  BY DeltasAre, SumNatural DEF KeptInv, InJumps, Deltas
<1>11. from + Unread + k = from + (Unread + k)
  BY <1>1, <1>3, <1>9
<1>12. SUFFICES ASSUME countFaults = << >>
                PROVE  /\ machine'.max = Max32 /\ Seen' <= Max16 => Seen' + Unread' <= Max32
                       /\ point'.linked /\ ~tally'.resets =>
                            machine'.made = tally'.hourly + InPoll' + InJumps' + Unread'
  BY <1>1 DEF Kept
<1>13. machine'.max = Max32 /\ Seen' <= Max16 => Seen' + Unread' <= Max32
  BY <1>1, <1>2, <1>3, <1>4, <1>7, <1>11
<1>14. ASSUME point'.linked, ~tally'.resets
       PROVE  machine'.made = tally'.hourly + InPoll' + InJumps' + Unread'
  <2>1. machine.made = tally.hourly + InPoll + InJumps + Unread /\ tally' = tally
    BY <1>1, <1>12, <1>14 DEF KeptInv, Kept
  <2>2. QED
    BY <1>1, <1>2, <1>7, <1>8, <1>9, <1>10, <2>1
<1>15. QED
  BY <1>13, <1>14

\* Every step keeps every part: what a poll takes from the counter is a jump, a
\* reset, or on its way to the hourly count.
LEMMA KeptStep ==
    ASSUME KeptInv, [CountNext]_countVars
    PROVE  KeptInv'
<1>1. CountTypes /\ CountTypes' /\ jumps \in Seq(Jump) /\ Kept
  BY CountTypesStep DEF KeptInv
<1>2. /\ Unread \in Nat /\ InPoll \in Nat /\ tally.hourly \in Nat /\ machine.made \in Nat
      /\ poll.delta \in Nat /\ poll \in Poll /\ tally \in Tally
      /\ point \in [last : Nat, linked : BOOLEAN] /\ countFaults \in Seq(CountFaults)
  BY <1>1, CountNumbers DEF CountTypes
<1>3. InJumps \in Nat
  BY <1>1, DeltasAre, SumNatural DEF InJumps, Deltas
<1>4. ASSUME NEW f, CountFault(f) PROVE countFaults' # << >>
  <2>1. Happened(f)'
    BY <1>2, <1>4, FaultsGrow
  <2>2. QED
    BY <2>1 DEF Happened
<1>5. CASE UNCHANGED <<machine, point, poll, tally, jumps, countFaults>>
  BY <1>1, <1>5 DEF KeptInv, Kept, InPoll, InJumps, Unread, Seen
<1>6. ASSUME NEW k \in Bursts, MakeParts(k) PROVE KeptInv'
  <2>1. jumps' \in Seq(Jump)
    BY <1>1, <1>6 DEF MakeParts
  <2>2. QED
    BY <1>1, <1>6, <2>1, MadeKept DEF KeptInv
<1>7. CASE RestartPLC \/ CrashEdge \/ LoseReport
  <2>1. jumps' = jumps /\ countFaults' # << >>
    BY <1>4, <1>7 DEF RestartPLC, CrashEdge, LoseReport
  <2>2. QED
    BY <1>1, <2>1 DEF KeptInv, Kept
<1>8. CASE PollReportingPoint
  <2>1. poll.pc = "idle" /\ UNCHANGED <<machine, point, countFaults>>
    BY <1>8 DEF PollReportingPoint
  <2>2. PICK delta \in 0..Max32, anomaly \in {"none", "reset", "jump"} :
           /\ delta = CalculateDelta(point.last, machine.tag).delta
           /\ anomaly = CalculateDelta(point.last, machine.tag).anomaly
           /\ poll' = [pc |-> "advance", new |-> machine.tag, delta |-> delta,
                       anomaly |-> anomaly]
           /\ tally'.hourly = tally.hourly
    BY <1>1, <1>8, PollIs
  <2>3. delta \in Nat
    BY <2>2, CountAssumption
  <2>4. /\ anomaly = "jump" => /\ jumps' = Append(jumps, [delta |-> delta, state |-> "open"])
                               /\ tally' = tally
        /\ anomaly = "reset" => tally' = [tally EXCEPT !.reset = @ + delta, !.resets = TRUE]
        /\ anomaly = "none" => tally' = [tally EXCEPT !.normal = @ + delta]
        /\ anomaly # "jump" => jumps' = jumps
    BY <1>8, <2>2 DEF PollReportingPoint
  <2>5. /\ anomaly = "reset" => tally'.resets
        /\ anomaly # "reset" => tally'.resets = tally.resets
    <3>1. CASE anomaly = "reset"
      <4>1. PICK t : t = [tally EXCEPT !.reset = @ + delta]
        OBVIOUS
      <4>2. t \in Tally
        BY <1>2, <2>3, <4>1 DEF Tally
      <4>3. tally' = [t EXCEPT !.resets = TRUE]
        BY <2>4, <3>1, <4>1
      <4>4. QED
        BY <3>1, <4>2, <4>3 DEF Tally
    <3>2. CASE anomaly = "none"
      BY <1>2, <2>4, <3>2 DEF Tally
    <3>3. CASE anomaly = "jump"
      BY <2>4, <3>3
    <3>4. QED
      BY <2>2, <3>1, <3>2, <3>3
  <2>6. /\ jumps' \in Seq(Jump)
        /\ InJumps' = InJumps + (IF anomaly = "jump" THEN delta ELSE 0)
    <3>1. CASE anomaly = "jump"
      <4>1. PICK j \in Jump : j = [delta |-> delta, state |-> "open"]
        BY <2>3 DEF Jump
      <4>2. jumps' = Append(jumps, j) /\ j.delta = delta
        BY <2>4, <3>1, <4>1
      <4>3. jumps' \in Seq(Jump) /\ SumOf(Deltas(jumps')) = SumOf(Deltas(jumps)) + delta
        BY <1>1, <4>2, DeltasAppend
      <4>4. QED
        BY <3>1, <4>3 DEF InJumps, Deltas
    <3>2. CASE anomaly # "jump"
      <4>1. jumps' = jumps
        BY <2>4, <3>2
      <4>2. InJumps' = InJumps
        BY <4>1 DEF InJumps
      <4>3. QED
        BY <1>1, <1>3, <3>2, <4>1, <4>2
    <3>3. QED
      BY <3>1, <3>2
  <2>7. Seen' = machine.tag /\ Seen = point.last
    BY <2>1, <2>2 DEF Seen
  <2>8. PICK max, tag, last :
          /\ max = machine.max /\ tag = machine.tag /\ last = point.last
          /\ max \in {Max16, Max32} /\ max \in Nat /\ tag \in 0..max /\ last \in 0..max
    BY <1>1, CountNumbers
  <2>9. Unread' = 0 /\ Unread = (tag - last) % (max + 1)
    <3>1. Unread' = (tag - tag) % (max + 1)
      BY <2>1, <2>7, <2>8 DEF Unread
    <3>2. Unread = (tag - last) % (max + 1)
      BY <2>7, <2>8 DEF Unread
    <3>3. QED
      BY <2>8, <3>1, <3>2
  <2>10. InPoll' = (IF anomaly = "none" THEN delta ELSE 0) /\ InPoll = 0
    BY <2>1, <2>2 DEF InPoll
  <2>11. ASSUME countFaults = << >>
         PROVE  anomaly # "reset" => delta = Unread
    <3>1. max = Max32 /\ last <= Max16 => last <= tag
      <4> SUFFICES ASSUME max = Max32, last <= Max16 PROVE last <= tag
        OBVIOUS
      <4>1. last + ((tag - last) % (max + 1)) <= max
        BY <1>1, <2>7, <2>8, <2>9, <2>11 DEF Kept
      <4>2. QED
        BY <2>8, <4>1
    <3>2. QED
      BY <2>2, <2>8, <2>9, <3>1, DeltaExact
  <2>12. Kept'
    <3> SUFFICES ASSUME countFaults = << >>
                 PROVE  /\ machine'.max = Max32 /\ Seen' <= Max16 => Seen' + Unread' <= Max32
                        /\ point'.linked /\ ~tally'.resets =>
                             machine'.made = tally'.hourly + InPoll' + InJumps' + Unread'
      BY <2>1 DEF Kept
    <3>1. machine'.max = Max32 => Seen' + Unread' <= Max32
      BY <2>1, <2>7, <2>8, <2>9
    <3>2. ASSUME point'.linked, ~tally'.resets
          PROVE  machine'.made = tally'.hourly + InPoll' + InJumps' + Unread'
      <4>1. anomaly # "reset" /\ point.linked /\ ~tally.resets
        BY <2>1, <2>5, <3>2
      <4>2. machine.made = tally.hourly + InPoll + InJumps + Unread /\ delta = Unread
        BY <1>1, <2>11, <4>1 DEF Kept
      <4>3. tally'.hourly = tally.hourly /\ machine'.made = machine.made
        BY <2>1, <2>2
      <4>4. QED
        BY <1>2, <1>3, <2>2, <2>3, <2>6, <2>9, <2>10, <4>1, <4>2, <4>3
    <3>3. QED
      BY <3>1, <3>2
  <2>13. QED
    BY <1>1, <2>6, <2>12 DEF KeptInv
<1>9. CASE UpdateReportingPointCounter
  <2>1. jumps' = jumps /\ UNCHANGED <<machine, tally>> /\ poll.pc = "advance"
    BY <1>9 DEF UpdateReportingPointCounter
  <2>2. CASE CountFault("advance_fails")
    BY <1>1, <1>4, <2>1, <2>2 DEF KeptInv, Kept
  <2>3. CASE ~CountFault("advance_fails")
    <3>1. point' = [point EXCEPT !.last = poll.new] /\ countFaults' = countFaults
      BY <1>9, <2>3 DEF UpdateReportingPointCounter
    <3>2. point'.last = poll.new /\ point'.linked = point.linked
      BY <1>2, <3>1
    <3>3. poll' = IF point.linked /\ poll.anomaly # "jump" /\ poll.delta > 0
                  THEN [poll EXCEPT !.pc = "hourly"] ELSE NoPoll
      BY <1>9 DEF UpdateReportingPointCounter
    <3>4. poll'.pc \in {"hourly", "idle"} /\ (point.linked => InPoll' = InPoll)
      <4>1. CASE point.linked /\ poll.anomaly # "jump" /\ poll.delta > 0
        <5>1. poll'.pc = "hourly" /\ poll'.anomaly = poll.anomaly /\ poll'.delta = poll.delta
          BY <1>2, <3>3, <4>1 DEF Poll
        <5>2. QED
          BY <2>1, <5>1 DEF InPoll
      <4>2. CASE ~(point.linked /\ poll.anomaly # "jump" /\ poll.delta > 0)
        <5>1. poll' = NoPoll
          BY <3>3, <4>2
        <5>2. point.linked => InPoll = 0
          BY <1>2, <4>2 DEF InPoll
        <5>3. InPoll' = 0 /\ poll'.pc = "idle"
          BY <5>1 DEF NoPoll, InPoll
        <5>4. QED
          BY <5>2, <5>3
      <4>3. QED
        BY <4>1, <4>2
    <3>5. Seen' = Seen /\ Unread' = Unread /\ InJumps' = InJumps
      BY <2>1, <3>2, <3>4 DEF Seen, Unread, InJumps
    <3>6. QED
      BY <1>1, <2>1, <3>1, <3>2, <3>4, <3>5 DEF KeptInv, Kept
  <2>4. QED
    BY <2>2, <2>3
<1>10. CASE UpsertHourlyCount
  <2>1. poll.pc = "hourly" /\ poll.anomaly # "jump" /\ poll.anomaly \in {"none", "reset", "jump"}
        /\ UNCHANGED <<machine, point, jumps, countFaults>>
    BY <1>1, <1>2, <1>10 DEF UpsertHourlyCount, CountTypes, Poll
  <2>2. tally' = IF poll.anomaly = "reset" THEN tally
                 ELSE [tally EXCEPT !.hourly = @ + poll.delta]
    BY <1>10 DEF UpsertHourlyCount
  <2>3. tally'.hourly = tally.hourly + InPoll /\ tally'.resets = tally.resets
    <3>1. CASE poll.anomaly = "reset"
      BY <1>2, <2>1, <2>2, <3>1 DEF InPoll
    <3>2. CASE poll.anomaly # "reset"
      <4>1. tally'.hourly = tally.hourly + poll.delta /\ tally'.resets = tally.resets
        BY <1>2, <2>2, <3>2 DEF Tally
      <4>2. InPoll = poll.delta
        BY <2>1, <3>2 DEF InPoll
      <4>3. QED
        BY <4>1, <4>2
    <3>3. QED
      BY <3>1, <3>2
  <2>4. poll'.pc = "record"
    BY <1>2, <1>10 DEF UpsertHourlyCount, Poll
  <2>5. InPoll' = 0 /\ Unread' = Unread /\ Seen' = Seen /\ InJumps' = InJumps
    BY <2>1, <2>4 DEF InPoll, Unread, Seen, InJumps
  <2>6. QED
    BY <1>1, <1>2, <1>3, <2>1, <2>3, <2>5 DEF KeptInv, Kept
<1>11. CASE RecordDelta
  <2>1. poll.pc = "record" /\ poll' = NoPoll
        /\ UNCHANGED <<machine, point, tally, jumps, countFaults>>
    BY <1>11 DEF RecordDelta
  <2>2. InPoll' = InPoll /\ Unread' = Unread /\ Seen' = Seen /\ InJumps' = InJumps
    BY <2>1 DEF NoPoll, InPoll, Unread, Seen, InJumps
  <2>3. QED
    BY <1>1, <2>1, <2>2 DEF KeptInv, Kept
<1>12. CASE ReviewAnomaly
  <2>1. UNCHANGED <<machine, point, poll, tally, countFaults>>
    BY <1>12 DEF ReviewAnomaly
  <2>2. PICK i \in DOMAIN jumps, v \in {"confirmed", "dismissed"} :
          jumps' = [jumps EXCEPT ![i].state = v]
    BY <1>12 DEF ReviewAnomaly
  <2>3. PICK ks : ks = jumps'
    OBVIOUS
  <2>4. ks \in Seq(Jump) /\ Deltas(ks) = Deltas(jumps)
    BY <1>1, <2>2, <2>3, DeltasReviewed
  <2>5. InJumps' = InJumps /\ jumps' \in Seq(Jump)
    BY <2>3, <2>4 DEF InJumps, Deltas
  <2>6. InPoll' = InPoll /\ Unread' = Unread /\ Seen' = Seen
    BY <2>1 DEF InPoll, Unread, Seen
  <2>7. QED
    BY <1>1, <2>1, <2>5, <2>6 DEF KeptInv, Kept
<1>13. CASE \/ FlushTakes \/ FlushEnqueues \/ IncrementProduced \/ LogProduction
            \/ CreateDemand \/ DeleteDemand \/ ListDemands \/ UpdateDemand
            \/ ClearProduced \/ SetProduced
  <2>1. /\ UNCHANGED <<machine, point, poll, tally, jumps>>
        /\ countFaults' = countFaults \/ \E f : CountFault(f)
    BY <1>13 DEF FlushTakes, FlushEnqueues, IncrementProduced, LogProduction, CreateDemand,
         DeleteDemand, ListDemands, UpdateDemand, ClearProduced, SetProduced, Demands
  <2>2. CASE countFaults' = countFaults
    BY <1>5, <2>1, <2>2
  <2>3. CASE \E f : CountFault(f)
    BY <1>1, <1>4, <2>1, <2>3 DEF KeptInv, Kept
  <2>4. QED
    BY <2>1, <2>2, <2>3
<1>14. CASE UNCHANGED countVars
  BY <1>5, <1>14 DEF countVars
<1>15. QED
  BY <1>6, <1>7, <1>8, <1>9, <1>10, <1>11, <1>12, <1>13, <1>14 DEF CountNext

\* At the start no jump is recorded.
LEMMA NoDeltas == << >> \in Seq(Jump) /\ SumOf(Deltas(<< >>)) = 0
<1>1. << >> \in Seq(Jump) /\ Len(<< >>) = 0
  OBVIOUS
<1>2. Deltas(<< >>) \in Seq(Nat) /\ Len(Deltas(<< >>)) = 0
  BY <1>1, DeltasAre
<1>3. Deltas(<< >>) = << >>
  BY <1>2, EmptySeq
<1>4. QED
  BY <1>1, <1>3, SumEmpty

\* No part is lost between the machine and the hourly counts (NoPartLost).
THEOREM PartsKept == CountSpec => []NoPartLost
<1>1. CountInit => KeptInv
  <2> SUFFICES ASSUME CountInit PROVE KeptInv
    OBVIOUS
  <2>1. CountTypes
    BY CountTypesInit
  <2>2. /\ machine.made = machine.tag /\ point.last = 0 /\ tally.hourly = 0
        /\ poll.pc = "idle" /\ InPoll = 0 /\ jumps = << >>
    BY DEF CountInit, NoPoll, InPoll
  <2>3. InJumps = 0 /\ jumps \in Seq(Jump)
    BY <2>2, NoDeltas DEF InJumps, Deltas
  <2>4. Seen = 0 /\ Unread = machine.tag
    <3>1. PICK max, tag : /\ max = machine.max /\ tag = machine.tag
                          /\ max \in Nat /\ tag \in 0..max
      BY <2>1, CountNumbers
    <3>2. (tag - 0) % (max + 1) = tag
      BY <3>1
    <3>3. Seen = 0
      BY <2>2 DEF Seen
    <3>4. QED
      BY <3>1, <3>2, <3>3 DEF Unread
  <2>5. machine.tag \in 0..machine.max /\ machine.max \in Nat
    BY <2>1, CountNumbers
  <2>6. QED
    BY <2>1, <2>2, <2>3, <2>4, <2>5 DEF KeptInv, Kept
<1>2. KeptInv /\ [CountNext]_countVars => KeptInv'
  BY KeptStep
<1>3. KeptInv => NoPartLost
  BY DEF KeptInv, Kept, NoPartLost
<1>4. QED
  BY <1>1, <1>2, <1>3, PTL DEF CountSpec

\* What a poll in hand has still to bring to the reporter, as TalliesAgree counts
\* it: the rest of that sum is in the reporter, under way or in core's hands.
ToRecord == (IF poll.pc = "record" THEN poll.delta ELSE 0)
            + (IF poll.pc \in {"advance", "hourly"} /\ poll.anomaly = "reset"
               THEN poll.delta ELSE 0)
Reported == reporter.acc + reporter.taken + InReports + core.report + core.log

TalliesInv ==
    /\ CountTypes
    /\ countFaults = << >> /\ point.linked => tally.hourly + tally.reset = Reported + ToRecord

\* Every step moves parts along one of the two routes, or adds as many to both.
LEMMA TalliesStep ==
    ASSUME TalliesInv, [CountNext]_countVars
    PROVE  TalliesInv'
<1>1. CountTypes /\ CountTypes'
  BY CountTypesStep DEF TalliesInv
<1>2. /\ poll \in Poll /\ tally \in Tally /\ reporter \in [acc : Nat, taken : Nat]
      /\ reports \in Seq(Nat) /\ core \in [report : Nat, log : Nat]
      /\ point \in [last : Nat, linked : BOOLEAN] /\ countFaults \in Seq(CountFaults)
  BY <1>1 DEF CountTypes
<1>3. /\ poll.delta \in Nat /\ tally.hourly \in Nat /\ tally.reset \in Nat
      /\ reporter.acc \in Nat /\ reporter.taken \in Nat /\ core.report \in Nat /\ core.log \in Nat
      /\ InReports \in Nat
  BY <1>2, SumNatural, CountAssumption DEF Poll, Tally, InReports
<1>4. Reported \in Nat /\ ToRecord \in Nat
  BY <1>3 DEF Reported, ToRecord
<1>5. ASSUME NEW f, CountFault(f) PROVE countFaults' # << >>
  <2>1. Happened(f)'
    BY <1>2, <1>5, FaultsGrow
  <2>2. QED
    BY <2>1 DEF Happened
<1>6. SUFFICES ASSUME countFaults' = << >>, point'.linked
               PROVE  tally'.hourly + tally'.reset = Reported' + ToRecord'
  BY <1>1 DEF TalliesInv
<1>7. ~\E f : CountFault(f)
  BY <1>5, <1>6
<1>8. ASSUME countFaults' = countFaults, point'.linked = point.linked
      PROVE  tally.hourly + tally.reset = Reported + ToRecord
  BY <1>6, <1>8 DEF TalliesInv
<1>9. CASE UNCHANGED <<point, poll, tally, reporter, reports, core, countFaults>>
  <2>1. Reported' = Reported /\ ToRecord' = ToRecord
    BY <1>9 DEF Reported, ToRecord, InReports
  <2>2. QED
    BY <1>8, <1>9, <2>1
<1>10. CASE PollReportingPoint
  <2>1. poll.pc = "idle" /\ UNCHANGED <<machine, point, reporter, reports, core, countFaults>>
    BY <1>10 DEF PollReportingPoint
  <2>2. PICK delta \in 0..Max32, anomaly \in {"none", "reset", "jump"} :
           /\ delta = CalculateDelta(point.last, machine.tag).delta
           /\ anomaly = CalculateDelta(point.last, machine.tag).anomaly
           /\ poll' = [pc |-> "advance", new |-> machine.tag, delta |-> delta,
                       anomaly |-> anomaly]
           /\ tally'.hourly = tally.hourly
    BY <1>1, <1>10, PollIs
  <2>3. delta \in Nat
    BY <2>2, CountAssumption
  <2>4. tally'.reset = tally.reset + (IF anomaly = "reset" THEN delta ELSE 0)
    <3>1. /\ anomaly = "jump" => tally' = tally
          /\ anomaly = "reset" => tally' = [tally EXCEPT !.reset = @ + delta, !.resets = TRUE]
          /\ anomaly = "none" => tally' = [tally EXCEPT !.normal = @ + delta]
      BY <1>10, <2>2 DEF PollReportingPoint
    <3>2. CASE anomaly = "reset"
      <4>1. PICK t : t = [tally EXCEPT !.reset = @ + delta]
        OBVIOUS
      <4>2. t \in Tally /\ t.reset = tally.reset + delta
        <5>1. tally.reset + delta \in Nat
          BY <1>3, <2>3
        <5>2. QED
          BY <1>2, <4>1, <5>1 DEF Tally
      <4>3. tally' = [t EXCEPT !.resets = TRUE]
        BY <3>1, <3>2, <4>1
      <4>4. tally'.reset = t.reset
        BY <4>2, <4>3 DEF Tally
      <4>5. QED
        BY <3>2, <4>2, <4>4
    <3>3. CASE anomaly = "none"
      <4>1. tally'.reset = tally.reset
        BY <1>2, <3>1, <3>3 DEF Tally
      <4>2. QED
        BY <1>3, <3>3, <4>1
    <3>4. CASE anomaly = "jump"
      BY <1>3, <3>1, <3>4
    <3>5. QED
      BY <2>2, <3>2, <3>3, <3>4
  <2>5. ToRecord = 0 /\ ToRecord' = (IF anomaly = "reset" THEN delta ELSE 0)
    BY <2>1, <2>2, <2>3 DEF ToRecord
  <2>6. Reported' = Reported
    BY <2>1 DEF Reported, InReports
  <2>7. tally.hourly + tally.reset = Reported + ToRecord
    BY <1>8, <2>1
  <2>8. QED
    BY <1>3, <1>4, <2>2, <2>3, <2>4, <2>5, <2>6, <2>7
<1>11. CASE UpdateReportingPointCounter
  <2>1. /\ poll.pc = "advance" /\ UNCHANGED <<tally, reporter, reports, core>>
        /\ point' = [point EXCEPT !.last = poll.new] /\ countFaults' = countFaults
    BY <1>7, <1>11 DEF UpdateReportingPointCounter
  <2>2. point'.linked = point.linked
    BY <1>2, <2>1
  <2>3. poll' = IF point.linked /\ poll.anomaly # "jump" /\ poll.delta > 0
                THEN [poll EXCEPT !.pc = "hourly"] ELSE NoPoll
    BY <1>11 DEF UpdateReportingPointCounter
  <2>4. ToRecord' = ToRecord
    <3>1. CASE point.linked /\ poll.anomaly # "jump" /\ poll.delta > 0
      <4>1. poll'.pc = "hourly" /\ poll'.anomaly = poll.anomaly /\ poll'.delta = poll.delta
        BY <1>2, <2>3, <3>1 DEF Poll
      <4>2. QED
        BY <2>1, <4>1 DEF ToRecord
    <3>2. CASE ~(point.linked /\ poll.anomaly # "jump" /\ poll.delta > 0)
      <4>1. poll' = NoPoll
        BY <2>3, <3>2
      <4>2. ToRecord = 0
        BY <1>3, <1>6, <2>1, <2>2, <3>2 DEF ToRecord
      <4>3. ToRecord' = 0
        BY <4>1 DEF NoPoll, ToRecord
      <4>4. QED
        BY <4>2, <4>3
    <3>3. QED
      BY <3>1, <3>2
  <2>5. Reported' = Reported
    BY <2>1 DEF Reported, InReports
  <2>6. QED
    BY <1>8, <2>1, <2>2, <2>4, <2>5
<1>12. CASE UpsertHourlyCount
  <2>1. poll.pc = "hourly" /\ poll.anomaly # "jump" /\ poll.anomaly \in {"none", "reset", "jump"}
        /\ UNCHANGED <<machine, point, reporter, reports, core, countFaults>>
    BY <1>1, <1>2, <1>12 DEF UpsertHourlyCount, CountTypes, Poll
  <2>2. tally' = IF poll.anomaly = "reset" THEN tally
                 ELSE [tally EXCEPT !.hourly = @ + poll.delta]
    BY <1>12 DEF UpsertHourlyCount
  <2>3. poll'.pc = "record" /\ poll'.delta = poll.delta
    BY <1>2, <1>12 DEF UpsertHourlyCount, Poll
  <2>4. ToRecord' = poll.delta
    BY <1>3, <2>3 DEF ToRecord
  <2>5. /\ tally'.reset = tally.reset
        /\ tally'.hourly = tally.hourly + (poll.delta - ToRecord)
    <3>1. CASE poll.anomaly = "reset"
      <4>1. tally' = tally /\ ToRecord = poll.delta
        BY <1>3, <2>1, <2>2, <3>1 DEF ToRecord
      <4>2. QED
        BY <1>3, <4>1
    <3>2. CASE poll.anomaly # "reset"
      <4>1. tally'.hourly = tally.hourly + poll.delta /\ tally'.reset = tally.reset
        BY <1>2, <2>2, <3>2 DEF Tally
      <4>2. ToRecord = 0
        BY <2>1, <3>2 DEF ToRecord
      <4>3. QED
        BY <1>3, <4>1, <4>2
    <3>3. QED
      BY <3>1, <3>2
  <2>6. Reported' = Reported
    BY <2>1 DEF Reported, InReports
  <2>7. tally.hourly + tally.reset = Reported + ToRecord
    BY <1>8, <2>1
  <2>8. QED
    BY <1>3, <1>4, <2>4, <2>5, <2>6, <2>7
<1>13. CASE RecordDelta
  <2>1. poll.pc = "record" /\ poll' = NoPoll
        /\ UNCHANGED <<machine, point, tally, reports, core, countFaults>>
        /\ reporter' = [reporter EXCEPT !.acc = @ + poll.delta]
    BY <1>13 DEF RecordDelta
  <2>2. reporter'.acc = reporter.acc + poll.delta /\ reporter'.taken = reporter.taken
    BY <1>2, <2>1
  <2>3. ToRecord = poll.delta /\ ToRecord' = 0
    BY <1>3, <2>1 DEF ToRecord, NoPoll
  <2>4. Reported' = Reported + poll.delta
    BY <1>3, <2>1, <2>2 DEF Reported, InReports
  <2>5. tally.hourly + tally.reset = Reported + ToRecord
    BY <1>8, <2>1
  <2>6. QED
    BY <1>3, <1>4, <2>1, <2>3, <2>4, <2>5
<1>14. ASSUME Reported' = Reported, UNCHANGED <<point, poll, tally, countFaults>>
       PROVE  tally'.hourly + tally'.reset = Reported' + ToRecord'
  <2>1. ToRecord' = ToRecord
    BY <1>14 DEF ToRecord
  <2>2. QED
    BY <1>8, <1>14, <2>1
<1>15. CASE FlushTakes
  <2>1. /\ reporter.taken = 0 /\ reporter' = [acc |-> 0, taken |-> reporter.acc]
        /\ UNCHANGED <<point, poll, tally, reports, core, countFaults>>
    BY <1>15 DEF FlushTakes
  <2>2. Reported' = Reported
    BY <1>3, <2>1 DEF Reported, InReports
  <2>3. QED
    BY <1>14, <2>1, <2>2
<1>16. CASE FlushEnqueues
  <2>1. /\ reports' = Append(reports, reporter.taken)
        /\ reporter' = [reporter EXCEPT !.taken = 0]
        /\ UNCHANGED <<point, poll, tally, core, countFaults>>
    BY <1>7, <1>16 DEF FlushEnqueues
  <2>2. reporter'.acc = reporter.acc /\ reporter'.taken = 0
    BY <1>2, <2>1
  <2>3. InReports' = InReports + reporter.taken
    BY <1>2, <1>3, <2>1, SumAppend DEF InReports
  <2>4. Reported' = Reported
    BY <1>3, <2>1, <2>2, <2>3 DEF Reported
  <2>5. QED
    BY <1>14, <2>1, <2>4
<1>17. CASE IncrementProduced
  <2>1. /\ reports # << >> /\ core.report = 0
        /\ core' = [core EXCEPT !.report = Head(reports)] /\ reports' = Tail(reports)
        /\ UNCHANGED <<point, poll, tally, reporter, countFaults>>
    BY <1>7, <1>17 DEF IncrementProduced
  <2>2. core'.report = Head(reports) /\ core'.log = core.log
    BY <1>2, <2>1
  <2>3. InReports = Head(reports) + InReports'
    BY <1>2, <2>1, SumTail DEF InReports
  <2>4. Head(reports) \in Nat /\ InReports' \in Nat
    <3>1. Head(reports) \in Nat /\ reports' \in Seq(Nat)
      BY <1>2, <2>1, HeadTailProperties
    <3>2. QED
      BY <3>1, SumNatural DEF InReports
  <2>5. Reported' = Reported
    BY <1>3, <2>1, <2>2, <2>3, <2>4 DEF Reported
  <2>6. QED
    BY <1>14, <2>1, <2>5
<1>18. CASE LogProduction
  <2>1. /\ core' = [report |-> 0, log |-> core.log + core.report]
        /\ UNCHANGED <<point, poll, tally, reporter, reports, countFaults>>
    BY <1>7, <1>18 DEF LogProduction
  <2>2. Reported' = Reported
    BY <1>3, <2>1 DEF Reported, InReports
  <2>3. QED
    BY <1>14, <2>1, <2>2
<1>19. CASE (\E k \in Bursts : MakeParts(k)) \/ ReviewAnomaly \/ CreateDemand \/ DeleteDemand
            \/ ListDemands \/ UpdateDemand \/ ClearProduced \/ SetProduced \/ UNCHANGED countVars
  BY <1>9, <1>19 DEF MakeParts, ReviewAnomaly, CreateDemand, DeleteDemand, ListDemands,
     UpdateDemand, ClearProduced, SetProduced, Demands, countVars
<1>20. ~RestartPLC /\ ~CrashEdge /\ ~LoseReport
  BY <1>7 DEF RestartPLC, CrashEdge, LoseReport
<1>21. QED
  BY <1>10, <1>11, <1>12, <1>13, <1>15, <1>16, <1>17, <1>18, <1>19, <1>20 DEF CountNext

\* The edge's hourly counts and core's production log tell the same parts
\* (TalliesAgree).
THEOREM TalliesMeet == CountSpec => []TalliesAgree
<1>1. CountInit => TalliesInv
  <2> SUFFICES ASSUME CountInit PROVE TalliesInv
    OBVIOUS
  <2>1. CountTypes
    BY CountTypesInit
  <2>2. /\ tally.hourly = 0 /\ tally.reset = 0 /\ reporter.acc = 0 /\ reporter.taken = 0
        /\ core.report = 0 /\ core.log = 0 /\ poll.pc = "idle" /\ reports = << >>
    BY DEF CountInit, NoPoll
  <2>3. Reported = 0 /\ ToRecord = 0
    BY <2>2, SumEmpty DEF Reported, ToRecord, InReports
  <2>4. QED
    BY <2>1, <2>2, <2>3 DEF TalliesInv
<1>2. TalliesInv /\ [CountNext]_countVars => TalliesInv'
  BY TalliesStep
<1>3. TalliesInv => TalliesAgree
  <2> SUFFICES ASSUME TalliesInv, countFaults = << >>, point.linked
               PROVE  tally.hourly + tally.reset =
                        reporter.acc + reporter.taken + InReports + core.report + core.log
                          + (IF poll.pc = "record" THEN poll.delta ELSE 0)
                          + (IF poll.pc \in {"advance", "hourly"} /\ poll.anomaly = "reset"
                             THEN poll.delta ELSE 0)
    BY DEF TalliesAgree
  <2>1. tally.hourly + tally.reset = Reported + ToRecord
    BY DEF TalliesInv
  <2>2. /\ reporter.acc \in Nat /\ reporter.taken \in Nat /\ core.report \in Nat /\ core.log \in Nat
        /\ InReports \in Nat /\ poll.delta \in Nat
    BY SumNatural, CountAssumption DEF TalliesInv, CountTypes, Poll, InReports
  <2>3. QED
    BY <2>1, <2>2 DEF Reported, ToRecord
<1>4. QED
  BY <1>1, <1>2, <1>3, PTL DEF CountSpec

-----------------------------------------------------------------------------
(* Changeovers.                                                            *)

States == {"running", "stopping", "counting_out", "storing", "delivering",
           "counting_in", "ready"}

MachineRow == [from : JobStyles \cup {NoStyle}, to : JobStyles \cup {NoStyle},
               state : States, active : BOOLEAN]

LoggedRow == [from : JobStyles \cup {NoStyle}, to : JobStyles \cup {NoStyle}, state : States]

Request == [op : {"none", "start", "advance", "cancel"},
            pc : {"idle", "find", "create", "operate"}, machine : Nat]

ChangeoverTypes ==
    /\ machines \in Seq(MachineRow)
    /\ \A i \in DOMAIN machines : machines[i].active => machines[i].state # "running"
    /\ registered \in 0..Len(machines)
    /\ request \in [Clerks -> Request]
    /\ \A c \in Clerks : request[c].machine \in {0, registered}
    /\ \A c \in Clerks : request[c].pc = "operate" =>
                            request[c].machine = registered /\ registered # 0
    /\ lastRow \in LoggedRow
    /\ logErrors \in Nat

\* What the log says of the registered machine.
Remembered ==
    logErrors = 0 /\ registered # 0 =>
        /\ machines[registered].active = (lastRow.state # "running")
        /\ machines[registered].active =>
              /\ machines[registered].from = lastRow.from
              /\ machines[registered].to = lastRow.to
              /\ machines[registered].state = lastRow.state

ChangeoverInv == ChangeoverTypes /\ Remembered

\* The states of a changeover and what follows each of them.
LEMMA NextStates ==
    /\ Range(StateOrder) = States
    /\ \A s \in States \ {"running"} : NextState(s) \in States
<1>1. /\ Len(StateOrder) = 8 /\ DOMAIN StateOrder = 1..8
      /\ StateOrder[1] = "running" /\ StateOrder[2] = "stopping"
      /\ StateOrder[3] = "counting_out" /\ StateOrder[4] = "storing"
      /\ StateOrder[5] = "delivering" /\ StateOrder[6] = "counting_in"
      /\ StateOrder[7] = "ready" /\ StateOrder[8] = "running"
  BY DEF StateOrder
<1>2. \A i \in 1..8 : i \in {1, 2, 3, 4, 5, 6, 7, 8}
  OBVIOUS
<1>3. \A i \in 1..8 : StateOrder[i] \in States
  BY <1>1, <1>2 DEF States
<1>4. Range(StateOrder) = States
  BY <1>1, <1>3 DEF Range, States
<1>5. ASSUME NEW s \in States \ {"running"} PROVE NextState(s) \in States
  <2>1. PICK j \in 2..7 : StateOrder[j] = s
    BY <1>1 DEF States
  <2>2. \A i \in 1..8 : StateOrder[i] = s => i = j
    <3> SUFFICES ASSUME NEW i \in 1..8, StateOrder[i] = s PROVE i = j
      OBVIOUS
    <3>1. i \in {1, 2, 3, 4, 5, 6, 7, 8} /\ j \in {2, 3, 4, 5, 6, 7}
      BY <1>2
    <3>2. QED
      BY <1>1, <2>1, <3>1 DEF States
  <2>3. {i \in 1..Len(StateOrder) : StateOrder[i] = s} = {j}
    BY <1>1, <2>1, <2>2
  <2>4. SelectInSeq(StateOrder, LAMBDA x : x = s) = Min({j})
    BY <2>3 DEF SelectInSeq
  <2>5. Min({j}) = j
    BY DEF Min
  <2>6. NextState(s) = StateOrder[j + 1] /\ j + 1 \in 1..8
    BY <2>4, <2>5 DEF NextState
  <2>7. QED
    BY <1>3, <2>6
<1>6. QED
  BY <1>4, <1>5

\* What the log restores is of the right type.
LEMMA RestoreTyped ==
    ASSUME lastRow \in LoggedRow
    PROVE  /\ Restore \in MachineRow /\ NewMachine \in MachineRow
           /\ Restore.active = (lastRow.state # "running")
           /\ Restore.active => /\ Restore.from = lastRow.from /\ Restore.to = lastRow.to
                                /\ Restore.state = lastRow.state
                                /\ Restore.state # "running"
           /\ ~NewMachine.active /\ NewMachine.state = "running"
           /\ NewMachine.from = NoStyle /\ NewMachine.to = NoStyle
<1>1. NewMachine \in MachineRow
  <2>1. FALSE \in BOOLEAN
    OBVIOUS
  <2>2. QED
    BY <2>1 DEF NewMachine, MachineRow, States
<1>2. lastRow.from \in JobStyles \cup {NoStyle} /\ lastRow.to \in JobStyles \cup {NoStyle}
      /\ lastRow.state \in States
  BY DEF LoggedRow
<1>3. [from |-> lastRow.from, to |-> lastRow.to, state |-> lastRow.state, active |-> TRUE]
         \in MachineRow
  <2>1. TRUE \in BOOLEAN
    OBVIOUS
  <2>2. QED
    BY <1>2, <2>1 DEF MachineRow
<1>4. Restore \in MachineRow
  BY <1>1, <1>3 DEF Restore
<1>5. QED
  BY <1>1, <1>4 DEF Restore, NewMachine

\* A clerk who operates has the registered machine in hand.
Holds(c) ==
    /\ registered \in DOMAIN machines /\ registered # 0 /\ request[c].machine = registered
    /\ Mine(c) = machines[registered] /\ Mine(c) \in MachineRow

\* A clerk who operates the machine holds the only one that is registered.
LEMMA ClerkHolds ==
    ASSUME ChangeoverTypes, NEW c \in Clerks, NEW op, Operates(c, op)
    PROVE  Holds(c)
<1>1. request[c].machine = registered /\ registered # 0
  BY DEF ChangeoverTypes, Operates
<1>2. machines \in Seq(MachineRow) /\ registered \in 0..Len(machines)
  BY DEF ChangeoverTypes
<1>3. registered \in DOMAIN machines /\ machines[registered] \in MachineRow
  BY <1>1, <1>2, LenProperties, ElementOfSeq
<1>4. QED
  BY <1>1, <1>3 DEF Holds, Mine

\* The request of a clerk is done.
LEMMA RequestDone ==
    ASSUME ChangeoverTypes, NEW c \in Clerks, request' = [request EXCEPT ![c] = NoRequest],
           UNCHANGED registered
    PROVE  /\ request' \in [Clerks -> Request]
           /\ \A b \in Clerks : request'[b].machine \in {0, registered'}
           /\ \A b \in Clerks : request'[b].pc = "operate" =>
                                   request'[b].machine = registered' /\ registered' # 0
<1>1. NoRequest \in Request /\ NoRequest.machine = 0 /\ NoRequest.pc = "idle"
  BY DEF NoRequest, Request
<1>2. request \in [Clerks -> Request]
  BY DEF ChangeoverTypes
<1>3. request' \in [Clerks -> Request]
  BY <1>1, <1>2
<1>4. \A b \in Clerks : request'[b] = IF b = c THEN NoRequest ELSE request[b]
  BY <1>2
<1>5. QED
  BY <1>1, <1>3, <1>4 DEF ChangeoverTypes

\* An operation leaves memory and log alike, or an access to the log has failed.
LEMMA BecomesStep ==
    ASSUME ChangeoverInv, NEW c \in Clerks, NEW op, Operates(c, op), NEW m \in MachineRow,
           Becomes(c, m), m.active = (m.state # "running")
    PROVE  /\ ChangeoverInv'
           /\ \/ lastRow' = [from |-> m.from, to |-> m.to, state |-> m.state]
              \/ lastRow' = lastRow
<1>1. ChangeoverTypes /\ Holds(c)
  BY ClerkHolds DEF ChangeoverInv
<1>2. /\ UNCHANGED <<registered, restarts>>
      /\ request' = [request EXCEPT ![c] = NoRequest]
      /\ machines' = [machines EXCEPT ![registered] = m]
      /\ \/ /\ lastRow' = [from |-> m.from, to |-> m.to, state |-> m.state]
            /\ UNCHANGED logErrors
         \/ logErrors' = logErrors + 1 /\ UNCHANGED lastRow
  BY <1>1 DEF Operates, Becomes, LogTransition, LogFails, Holds
<1>3. machines \in Seq(MachineRow) /\ registered \in DOMAIN machines /\ registered # 0
  BY <1>1 DEF ChangeoverTypes, Holds
<1>4. /\ machines' \in Seq(MachineRow) /\ Len(machines') = Len(machines)
      /\ DOMAIN machines' = DOMAIN machines
      /\ \A i \in DOMAIN machines : machines'[i] = IF i = registered THEN m ELSE machines[i]
  BY <1>2, <1>3, ExceptSeq, LenProperties
<1>5. /\ lastRow' \in LoggedRow /\ logErrors' \in Nat
      /\ logErrors' = 0 => logErrors = 0
                          /\ lastRow' = [from |-> m.from, to |-> m.to, state |-> m.state]
  <2>1. [from |-> m.from, to |-> m.to, state |-> m.state] \in LoggedRow
    BY DEF MachineRow, LoggedRow
  <2>2. QED
    BY <1>1, <1>2, <2>1 DEF ChangeoverTypes
<1>6. ChangeoverTypes'
  <2>1. /\ request' \in [Clerks -> Request]
        /\ \A b \in Clerks : request'[b].machine \in {0, registered'}
        /\ \A b \in Clerks : request'[b].pc = "operate" =>
                                request'[b].machine = registered' /\ registered' # 0
    BY <1>1, <1>2, RequestDone
  <2>2. \A i \in DOMAIN machines' : machines'[i].active => machines'[i].state # "running"
    BY <1>1, <1>4 DEF ChangeoverTypes
  <2>3. registered' \in 0..Len(machines')
    BY <1>1, <1>2, <1>4 DEF ChangeoverTypes
  <2>4. QED
    BY <1>4, <1>5, <2>1, <2>2, <2>3 DEF ChangeoverTypes
<1>7. Remembered'
  <2>1. machines'[registered'] = m
    BY <1>2, <1>3, <1>4
  <2>2. QED
    BY <1>5, <2>1 DEF Remembered
<1>8. QED
  BY <1>2, <1>6, <1>7 DEF ChangeoverInv

\* What Start, Advance and Cancel make of the machine, and how the log follows.
LEMMA OperationStep ==
    ASSUME ChangeoverInv, NEW c \in Clerks, Start(c) \/ Advance(c) \/ Cancel(c)
    PROVE  ChangeoverInv' /\ (logErrors = 0 /\ lastRow' # lastRow => Follows(lastRow, lastRow'))
<1>1. ChangeoverTypes /\ Remembered /\ lastRow \in LoggedRow
  BY DEF ChangeoverInv, ChangeoverTypes
<1>2. \A op : Operates(c, op) =>
         /\ Holds(c)
         /\ logErrors = 0 =>
               /\ Mine(c).active = (lastRow.state # "running")
               /\ Mine(c).active => /\ Mine(c).from = lastRow.from
                                    /\ Mine(c).to = lastRow.to
                                    /\ Mine(c).state = lastRow.state
  BY <1>1, ClerkHolds DEF Holds, Remembered
<1>3. CASE Start(c)
  <2>1. PICK from \in JobStyles, to \in JobStyles :
           Becomes(c, [from |-> from, to |-> to, state |-> "stopping", active |-> TRUE])
    BY <1>3 DEF Start
  <2>2. PICK m : m = [from |-> from, to |-> to, state |-> "stopping", active |-> TRUE]
    OBVIOUS
  <2>3. TRUE \in BOOLEAN
    OBVIOUS
  <2>4. m \in MachineRow
    BY <2>2, <2>3 DEF MachineRow, States
  <2>5. m.active = (m.state # "running") /\ m.state = "stopping"
    BY <2>2
  <2>6. ChangeoverInv' /\ (lastRow' = lastRow \/ lastRow'.state = "stopping")
    <3>1. Operates(c, "start") /\ Becomes(c, m)
      BY <1>3, <2>1, <2>2 DEF Start
    <3>2. /\ ChangeoverInv'
          /\ \/ lastRow' = [from |-> m.from, to |-> m.to, state |-> m.state]
             \/ lastRow' = lastRow
      BY <2>4, <2>5, <3>1, BecomesStep
    <3>3. QED
      BY <2>5, <3>2
  <2>7. logErrors = 0 => lastRow.state = "running"
    BY <1>2, <1>3 DEF Start
  <2>8. QED
    BY <2>6, <2>7 DEF Follows
<1>4. CASE Advance(c)
  <2>1. Operates(c, "advance") /\ Mine(c).active
    BY <1>4 DEF Advance
  <2>2. Mine(c) \in MachineRow /\ Mine(c).state \in States \ {"running"}
    BY <1>1, <1>2, <2>1 DEF Holds, ChangeoverTypes, MachineRow
  <2>3. PICK next \in States : next = NextState(Mine(c).state)
    BY <2>2, NextStates
  <2>4. PICK active \in BOOLEAN : active = (next # "running")
    OBVIOUS
  <2>5. PICK n : n = [Mine(c) EXCEPT !.state = next]
    OBVIOUS
  <2>6. n \in MachineRow /\ n.state = next /\ n.from = Mine(c).from /\ n.to = Mine(c).to
    BY <2>2, <2>3, <2>5 DEF MachineRow
  <2>7. PICK m : m = [n EXCEPT !.active = active]
    OBVIOUS
  <2>8. /\ m \in MachineRow /\ m.active = active /\ m.state = next
        /\ m.from = n.from /\ m.to = n.to
    BY <2>4, <2>6, <2>7 DEF MachineRow
  <2>9. Becomes(c, m)
    BY <1>4, <2>3, <2>4, <2>5, <2>7 DEF Advance
  <2>10. /\ ChangeoverInv'
         /\ \/ lastRow' = [from |-> m.from, to |-> m.to, state |-> m.state]
            \/ lastRow' = lastRow
    BY <2>1, <2>4, <2>8, <2>9, BecomesStep
  <2>11. ASSUME logErrors = 0, lastRow' # lastRow PROVE Follows(lastRow, lastRow')
    <3>1. /\ lastRow.state # "running" /\ Mine(c).from = lastRow.from
          /\ Mine(c).to = lastRow.to /\ Mine(c).state = lastRow.state
      BY <1>2, <2>1, <2>11
    <3>2. lastRow' = [from |-> lastRow.from, to |-> lastRow.to,
                      state |-> NextState(lastRow.state)]
      BY <2>3, <2>6, <2>8, <2>10, <2>11, <3>1
    <3>3. [lastRow EXCEPT !.state = NextState(@)]
             = [from |-> lastRow.from, to |-> lastRow.to, state |-> NextState(lastRow.state)]
      BY <1>1 DEF LoggedRow
    <3>4. QED
      BY <3>1, <3>2, <3>3 DEF Follows
  <2>12. QED
    BY <2>10, <2>11
<1>5. CASE Cancel(c)
  <2>1. Operates(c, "cancel") /\ Mine(c).active /\ Becomes(c, NewMachine)
    BY <1>5 DEF Cancel
  <2>2. NewMachine \in MachineRow /\ NewMachine.active = (NewMachine.state # "running")
        /\ NewMachine.from = NoStyle /\ NewMachine.to = NoStyle
        /\ NewMachine.state = "running"
    BY <1>1, RestoreTyped DEF NewMachine
  <2>3. /\ ChangeoverInv'
        /\ \/ lastRow' = NoRow
           \/ lastRow' = lastRow
    BY <2>1, <2>2, BecomesStep DEF NoRow
  <2>4. logErrors = 0 => lastRow.state # "running"
    BY <1>2, <2>1
  <2>5. QED
    BY <2>3, <2>4 DEF Follows
<1>6. QED
  BY <1>3, <1>4, <1>5

\* A machine that is made is what the log restores, or its read has failed.
LEMMA MadeIs ==
    ASSUME ChangeoverTypes, NEW before \in Seq(MachineRow), Makes(before)
    PROVE  /\ logErrors' \in Nat
           /\ \E m \in MachineRow :
                 /\ machines' = Append(before, m)
                 /\ m.active => m.state # "running"
                 /\ logErrors' = 0 =>
                       /\ m.active = (lastRow.state # "running")
                       /\ m.active => /\ m.from = lastRow.from /\ m.to = lastRow.to
                                      /\ m.state = lastRow.state
<1>1. lastRow \in LoggedRow /\ logErrors \in Nat
  BY DEF ChangeoverTypes
<1>2. CASE machines' = Append(before, Restore) /\ UNCHANGED logErrors
  <2>1. PICK m \in MachineRow : m = Restore
    BY <1>1, RestoreTyped
  <2>2. /\ m.active = (lastRow.state # "running")
        /\ m.active => /\ m.from = lastRow.from /\ m.to = lastRow.to
                       /\ m.state = lastRow.state /\ m.state # "running"
    BY <1>1, <2>1, RestoreTyped
  <2>3. QED
    BY <1>1, <1>2, <2>1, <2>2
<1>3. CASE machines' = Append(before, NewMachine) /\ LogFails
  <2>1. PICK m \in MachineRow : m = NewMachine
    BY <1>1, RestoreTyped
  <2>2. ~m.active
    BY <1>1, <2>1, RestoreTyped
  <2>3. logErrors' \in Nat /\ logErrors' # 0
    BY <1>1, <1>3 DEF LogFails
  <2>4. QED
    BY <1>3, <2>1, <2>2, <2>3
<1>4. QED
  BY <1>2, <1>3 DEF Makes

\* A clerk who finds no machine registers the one he makes.
LEMMA MakeStep ==
    ASSUME ChangeoverInv, NEW c \in Clerks, CreateMachine(c), registered = 0
    PROVE  ChangeoverInv'
<1>1. ChangeoverTypes /\ machines \in Seq(MachineRow) /\ lastRow \in LoggedRow
  BY DEF ChangeoverInv, ChangeoverTypes
<1>2. logErrors' \in Nat
  BY <1>1, MadeIs DEF CreateMachine
<1>3. PICK m \in MachineRow :
         /\ machines' = Append(machines, m)
         /\ m.active => m.state # "running"
         /\ logErrors' = 0 =>
               /\ m.active = (lastRow.state # "running")
               /\ m.active => /\ m.from = lastRow.from /\ m.to = lastRow.to
                              /\ m.state = lastRow.state
  BY <1>1, MadeIs DEF CreateMachine
<1>4. PICK n \in Nat : n = Len(machines) + 1
  BY <1>1, LenProperties
<1>5. /\ machines' = Append(machines, m) /\ registered' = n /\ n # 0 /\ Got(c, n)
      /\ UNCHANGED <<lastRow, restarts>>
  BY <1>1, <1>3, <1>4, LenProperties DEF CreateMachine
<1>6. /\ machines' \in Seq(MachineRow) /\ Len(machines') = n /\ machines'[n] = m
      /\ DOMAIN machines' = 1..n
      /\ \A i \in 1..n : i # n => i \in DOMAIN machines /\ machines'[i] = machines[i]
  BY <1>1, <1>4, <1>5, AppendProperties, LenProperties
<1>7. /\ request' \in [Clerks -> Request] /\ request'[c].machine = n
      /\ \A b \in Clerks \ {c} : request'[b] = request[b]
  <2>1. request \in [Clerks -> Request] /\ request[c] \in Request
    BY <1>1 DEF ChangeoverTypes
  <2>2. PICK r1 : r1 = [request EXCEPT ![c].pc = "operate"]
    OBVIOUS
  <2>3. r1 \in [Clerks -> Request] /\ \A b \in Clerks \ {c} : r1[b] = request[b]
    BY <2>1, <2>2 DEF Request
  <2>4. request' = [r1 EXCEPT ![c].machine = n]
    BY <1>5, <2>2 DEF Got
  <2>5. QED
    BY <1>4, <2>3, <2>4 DEF Request
<1>8. ChangeoverTypes'
  <2>1. \A i \in DOMAIN machines' : machines'[i].active => machines'[i].state # "running"
    BY <1>1, <1>3, <1>6 DEF ChangeoverTypes
  <2>2. registered' \in 0..Len(machines')
    BY <1>4, <1>5, <1>6
  <2>3. \A b \in Clerks : request'[b].machine \in {0, registered'}
    BY <1>1, <1>5, <1>7 DEF ChangeoverTypes
  <2>4. \A b \in Clerks : request'[b].pc = "operate" =>
                             request'[b].machine = registered' /\ registered' # 0
    BY <1>1, <1>5, <1>7 DEF ChangeoverTypes
  <2>5. QED
    BY <1>1, <1>2, <1>5, <1>6, <1>7, <2>1, <2>2, <2>3, <2>4 DEF ChangeoverTypes
<1>9. Remembered'
  BY <1>3, <1>5, <1>6 DEF Remembered
<1>10. QED
  BY <1>8, <1>9 DEF ChangeoverInv

\* A request that is asked for, or finds its machine, changes no machine.
LEMMA RequestStep ==
    ASSUME ChangeoverInv, NEW c \in Clerks,
           Ask(c) \/ FindMachine(c) \/ (CreateMachine(c) /\ registered # 0) \/ Refused(c)
    PROVE  ChangeoverInv'
<1>1. ChangeoverTypes /\ request \in [Clerks -> Request] /\ registered \in Nat
  <2>1. machines \in Seq(MachineRow) /\ registered \in 0..Len(machines)
    BY DEF ChangeoverInv, ChangeoverTypes
  <2>2. QED
    BY <2>1, LenProperties DEF ChangeoverInv, ChangeoverTypes
<1>2. UNCHANGED <<machines, registered, lastRow, logErrors>>
  BY DEF Ask, FindMachine, CreateMachine, Refused, Operates
<1>3. /\ request' \in [Clerks -> Request]
      /\ \A b \in Clerks : request'[b].machine \in {0, registered'}
      /\ \A b \in Clerks : request'[b].pc = "operate" =>
                              request'[b].machine = registered' /\ registered' # 0
  <2>1. CASE Refused(c)
    <3>1. request' = [request EXCEPT ![c] = NoRequest]
      BY <2>1 DEF Refused, Operates
    <3>2. QED
      BY <1>1, <1>2, <3>1, RequestDone
  <2>2. CASE Ask(c)
    <3>1. PICK r \in Request : /\ request' = [request EXCEPT ![c] = r]
                               /\ r.machine = 0 /\ r.pc = "find"
      <4>1. PICK op \in {"start", "advance", "cancel"} :
               request' = [request EXCEPT ![c] = [op |-> op, pc |-> "find", machine |-> 0]]
        BY <2>2 DEF Ask
      <4>2. [op |-> op, pc |-> "find", machine |-> 0] \in Request
        BY DEF Request
      <4>3. QED
        BY <4>1, <4>2
    <3>2. QED
      BY <1>1, <1>2, <3>1 DEF ChangeoverTypes
  <2>3. CASE (FindMachine(c) \/ CreateMachine(c)) /\ registered # 0
    <3>1. Got(c, registered)
      BY <2>3 DEF FindMachine, CreateMachine
    <3>2. PICK r1 : r1 = [request EXCEPT ![c].pc = "operate"]
      OBVIOUS
    <3>3. r1 \in [Clerks -> Request] /\ \A b \in Clerks \ {c} : r1[b] = request[b]
      BY <1>1, <3>2 DEF Request
    <3>4. request' = [r1 EXCEPT ![c].machine = registered]
      BY <3>1, <3>2 DEF Got
    <3>5. /\ request' \in [Clerks -> Request] /\ request'[c].machine = registered
          /\ \A b \in Clerks \ {c} : request'[b] = request[b]
      BY <1>1, <3>3, <3>4 DEF Request
    <3>6. QED
      BY <1>1, <1>2, <2>3, <3>5 DEF ChangeoverTypes
  <2>4. CASE FindMachine(c) /\ registered = 0
    <3>1. request' = [request EXCEPT ![c].pc = "create"]
      BY <2>4 DEF FindMachine
    <3>2. /\ request' \in [Clerks -> Request] /\ request'[c].machine = request[c].machine
          /\ request'[c].pc = "create"
          /\ \A b \in Clerks \ {c} : request'[b] = request[b]
      BY <1>1, <3>1 DEF Request
    <3>3. QED
      BY <1>1, <1>2, <3>2 DEF ChangeoverTypes
  <2>5. QED
    BY <2>1, <2>2, <2>3, <2>4
<1>4. QED
  BY <1>1, <1>2, <1>3 DEF ChangeoverInv, ChangeoverTypes, Remembered

\* A restart keeps the log, and makes the machine from it or none.
LEMMA RestartStep ==
    ASSUME ChangeoverInv, Restart
    PROVE  ChangeoverInv'
<1>1. ChangeoverTypes /\ lastRow \in LoggedRow /\ logErrors \in Nat
  BY DEF ChangeoverInv, ChangeoverTypes
<1>2. UNCHANGED lastRow /\ request' = [c \in Clerks |-> NoRequest]
  BY DEF Restart
<1>3. /\ request' \in [Clerks -> Request]
      /\ \A c \in Clerks : request'[c].machine = 0 /\ request'[c].pc = "idle"
  BY <1>2 DEF NoRequest, Request
<1>4. CASE Makes(<< >>) /\ registered' = 1
  <2> DEFINE none == << >>
  <2>1. none \in Seq(MachineRow) /\ Makes(none)
    BY <1>4
  <2> HIDE DEF none
  <2>2. PICK m \in MachineRow :
           /\ machines' = Append(none, m)
           /\ m.active => m.state # "running"
           /\ logErrors' = 0 =>
                 /\ m.active = (lastRow.state # "running")
                 /\ m.active => /\ m.from = lastRow.from /\ m.to = lastRow.to
                                /\ m.state = lastRow.state
    BY <1>1, <2>1, MadeIs
  <2>3. machines' \in Seq(MachineRow) /\ Len(machines') = 1 /\ machines'[1] = m
        /\ DOMAIN machines' = {1}
    <3>1. machines' = <<m>>
      BY <2>2 DEF none
    <3>2. QED
      BY <3>1
  <2>4. \A i \in DOMAIN machines' : machines'[i].active => machines'[i].state # "running"
    <3>1. m.active => m.state # "running"
      BY <2>2
    <3>2. QED
      BY <2>3, <3>1
  <2>5. ChangeoverTypes'
    <3>1. logErrors' \in Nat
      BY <1>1, <2>1, MadeIs
    <3>2. QED
      BY <1>1, <1>2, <1>3, <1>4, <2>3, <2>4, <3>1 DEF ChangeoverTypes
  <2>6. Remembered'
    BY <1>2, <1>4, <2>2, <2>3 DEF Remembered
  <2>7. QED
    BY <2>5, <2>6 DEF ChangeoverInv
<1>5. CASE machines' = << >> /\ registered' = 0 /\ UNCHANGED logErrors
  <2>1. machines' \in Seq(MachineRow) /\ Len(machines') = 0 /\ DOMAIN machines' = {}
    BY <1>5
  <2>2. QED
    BY <1>1, <1>2, <1>3, <1>5, <2>1 DEF ChangeoverInv, ChangeoverTypes, Remembered
<1>6. QED
  BY <1>4, <1>5 DEF Restart

\* Every step keeps the invariant, and a row logged while no access to the log
\* has failed follows the row before it.
LEMMA ChangeoverStep ==
    ASSUME ChangeoverInv, [ChangeoverNext]_changeoverVars
    PROVE  /\ ChangeoverInv'
           /\ logErrors = 0 /\ lastRow' # lastRow => Follows(lastRow, lastRow')
<1>1. CASE Restart
  BY <1>1, RestartStep DEF Restart
<1>2. ASSUME NEW c \in Clerks, CreateMachine(c), registered = 0
      PROVE  ChangeoverInv' /\ UNCHANGED lastRow
  BY <1>2, MakeStep DEF CreateMachine
<1>3. ASSUME NEW c \in Clerks, Ask(c) \/ FindMachine(c)
                               \/ (CreateMachine(c) /\ registered # 0) \/ Refused(c)
      PROVE  ChangeoverInv' /\ UNCHANGED lastRow
  BY <1>3, RequestStep DEF Ask, FindMachine, CreateMachine, Refused
<1>4. ASSUME NEW c \in Clerks, Start(c) \/ Advance(c) \/ Cancel(c)
      PROVE  ChangeoverInv'
             /\ (logErrors = 0 /\ lastRow' # lastRow => Follows(lastRow, lastRow'))
  BY <1>4, OperationStep
<1>5. CASE UNCHANGED changeoverVars
  <2>1. UNCHANGED <<machines, registered, request, lastRow, logErrors>>
    BY <1>5 DEF changeoverVars
  <2>2. QED
    BY <2>1 DEF ChangeoverInv, ChangeoverTypes, Remembered
<1>6. QED
  BY <1>1, <1>2, <1>3, <1>4, <1>5 DEF ChangeoverNext

\* The edge starts with no machine and an empty log.
LEMMA ChangeoverStart ==
    ASSUME ChangeoverInit
    PROVE  ChangeoverInv
<1>1. lastRow \in LoggedRow
  BY DEF ChangeoverInit, NoRow, LoggedRow, States
<1>2. request \in [Clerks -> Request] /\ \A c \in Clerks : request[c].pc = "idle"
                                                          /\ request[c].machine = 0
  BY DEF ChangeoverInit, NoRequest, Request
<1>3. machines = << >> /\ registered = 0 /\ logErrors = 0
  BY DEF ChangeoverInit
<1>4. QED
  BY <1>1, <1>2, <1>3 DEF ChangeoverInv, ChangeoverTypes, Remembered

\* A restart at any moment finds the changeover where it stands.
THEOREM LogRemembers == ChangeoverSpec => []LogIsMemory
<1>1. ChangeoverInit => ChangeoverInv
  BY ChangeoverStart
<1>2. ChangeoverInv /\ [ChangeoverNext]_changeoverVars => ChangeoverInv'
  BY ChangeoverStep
<1>3. ChangeoverInv => LogIsMemory
  <2> SUFFICES ASSUME ChangeoverInv PROVE LogIsMemory
    OBVIOUS
  <2>1. \A c \in Clerks : request[c].pc = "operate" => request[c].machine = registered
    BY DEF ChangeoverInv, ChangeoverTypes
  <2>2. ASSUME logErrors = 0, registered # 0
        PROVE  /\ machines[registered].active = Restore.active
               /\ machines[registered].active => machines[registered] = Restore
    <3>1. PICK m \in MachineRow : m = machines[registered]
      <4>1. machines \in Seq(MachineRow) /\ registered \in 1..Len(machines)
        BY <2>2 DEF ChangeoverInv, ChangeoverTypes
      <4>2. QED
        BY <4>1
    <3>2. /\ m.active = (lastRow.state # "running")
          /\ m.active => m.from = lastRow.from /\ m.to = lastRow.to /\ m.state = lastRow.state
      BY <2>2, <3>1 DEF ChangeoverInv, Remembered
    <3>3. lastRow \in LoggedRow
      BY DEF ChangeoverInv, ChangeoverTypes
    <3>4. m.active = Restore.active
      BY <3>2, <3>3, RestoreTyped
    <3>5. ASSUME m.active PROVE m = Restore
      <4>1. PICK r \in MachineRow : r = Restore
        BY <3>3, RestoreTyped
      <4>2. r.active = m.active /\ r.from = m.from /\ r.to = m.to /\ r.state = m.state
        BY <3>2, <3>3, <3>4, <3>5, <4>1, RestoreTyped
      <4>3. QED
        BY <4>1, <4>2 DEF MachineRow
    <3>6. QED
      BY <3>1, <3>4, <3>5
  <2>3. QED
    BY <2>1, <2>2 DEF LogIsMemory
<1>4. QED
  BY <1>1, <1>2, <1>3, PTL DEF ChangeoverSpec

\* The log tells changeovers without a gap, as long as every row can be written
\* and the log be read.
THEOREM LogTold == ChangeoverSpec => LogTellsChangeovers
<1>1. ChangeoverInit => ChangeoverInv
  BY ChangeoverStart
<1>2. ChangeoverInv /\ [ChangeoverNext]_changeoverVars =>
         ChangeoverInv'
         /\ [logErrors = 0 /\ lastRow' # lastRow => Follows(lastRow, lastRow')]_changeoverVars
  BY ChangeoverStep
<1>3. QED
  BY <1>1, <1>2, PTL DEF ChangeoverSpec, LogTellsChangeovers

-----------------------------------------------------------------------------
(* Manifests.                                                              *)

ItemRow == [qty : Quantities \cup {0}, lot : BOOLEAN]
Correction == [item : ItemIds, qty : Quantities \cup {0}]
Asked == [at : {"idle", "log"}, kind : Kinds, item : 0..MaxItems, qty : Quantities \cup {0}]

ManifestTypes ==
    /\ items \in [ItemIds -> ItemRow] /\ lastItem \in 0..MaxItems
    /\ asked \in [Clients -> Asked]
    /\ \A c \in Clients : asked[c].at = "log" => asked[c].item \in ItemIds
    /\ corrections \in Seq(Correction)

Awaited(c, i) == asked[c].at = "log" /\ asked[c].item = i

Ours(i) == \E k \in DOMAIN corrections : corrections[k].item = i

\* The last row of item i, if there is one, says q.
Tells(i, q) ==
    \/ ~Ours(i) /\ q = 0
    \/ \E k \in DOMAIN corrections :
          /\ corrections[k].item = i /\ corrections[k].qty = q
          /\ \A j \in DOMAIN corrections : corrections[j].item = i => j <= k

\* An item that was never inserted is in nobody's hands.
Fresh(i) ==
    i > lastItem => items[i] = Absent /\ ~Ours(i) /\ \A c \in Clients : ~Awaited(c, i)

\* An undisputed item has the quantity of the correction that is to be logged,
\* or of the last one that was.
Told(i) ==
    /\ \A c, d \in Clients : Awaited(c, i) /\ Awaited(d, i) => c = d
    /\ \A c \in Clients : Awaited(c, i) => items[i].qty = asked[c].qty
    /\ ~Pending(i) => Tells(i, items[i].qty)

ManifestInv ==
    /\ ManifestTypes
    /\ \A i \in ItemIds : Fresh(i) /\ (i \notin disputed => Told(i))

\* A change of one item leaves the others as they are.
OnlyItem(i) ==
    /\ \A j \in ItemIds \ {i} : items'[j] = items[j]
    /\ disputed \subseteq disputed' /\ UNCHANGED corrections

\* A step that changes one item keeps the invariant of the others.
LEMMA OthersKept ==
    ASSUME ManifestInv, NEW i, OnlyItem(i), lastItem' \in Nat, lastItem <= lastItem',
           \A j \in ItemIds \ {i}, c \in Clients : Awaited(c, j)' <=> Awaited(c, j),
           \A j \in ItemIds \ {i}, c \in Clients : Awaited(c, j) => asked'[c].qty = asked[c].qty
    PROVE  \A j \in ItemIds \ {i} : (Fresh(j) /\ (j \notin disputed => Told(j)))'
<1> SUFFICES ASSUME NEW j \in ItemIds \ {i}
             PROVE  Fresh(j)' /\ (j \notin disputed' => Told(j)')
  OBVIOUS
<1>1. Fresh(j) /\ (j \notin disputed => Told(j)) /\ lastItem \in Nat /\ j \in Nat
  BY ManifestAssumption DEF ManifestInv, ManifestTypes, ItemIds
<1>2. (Ours(j)' <=> Ours(j)) /\ \A q : Tells(j, q)' <=> Tells(j, q)
  BY DEF OnlyItem, Ours, Tells
<1>3. items'[j] = items[j] /\ (j \notin disputed' => j \notin disputed)
  BY DEF OnlyItem
<1>4. Fresh(j)'
  BY <1>1, <1>2, <1>3 DEF Fresh
<1>5. ASSUME j \notin disputed' PROVE Told(j)'
  <2>1. Told(j)
    BY <1>1, <1>3, <1>5
  <2>2. Pending(j)' <=> Pending(j)
    BY DEF Pending, Awaited
  <2>3. \A q : q = items[j].qty => (Tells(j, q)' <=> Tells(j, q))
    BY <1>2
  <2>4. ~Pending(j)' => Tells(j, items[j].qty)'
    BY <1>2, <1>3, <2>1, <2>2 DEF Told, Tells, Ours, OnlyItem
  <2>5. QED
    BY <1>3, <2>1, <2>4 DEF Told
<1>6. QED
  BY <1>4, <1>5

\* An item overwritten, deleted or left alone, because it is not there.
LEMMA OverwriteTyped ==
    ASSUME ManifestTypes, NEW i \in ItemIds, NEW n \in ItemRow
    PROVE  /\ Overwritten(i, n) \in [ItemIds -> ItemRow]
           /\ \A j \in ItemIds \ {i} : Overwritten(i, n)[j] = items[j]
           /\ Overwritten(i, n)[i] = IF items[i] = Absent THEN Absent ELSE n
BY DEF Overwritten, ManifestTypes

\* The rows that the statements write are rows of the table.
LEMMA AbsentTyped ==
    /\ Absent \in ItemRow /\ Absent.qty = 0
    /\ \A q \in Quantities \cup {0}, lot \in BOOLEAN : [qty |-> q, lot |-> lot] \in ItemRow
<1>1. FALSE \in BOOLEAN /\ 0 \in Quantities \cup {0}
  OBVIOUS
<1>2. QED
  BY <1>1 DEF Absent, ItemRow

\* What a correction does to its item, before its row is logged.
LEMMA CorrectionIs ==
    ASSUME ManifestInv, NEW c \in Clients, NEW kind \in Kinds, NEW i \in ItemIds,
           NEW q \in Quantities, ApplyCorrection(c, kind, i, q)
    PROVE  \E r \in Asked :
              /\ asked[c].at = "idle" /\ asked' = [asked EXCEPT ![c] = r]
              /\ r.at = "log" /\ r.item = i
              /\ items' \in [ItemIds -> ItemRow] /\ OnlyItem(i)
              /\ lastItem' \in 0..MaxItems /\ lastItem <= lastItem' /\ i <= lastItem'
              /\ i \notin disputed' => items'[i].qty = r.qty /\ ~Pending(i)
<1>1. /\ items \in [ItemIds -> ItemRow] /\ lastItem \in 0..MaxItems /\ MaxItems \in Nat
      /\ i \in Nat /\ i <= MaxItems /\ ManifestTypes
  BY ManifestAssumption DEF ManifestInv, ManifestTypes, ItemIds
<1>2. PICK p : p = IF kind = "remove_item" THEN 0 ELSE q
  OBVIOUS
<1>3. PICK r : r = [at |-> "log", kind |-> kind, item |-> i, qty |-> p]
  OBVIOUS
<1>4. r \in Asked /\ r.at = "log" /\ r.item = i /\ r.qty = p
  BY <1>1, <1>2, <1>3 DEF Asked
<1>5. asked[c].at = "idle" /\ asked' = [asked EXCEPT ![c] = r] /\ UNCHANGED corrections
  BY <1>2, <1>3 DEF ApplyCorrection
<1>6. /\ disputed' = disputed \cup
           (IF Pending(i) \/ (kind = "adjust_qty" /\ items[i] = Absent) THEN {i} ELSE {})
  BY DEF ApplyCorrection, Dispute
<1>7. FALSE \in BOOLEAN
  OBVIOUS
<1>8. PICK n : n = [qty |-> q, lot |-> FALSE]
  OBVIOUS
<1>9. n \in ItemRow /\ n.qty = q /\ Absent \in ItemRow /\ Absent.qty = 0
  BY <1>7, <1>8, AbsentTyped
<1>10. CASE kind = "add_item"
  <2>1. i = lastItem + 1 /\ lastItem' = lastItem + 1 /\ items' = [items EXCEPT ![i] = n]
    BY <1>8, <1>10 DEF ApplyCorrection, CreateManifestItem
  <2>2. items' \in [ItemIds -> ItemRow] /\ items'[i].qty = q
        /\ \A j \in ItemIds \ {i} : items'[j] = items[j]
    BY <1>1, <1>9, <2>1
  <2>3. p = q
    BY <1>2, <1>10
  <2>4. i \notin disputed' => ~Pending(i)
    BY <1>6
  <2>5. OnlyItem(i)
    BY <1>5, <1>6, <2>2 DEF OnlyItem
  <2>6. lastItem' \in 0..MaxItems /\ lastItem <= lastItem' /\ i <= lastItem'
    BY <1>1, <2>1
  <2>7. i \notin disputed' => items'[i].qty = r.qty /\ ~Pending(i)
    BY <1>4, <2>2, <2>3, <2>4
  <2>8. QED
    BY <1>4, <1>5, <2>2, <2>5, <2>6, <2>7
<1>11. CASE kind = "remove_item"
  <2>1. i <= lastItem /\ items' = Overwritten(i, Absent) /\ lastItem' = lastItem
    BY <1>11 DEF ApplyCorrection
  <2>2. items' \in [ItemIds -> ItemRow] /\ items'[i] = Absent
        /\ \A j \in ItemIds \ {i} : items'[j] = items[j]
    BY <1>1, <1>9, <2>1, OverwriteTyped
  <2>3. p = 0
    BY <1>2, <1>11
  <2>4. i \notin disputed' => ~Pending(i)
    BY <1>6
  <2>5. OnlyItem(i)
    BY <1>5, <1>6, <2>2 DEF OnlyItem
  <2>6. lastItem' \in 0..MaxItems /\ lastItem <= lastItem' /\ i <= lastItem'
    BY <1>1, <2>1
  <2>7. i \notin disputed' => items'[i].qty = r.qty /\ ~Pending(i)
    BY <1>4, <1>9, <2>2, <2>3, <2>4
  <2>8. QED
    BY <1>4, <1>5, <2>2, <2>5, <2>6, <2>7
<1>12. CASE kind = "adjust_qty"
  <2>1. i <= lastItem /\ items' = Overwritten(i, n) /\ lastItem' = lastItem
    BY <1>8, <1>12 DEF ApplyCorrection
  <2>2. items' \in [ItemIds -> ItemRow] /\ (items[i] # Absent => items'[i] = n)
        /\ \A j \in ItemIds \ {i} : items'[j] = items[j]
    BY <1>1, <1>9, <2>1, OverwriteTyped
  <2>3. p = q
    BY <1>2, <1>12
  <2>4. i \notin disputed' => ~Pending(i) /\ items[i] # Absent
    BY <1>6, <1>12
  <2>5. OnlyItem(i)
    BY <1>5, <1>6, <2>2 DEF OnlyItem
  <2>6. lastItem' \in 0..MaxItems /\ lastItem <= lastItem' /\ i <= lastItem'
    BY <1>1, <2>1
  <2>7. i \notin disputed' => items'[i].qty = r.qty /\ ~Pending(i)
    BY <1>4, <1>9, <2>2, <2>3, <2>4
  <2>8. QED
    BY <1>4, <1>5, <2>2, <2>5, <2>6, <2>7
<1>13. QED
  BY <1>10, <1>11, <1>12 DEF Kinds

\* A correction that has changed its item, but is not logged, keeps the
\* invariant: its item is pending or disputed.
LEMMA CorrectionStep ==
    ASSUME ManifestInv, NEW c \in Clients, NEW kind \in Kinds, NEW i \in ItemIds,
           NEW q \in Quantities, ApplyCorrection(c, kind, i, q)
    PROVE  ManifestInv'
<1>1. PICK r \in Asked :
         /\ asked[c].at = "idle" /\ asked' = [asked EXCEPT ![c] = r]
         /\ r.at = "log" /\ r.item = i
         /\ items' \in [ItemIds -> ItemRow] /\ OnlyItem(i)
         /\ lastItem' \in 0..MaxItems /\ lastItem <= lastItem' /\ i <= lastItem'
         /\ i \notin disputed' => items'[i].qty = r.qty /\ ~Pending(i)
  BY CorrectionIs
<1>2. asked \in [Clients -> Asked] /\ corrections' = corrections
  BY <1>1 DEF ManifestInv, ManifestTypes, OnlyItem
<1>3. /\ asked' \in [Clients -> Asked] /\ asked'[c] = r
      /\ \A d \in Clients \ {c} : asked'[d] = asked[d]
  BY <1>1, <1>2
<1>4. lastItem' \in Nat
  BY <1>1, ManifestAssumption
<1>5. /\ \A j \in ItemIds \ {i}, d \in Clients : Awaited(d, j)' <=> Awaited(d, j)
      /\ \A j \in ItemIds \ {i}, d \in Clients : Awaited(d, j) => asked'[d].qty = asked[d].qty
  BY <1>1, <1>3 DEF Awaited
<1>6. \A j \in ItemIds \ {i} : (Fresh(j) /\ (j \notin disputed => Told(j)))'
  BY <1>1, <1>4, <1>5, OthersKept
<1>7. Fresh(i)'
  BY <1>1, <1>4 DEF Fresh, ItemIds
<1>8. ASSUME i \notin disputed' PROVE Told(i)'
  <2>1. items'[i].qty = r.qty /\ \A d \in Clients : ~Awaited(d, i)
    BY <1>1, <1>8 DEF Pending, Awaited
  <2>2. Awaited(c, i)' /\ \A d \in Clients \ {c} : ~Awaited(d, i)'
    BY <1>1, <1>3, <2>1 DEF Awaited
  <2>3. Pending(i)'
    BY <2>2 DEF Pending, Awaited
  <2>4. QED
    BY <1>3, <2>1, <2>2, <2>3 DEF Told
<1>9. ManifestTypes'
  <2>1. \A d \in Clients : asked'[d].at = "log" => asked'[d].item \in ItemIds
    BY <1>1, <1>3 DEF ManifestInv, ManifestTypes
  <2>2. QED
    BY <1>1, <1>2, <1>3, <2>1 DEF ManifestInv, ManifestTypes
<1>10. QED
  BY <1>6, <1>7, <1>8, <1>9 DEF ManifestInv

\* A row appended is the last of its item, and of no other.
LEMMA RowAppended ==
    ASSUME corrections \in Seq(Correction), NEW row \in Correction,
           corrections' = Append(corrections, row)
    PROVE  /\ corrections' \in Seq(Correction)
           /\ Tells(row.item, row.qty)' /\ Ours(row.item)'
           /\ \A j \in ItemIds \ {row.item} :
                 /\ Ours(j)' <=> Ours(j)
                 /\ \A q : q = items[j].qty => (Tells(j, q) => Tells(j, q)')
<1>1. PICK n \in Nat : n = Len(corrections) /\ DOMAIN corrections = 1..n
  BY LenProperties
<1>2. /\ corrections' \in Seq(Correction) /\ DOMAIN corrections' = 1 .. n + 1
      /\ corrections'[n + 1] = row
      /\ \A k \in 1..n : corrections'[k] = corrections[k]
  BY <1>1, AppendProperties, LenProperties
<1>3. \A k \in 1 .. n + 1 : k \in 1..n \/ k = n + 1
  BY <1>1
<1>4. n + 1 \in 1 .. n + 1 /\ \A k \in 1 .. n + 1 : k <= n + 1
  BY <1>1
<1>5. Tells(row.item, row.qty)' /\ Ours(row.item)'
  BY <1>2, <1>4 DEF Tells, Ours
<1>6. ASSUME NEW j \in ItemIds \ {row.item} PROVE Ours(j)' <=> Ours(j)
  BY <1>1, <1>2, <1>3 DEF Ours
<1>7. ASSUME NEW j \in ItemIds \ {row.item}, NEW q, Tells(j, q) PROVE Tells(j, q)'
  BY <1>1, <1>2, <1>3, <1>6, <1>7 DEF Tells
<1>8. QED
  BY <1>2, <1>5, <1>6, <1>7

\* The row of a correction tells what its item now holds.
LEMMA LogStep ==
    ASSUME ManifestInv, NEW c \in Clients, LogCorrection(c) \/ LoseCorrection(c)
    PROVE  ManifestInv'
<1>1. PICK i, q : i = asked[c].item /\ q = asked[c].qty
  OBVIOUS
<1>2. /\ asked[c].at = "log" /\ Awaited(c, i) /\ UNCHANGED <<items, lastItem>>
      /\ asked' = [asked EXCEPT ![c] = Quiet]
  BY <1>1 DEF LogCorrection, LoseCorrection, Awaited
<1>3. /\ asked \in [Clients -> Asked] /\ corrections \in Seq(Correction)
      /\ asked[c] \in Asked /\ i \in 0..MaxItems /\ q \in Quantities \cup {0}
  BY <1>1 DEF ManifestInv, ManifestTypes, Asked
<1>4. i \in ItemIds /\ Quiet \in Asked /\ Quiet.at = "idle"
  BY <1>1, <1>2, ManifestAssumption DEF ManifestInv, ManifestTypes, Quiet, Asked, Kinds
<1>5. /\ asked' \in [Clients -> Asked]
      /\ \A d \in Clients : asked'[d] = IF d = c THEN Quiet ELSE asked[d]
  BY <1>2, <1>3, <1>4
<1>6. \A d \in Clients, j \in ItemIds : Awaited(d, j)' <=> d # c /\ Awaited(d, j)
  BY <1>4, <1>5 DEF Awaited
<1>7. \A d \in Clients, j \in ItemIds : Awaited(d, j)' => asked'[d].qty = asked[d].qty
  BY <1>5, <1>6
<1>8. corrections' \in Seq(Correction) /\ disputed \subseteq disputed'
      /\ (i \notin disputed' => Tells(i, q)')
      /\ \A j \in ItemIds \ {i} :
            /\ Ours(j)' <=> Ours(j)
            /\ \A p : p = items[j].qty => (Tells(j, p) => Tells(j, p)')
  <2>1. CASE LogCorrection(c)
    <3>1. PICK row : row = [item |-> i, qty |-> q]
      OBVIOUS
    <3>2. row \in Correction /\ row.item = i /\ row.qty = q
      BY <1>3, <1>4, <3>1 DEF Correction
    <3>3. corrections' = Append(corrections, row) /\ disputed' = disputed
      BY <1>1, <2>1, <3>1 DEF LogCorrection
    <3>4. QED
      BY <1>3, <3>2, <3>3, RowAppended
  <2>2. CASE LoseCorrection(c)
    <3>1. corrections' = corrections /\ disputed' = disputed \cup {i}
      BY <1>1, <2>2 DEF LoseCorrection, Dispute
    <3>2. QED
      BY <1>3, <3>1 DEF Ours, Tells
  <2>3. QED
    BY <2>1, <2>2
<1>9. ASSUME NEW j \in ItemIds PROVE Fresh(j)' /\ (j \notin disputed' => Told(j)')
  <2>1. Fresh(j) /\ (j \notin disputed => Told(j))
    BY DEF ManifestInv
  <2>2. CASE j = i
    <3>1. ~(j > lastItem)
      BY <1>2, <2>1, <2>2 DEF Fresh
    <3>2. Fresh(j)'
      BY <1>2, <3>1 DEF Fresh
    <3>3. ASSUME j \notin disputed' PROVE Told(j)'
      <4>1. Told(j) /\ Tells(i, q)'
        BY <1>8, <2>1, <2>2, <3>3
      <4>2. items[j].qty = q /\ \A d \in Clients : Awaited(d, j) => d = c
        BY <1>1, <1>2, <2>2, <4>1 DEF Told
      <4>3. \A d \in Clients : ~Awaited(d, j)'
        BY <1>6, <4>2
      <4>4. Tells(j, items[j].qty)'
        BY <1>2, <2>2, <4>1, <4>2 DEF Tells, Ours
      <4>5. QED
        BY <4>3, <4>4 DEF Told
    <3>4. QED
      BY <3>2, <3>3
  <2>3. CASE j # i
    <3>1. \A d \in Clients : Awaited(d, j)' <=> Awaited(d, j)
      BY <1>2, <1>6, <2>3 DEF Awaited
    <3>2. Fresh(j)'
      BY <1>2, <1>8, <2>1, <2>3, <3>1 DEF Fresh
    <3>3. ASSUME j \notin disputed' PROVE Told(j)'
      <4>1. Told(j)
        BY <1>8, <2>1, <3>3
      <4>2. Pending(j)' <=> Pending(j)
        BY <3>1 DEF Pending, Awaited
      <4>3. Tells(j, items[j].qty) => Tells(j, items[j].qty)'
        <5>1. PICK p : p = items[j].qty
          OBVIOUS
        <5>2. Tells(j, p) => Tells(j, p)'
          BY <1>8, <2>3, <5>1
        <5>3. QED
          BY <1>2, <5>1, <5>2 DEF Tells, Ours
      <4>4. QED
        BY <1>2, <1>7, <3>1, <4>1, <4>2, <4>3 DEF Told
    <3>4. QED
      BY <3>2, <3>3
  <2>4. QED
    BY <2>2, <2>3
<1>10. ManifestTypes'
  <2>1. \A d \in Clients : asked'[d].at = "log" => asked'[d].item \in ItemIds
    BY <1>4, <1>5 DEF ManifestInv, ManifestTypes
  <2>2. QED
    BY <1>2, <1>5, <1>8, <2>1 DEF ManifestInv, ManifestTypes
<1>11. QED
  BY <1>9, <1>10 DEF ManifestInv

\* A plain call leaves the item it changes disputed.
LEMMA PlainStep ==
    ASSUME ManifestInv, NEW i \in ItemIds,
           OnlyItem(i), i \in disputed', UNCHANGED asked,
           items' \in [ItemIds -> ItemRow],
           lastItem' \in 0..MaxItems, lastItem <= lastItem', i <= lastItem'
    PROVE  ManifestInv'
<1>1. lastItem' \in Nat
  BY ManifestAssumption
<1>2. /\ \A j \in ItemIds \ {i}, c \in Clients : Awaited(c, j)' <=> Awaited(c, j)
      /\ \A j \in ItemIds \ {i}, c \in Clients : Awaited(c, j) => asked'[c].qty = asked[c].qty
  BY DEF Awaited
<1>3. \A j \in ItemIds \ {i} : (Fresh(j) /\ (j \notin disputed => Told(j)))'
  BY <1>1, <1>2, OthersKept
<1>4. Fresh(i)'
  BY <1>1 DEF Fresh, ItemIds
<1>5. ManifestTypes'
  BY DEF ManifestInv, ManifestTypes, OnlyItem
<1>6. QED
  BY <1>3, <1>4, <1>5 DEF ManifestInv

\* Each of the three plain calls is such a step.
LEMMA PlainCalls ==
    ASSUME ManifestInv,
           \/ \E q \in Quantities : ApiCreateManifestItem(q)
           \/ \E i \in ItemIds : \/ ApiDeleteManifestItem(i)
                               \/ \E q \in Quantities : ApiUpdateManifestItem(i, q)
    PROVE  ManifestInv'
<1>1. /\ items \in [ItemIds -> ItemRow] /\ lastItem \in 0..MaxItems /\ MaxItems \in Nat
      /\ ManifestTypes
  BY ManifestAssumption DEF ManifestInv, ManifestTypes
<1>2. TRUE \in BOOLEAN
  OBVIOUS
<1>3. CASE \E q \in Quantities : ApiCreateManifestItem(q)
  <2>1. PICK q \in Quantities : ApiCreateManifestItem(q)
    BY <1>3
  <2>2. PICK n : n = [qty |-> q, lot |-> TRUE]
    OBVIOUS
  <2>3. n \in ItemRow
    BY <1>2, <2>2, AbsentTyped
  <2>4. PICK i : i = lastItem + 1
    OBVIOUS
  <2>5. /\ lastItem < MaxItems /\ lastItem' = i /\ items' = [items EXCEPT ![i] = n]
        /\ disputed' = disputed \cup {i} /\ UNCHANGED <<asked, corrections>>
    BY <2>1, <2>2, <2>4 DEF ApiCreateManifestItem, PlainCall, CreateManifestItem, Dispute
  <2>6. i \in ItemIds /\ lastItem' \in 0..MaxItems /\ lastItem <= lastItem' /\ i <= lastItem'
    BY <1>1, <2>4, <2>5 DEF ItemIds
  <2>7. items' \in [ItemIds -> ItemRow] /\ OnlyItem(i) /\ i \in disputed'
    BY <1>1, <2>3, <2>5, <2>6 DEF OnlyItem
  <2>8. QED
    BY <2>5, <2>6, <2>7, PlainStep
<1>4. ASSUME NEW i \in ItemIds, NEW n \in ItemRow, PlainCall, i <= lastItem,
             items' = Overwritten(i, n), Dispute({i}), UNCHANGED lastItem
      PROVE  ManifestInv'
  <2>1. /\ items' \in [ItemIds -> ItemRow]
        /\ \A j \in ItemIds \ {i} : items'[j] = items[j]
    BY <1>1, <1>4, OverwriteTyped
  <2>2. OnlyItem(i) /\ i \in disputed' /\ UNCHANGED asked
    BY <1>4, <2>1 DEF OnlyItem, Dispute, PlainCall
  <2>3. lastItem' \in 0..MaxItems /\ lastItem <= lastItem' /\ i <= lastItem'
    BY <1>1, <1>4
  <2>4. QED
    BY <2>1, <2>2, <2>3, PlainStep
<1>5. CASE \E i \in ItemIds : ApiDeleteManifestItem(i)
  BY <1>4, <1>5, AbsentTyped DEF ApiDeleteManifestItem
<1>6. CASE \E i \in ItemIds, q \in Quantities : ApiUpdateManifestItem(i, q)
  <2>1. PICK i \in ItemIds, q \in Quantities : ApiUpdateManifestItem(i, q)
    BY <1>6
  <2>2. PICK n : n = [qty |-> q, lot |-> TRUE]
    OBVIOUS
  <2>3. n \in ItemRow
    BY <1>2, <2>2, AbsentTyped
  <2>4. QED
    BY <1>4, <2>1, <2>2, <2>3 DEF ApiUpdateManifestItem
<1>7. QED
  BY <1>3, <1>5, <1>6

\* Every step keeps the invariant of the manifest.
LEMMA ManifestStep ==
    ManifestInv /\ [ManifestNext]_manifestVars => ManifestInv'
<1> SUFFICES ASSUME ManifestInv, [ManifestNext]_manifestVars PROVE ManifestInv'
  OBVIOUS
<1>1. CASE UNCHANGED manifestVars
  <2>1. UNCHANGED <<items, lastItem, asked, corrections, disputed>>
    BY <1>1 DEF manifestVars
  <2>2. ManifestTypes'
    BY <2>1 DEF ManifestInv, ManifestTypes
  <2>3. \A i \in ItemIds : Fresh(i)' <=> Fresh(i)
    BY <2>1 DEF Fresh, Ours, Awaited
  <2>4. \A i \in ItemIds : Told(i)' <=> Told(i)
    BY <2>1 DEF Told, Tells, Ours, Awaited, Pending
  <2>5. QED
    BY <2>1, <2>2, <2>3, <2>4 DEF ManifestInv
<1>2. CASE \E c \in Clients, k \in Kinds, i \in ItemIds, q \in Quantities :
             ApplyCorrection(c, k, i, q)
  BY <1>2, CorrectionStep
<1>3. CASE \E c \in Clients : LogCorrection(c) \/ LoseCorrection(c)
  BY <1>3, LogStep
<1>4. CASE \/ \E q \in Quantities : ApiCreateManifestItem(q)
           \/ \E i \in ItemIds : \/ ApiDeleteManifestItem(i)
                               \/ \E q \in Quantities : ApiUpdateManifestItem(i, q)
  BY <1>4, PlainCalls
<1>5. QED
  BY <1>1, <1>2, <1>3, <1>4 DEF ManifestNext

\* The manifest starts empty, and so does its log.
LEMMA ManifestStart == ManifestInit => ManifestInv
<1> SUFFICES ASSUME ManifestInit PROVE ManifestInv
  OBVIOUS
<1>1. Absent \in ItemRow /\ Absent.qty = 0
  BY AbsentTyped
<1>2. Quiet \in Asked /\ Quiet.at = "idle"
  BY ManifestAssumption DEF Quiet, Asked, Kinds
<1>3. items \in [ItemIds -> ItemRow] /\ \A i \in ItemIds : items[i] = Absent
  BY <1>1 DEF ManifestInit
<1>4. asked \in [Clients -> Asked] /\ \A c \in Clients : asked[c].at = "idle"
  BY <1>2 DEF ManifestInit
<1>5. corrections = <<>> /\ corrections \in Seq(Correction) /\ DOMAIN corrections = {}
  BY DEF ManifestInit
<1>6. lastItem \in 0..MaxItems
  BY ManifestAssumption DEF ManifestInit
<1>7. ManifestTypes
  BY <1>3, <1>4, <1>5, <1>6 DEF ManifestTypes
<1>8. \A i \in ItemIds, c \in Clients : ~Awaited(c, i)
  BY <1>4 DEF Awaited
<1>9. \A i \in ItemIds : ~Ours(i)
  BY <1>5 DEF Ours
<1>10. \A i \in ItemIds : Fresh(i)
  BY <1>3, <1>8, <1>9 DEF Fresh
<1>11. \A i \in ItemIds : Told(i)
  BY <1>1, <1>3, <1>8, <1>9 DEF Told, Tells
<1>12. QED
  BY <1>7, <1>10, <1>11 DEF ManifestInv

\* The row the property chooses is the one the invariant speaks of.
LEMMA ManifestTold == ManifestInv => LogTellsManifest
<1> SUFFICES ASSUME ManifestInv, NEW i \in ItemIds \ disputed, ~Pending(i)
             PROVE  items[i].qty =
                      LET its == {k \in DOMAIN corrections : corrections[k].item = i}
                      IN  IF its = {} THEN 0
                          ELSE corrections[CHOOSE k \in its : \A j \in its : j <= k].qty
  BY DEF LogTellsManifest
<1> DEFINE its == {k \in DOMAIN corrections : corrections[k].item = i}
<1>1. Tells(i, items[i].qty)
  BY DEF ManifestInv, Told
<1>2. CASE its = {}
  BY <1>1, <1>2 DEF Tells
<1>3. CASE its # {}
  <2>1. PICK k \in its : corrections[k].qty = items[i].qty /\ \A j \in its : j <= k
    BY <1>1, <1>3 DEF Tells, Ours
  <2>2. \A k1, k2 \in its : k1 <= k2 /\ k2 <= k1 => k1 = k2
    BY LenProperties DEF ManifestInv, ManifestTypes
  <2>3. k = CHOOSE k1 \in its : \A j \in its : j <= k1
    BY <2>1, <2>2
  <2>4. QED
    BY <1>3, <2>1, <2>3
<1>4. QED
  BY <1>2, <1>3

\* For every number of clients, items and corrections: an undisputed item
\* whose corrections are all logged has the quantity of its last row, and an
\* item without a row is not there.
THEOREM ManifestLogged == ManifestSpec => []LogTellsManifest
BY ManifestStart, ManifestStep, ManifestTold, PTL DEF ManifestSpec

-----------------------------------------------------------------------------
(* Reporting points: the request under way accounts for what is not yet as *)
(* it shall be. Only without overlap can it: `Calm` names the mishaps after *)
(* which a request may not find what it left.                              *)

Words == Tags \cup {"none"}
Point == [tag : Words, style : Styles \cup {"none"}, managed : BOOLEAN]
Ops == {"none", "create", "update", "delete", "style"}
Stages == {"idle", "insert", "read", "write", "last", "disable", "check", "enable", "mark",
           "unmark"}
SetupRequest == [op : Ops, pc : Stages, id : 0..MaxPoints, tag : Words,
            style : Styles \cup {"none"}, old : Point]

Tagged == {"insert", "check", "enable", "mark", "unmark"}

Formed(f) ==
    /\ f.pc \in Tagged => f.tag \in Tags
    /\ f.pc = "read" => f.op = "style" \/ f.id \in Ids

SetupTypes ==
    /\ points \in [Ids -> Point] /\ made \in 0..MaxPoints
    /\ \A i \in Ids : i > made => points[i] = NoPoint
    /\ \A i, j \in Rows : i # j => points[i].tag # points[j].tag
    /\ \A i \in Rows : points[i].tag # "none"
    /\ ours \subseteq published /\ published \subseteq Tags
    /\ form \in [Admins -> SetupRequest]
    /\ \A a \in Admins : Formed(form[a])

Alone == \A a, b \in Admins : form[a] # NoForm /\ form[b] # NoForm => a = b

\* What a request relies on at each of its steps.
Reading(f) ==
    \/ f.op = "style"
    \/ f.op = "delete" /\ f.id \in Rows /\ f.tag = "none"
    \/ f.op = "update" /\ f.id \in Rows /\ f.tag # "none"

Holding(f) == Reading(f) /\ f.id \in Rows /\ f.old = points[f.id]

Withdrawing(f) ==
    /\ \A j \in Rows : points[j].tag = f.old.tag => f.op = "style" /\ f.tag = "none" /\ j = f.id
    /\ \/ f.op = "delete"
       \/ f.op = "style" /\ f.tag = "none" /\ Holding(f)
       \/ f.op \in {"update", "style"} /\ f.tag # "none"
          /\ f.id \in Rows /\ points[f.id].tag = f.tag

OnPoint(f) == f.op # "delete" /\ f.id \in Rows /\ points[f.id].tag = f.tag

Relies(f) ==
    /\ f.pc = "idle" => f = NoForm
    /\ f.pc = "insert" => f.op \in {"create", "style"}
    /\ f.pc = "read" => Reading(f)
    /\ f.pc = "write" => Holding(f)
    /\ f.pc = "last" => Holding(f) /\ f.op = "style" /\ f.tag = "none"
    /\ f.pc = "disable" => Withdrawing(f)
    /\ f.pc \in {"check", "enable", "mark", "unmark"} => OnPoint(f)

Withdraws(f, t) ==
    \/ f.pc = "mark" /\ f.tag = t
    \/ f.pc = "disable" /\ f.old.tag = t

Ungranted(f) ==
    /\ f.pc \in {"disable", "check", "enable", "unmark"} => f.tag \notin ours
    /\ f.pc = "last" => f.old.tag \notin ours

OursManaged ==
    /\ \A t \in ours : \/ \E i \in Rows : points[i].managed /\ points[i].tag = t
                       \/ \E a \in Admins : Withdraws(form[a], t)
    /\ \A a \in Admins : Ungranted(form[a])

Prepares(f, i) ==
    f.id = i /\ (f.pc \in {"check", "enable", "last"} \/ (f.pc = "disable" /\ f.op # "delete"))

RowsPublished ==
    \A i \in Rows : points[i].tag \in published \/ \E a \in Admins : Prepares(form[a], i)

Clean == spoilt \cap {"refused", "call_fails", "crash", "overlap"} = {}

Calm == Clean /\ spoilt \cap {"lag", "others_unpublish"} = {}

SetupInv ==
    /\ SetupTypes
    /\ Clean => Alone /\ (\A a \in Admins : Relies(form[a])) /\ OursManaged
    /\ Calm => RowsPublished

\* The same of the only request under way.
Granted(f) ==
    /\ Ungranted(f)
    /\ \A t \in ours : \/ \E i \in Rows : points[i].managed /\ points[i].tag = t
                      \/ Withdraws(f, t)

Accounts(f) ==
    /\ Clean => Relies(f) /\ Granted(f)
    /\ Calm => \A i \in Rows : points[i].tag \in published \/ Prepares(f, i)

Became(a, g) ==
    /\ form' \in [Admins -> SetupRequest] /\ form'[a] = g
    /\ \A b \in Admins \ {a} : form'[b] = form[b]

\* What a request starts from is of its type.
LEMMA NoneTyped ==
    /\ NoPoint \in Point /\ NoForm \in SetupRequest
    /\ NoForm.pc = "idle" /\ NoForm.tag = "none" /\ NoForm.op = "none"
    /\ NoPoint.tag = "none" /\ NoPoint.managed = FALSE
<1>1. FALSE \in BOOLEAN
  OBVIOUS
<1>2. NoPoint \in Point
  BY <1>1 DEF NoPoint, Point, Words
<1>3. NoForm \in SetupRequest
  BY <1>2, SetupAssumption DEF NoForm, SetupRequest, Ops, Stages, Words
<1>4. QED
  BY <1>2, <1>3 DEF NoForm, NoPoint

\* A request that goes on keeps its type; what else it holds it keeps.
LEMMA GoesTo ==
    ASSUME SetupTypes, NEW a \in Admins, NEW pc \in Stages, Goto(a, pc)
    PROVE  \E g \in SetupRequest :
              /\ Became(a, g) /\ g.pc = pc
              /\ g.op = form[a].op /\ g.id = form[a].id /\ g.tag = form[a].tag
              /\ g.style = form[a].style /\ g.old = form[a].old
<1>1. PICK f : f = form[a]
  OBVIOUS
<1>2. PICK g : g = [f EXCEPT !.pc = pc]
  OBVIOUS
<1>3. f \in SetupRequest /\ form \in [Admins -> SetupRequest]
  BY <1>1 DEF SetupTypes
<1>4. /\ g \in SetupRequest /\ g.pc = pc
      /\ g.op = f.op /\ g.id = f.id /\ g.tag = f.tag /\ g.style = f.style /\ g.old = f.old
  BY <1>2, <1>3 DEF SetupRequest
<1>5. form' = [form EXCEPT ![a] = g]
  BY <1>1, <1>2, <1>3 DEF Goto
<1>6. Became(a, g)
  BY <1>3, <1>4, <1>5 DEF Became
<1>7. QED
  BY <1>1, <1>4, <1>6

\* A request that is answered leaves its goroutine free.
LEMMA IsDone ==
    ASSUME SetupTypes, NEW a \in Admins, Done(a)
    PROVE  Became(a, NoForm)
BY NoneTyped DEF SetupTypes, Done, Became

\* The invariant after a step of the only request there is.
LEMMA OnlyRequest ==
    ASSUME SetupTypes', NEW a \in Admins, NEW g \in SetupRequest, Became(a, g), Accounts(g)',
           Clean' => \A b \in Admins \ {a} : form[b] = NoForm
    PROVE  SetupInv'
<1>1. form'[a] = g /\ \A b \in Admins \ {a} : form'[b] = form[b]
  BY DEF Became
<1>2. ASSUME Clean'
      PROVE  Alone' /\ (\A b \in Admins : Relies(form[b])') /\ OursManaged'
  <2>1. \A b \in Admins : form'[b] = IF b = a THEN g ELSE NoForm
    BY <1>1, <1>2
  <2>2. Alone'
    BY <2>1 DEF Alone
  <2>3. Relies(NoForm)' /\ Ungranted(NoForm)'
    BY NoneTyped DEF Relies, Ungranted
  <2>4. ASSUME NEW b \in Admins PROVE Relies(form[b])' /\ Ungranted(form[b])'
    BY <1>2, <2>1, <2>3 DEF Accounts, Granted
  <2>5. \A t \in ours' : \/ \E i \in Rows' : points'[i].managed /\ points'[i].tag = t
                         \/ \E b \in Admins : Withdraws(form'[b], t)
    BY <1>1, <1>2 DEF Accounts, Granted
  <2>6. OursManaged'
    BY <2>4, <2>5 DEF OursManaged, Withdraws
  <2>7. QED
    BY <2>2, <2>4, <2>6
<1>3. ASSUME Calm' PROVE RowsPublished'
  BY <1>1, <1>3 DEF RowsPublished, Prepares, Accounts
<1>4. QED
  BY <1>2, <1>3 DEF SetupInv

\* What a request under way may count on, as long as nothing goes wrong.
LEMMA AtWork ==
    ASSUME SetupInv, NEW a \in Admins, form[a].pc # "idle", spoilt \subseteq spoilt'
    PROVE  /\ SetupTypes
           /\ Clean' => Clean /\ \A b \in Admins \ {a} : form[b] = NoForm
           /\ Calm' => Calm /\ Clean /\ Clean'
           /\ \E f \in SetupRequest : f = form[a] /\ Accounts(f)
<1>1. form[a] # NoForm /\ \A t, i : ~Withdraws(NoForm, t) /\ ~Prepares(NoForm, i)
  BY NoneTyped DEF Withdraws, Prepares
<1>2. PICK f \in SetupRequest : f = form[a]
  BY DEF SetupInv, SetupTypes
<1>3. ASSUME Clean
      PROVE  /\ \A b \in Admins \ {a} : form[b] = NoForm
             /\ Relies(f) /\ Granted(f)
  <2>1. \A b \in Admins \ {a} : form[b] = NoForm
    BY <1>1, <1>3 DEF SetupInv, Alone
  <2>2. Relies(f) /\ Ungranted(f)
    BY <1>2, <1>3 DEF SetupInv, OursManaged
  <2>3. ASSUME NEW t \in ours
        PROVE  \/ \E i \in Rows : points[i].managed /\ points[i].tag = t
               \/ Withdraws(f, t)
    BY <1>1, <1>2, <1>3, <2>1, <2>3 DEF SetupInv, OursManaged
  <2>4. QED
    BY <2>1, <2>2, <2>3 DEF Granted
<1>4. ASSUME Calm, NEW i \in Rows
      PROVE  points[i].tag \in published \/ Prepares(f, i)
  <2>1. \A b \in Admins \ {a} : form[b] = NoForm
    BY <1>3, <1>4 DEF Calm
  <2>2. QED
    BY <1>1, <1>2, <1>4, <2>1 DEF SetupInv, RowsPublished
<1>5. (Clean' => Clean) /\ (Calm' => Calm /\ Clean /\ Clean')
  BY DEF Clean, Calm
<1>6. QED
  BY <1>2, <1>3, <1>4, <1>5 DEF SetupInv, Accounts

\* A row written with a tag of its own is the only one that changes.
LEMMA RowWritten ==
    ASSUME SetupTypes, NEW i \in Ids, NEW p \in Point, p.tag # "none",
           \A j \in Rows \ {i} : points[j].tag # p.tag,
           points' = [points EXCEPT ![i] = p], made <= made', i <= made', made' \in 0..MaxPoints
    PROVE  /\ points' \in [Ids -> Point] /\ points'[i] = p
           /\ \A j \in Ids \ {i} : points'[j] = points[j]
           /\ Rows' = Rows \cup {i}
           /\ \A j \in Ids : j > made' => points'[j] = NoPoint
           /\ \A j, k \in Rows' : j # k => points'[j].tag # points'[k].tag
           /\ \A j \in Rows' : points'[j].tag # "none"
<1>1. points \in [Ids -> Point] /\ p # NoPoint /\ made \in 0..MaxPoints
  BY NoneTyped DEF SetupTypes
<1>2. points' \in [Ids -> Point] /\ \A j \in Ids : points'[j] = IF j = i THEN p ELSE points[j]
  BY <1>1
<1>3. Rows' = Rows \cup {i}
  BY <1>1, <1>2 DEF Rows
<1>4. ASSUME NEW j \in Ids, j > made' PROVE points'[j] = NoPoint
  <2>1. j > made /\ j # i
    BY <1>1, <1>4 DEF Ids
  <2>2. QED
    BY <1>2, <1>4, <2>1 DEF SetupTypes
<1>5. ASSUME NEW j \in Rows', NEW k \in Rows', j # k PROVE points'[j].tag # points'[k].tag
  <2>1. j \in Ids /\ k \in Ids /\ (j # i => j \in Rows) /\ (k # i => k \in Rows)
    BY <1>3, <1>5 DEF Rows
  <2>2. CASE j = i \/ k = i
    BY <1>2, <1>5, <2>1, <2>2
  <2>3. CASE j # i /\ k # i
    BY <1>2, <1>5, <2>1, <2>3 DEF SetupTypes
  <2>4. QED
    BY <2>2, <2>3
<1>6. ASSUME NEW j \in Rows' PROVE points'[j].tag # "none"
  BY <1>2, <1>3, <1>6 DEF SetupTypes, Rows
<1>7. QED
  BY <1>2, <1>3, <1>4, <1>5, <1>6

\* A row deleted leaves the others as they are.
LEMMA RowDeleted ==
    ASSUME SetupTypes, NEW i, points' = [points EXCEPT ![i] = NoPoint], UNCHANGED made
    PROVE  /\ points' \in [Ids -> Point]
           /\ \A j \in Ids \ {i} : points'[j] = points[j]
           /\ Rows' = Rows \ {i}
           /\ \A j \in Ids : j > made' => points'[j] = NoPoint
           /\ \A j, k \in Rows' : j # k => points'[j].tag # points'[k].tag
           /\ \A j \in Rows' : points'[j].tag # "none"
<1>1. points \in [Ids -> Point] /\ NoPoint \in Point
  BY NoneTyped DEF SetupTypes
<1>2. points' \in [Ids -> Point] /\ \A j \in Ids : points'[j] = IF j = i THEN NoPoint ELSE points[j]
  BY <1>1
<1>3. Rows' = Rows \ {i}
  BY <1>1, <1>2 DEF Rows
<1>4. QED
  BY <1>2, <1>3 DEF SetupTypes, Rows

\* createReportingPoint: the row of the database.
LEMMA InsertStep ==
    ASSUME SetupInv, NEW a \in Admins, Insert(a)
    PROVE  SetupInv'
<1>1. form[a].pc = "insert" /\ UNCHANGED <<published, ours, spoilt>>
  BY DEF Insert
<1>2. PICK f \in SetupRequest : f = form[a] /\ Accounts(f)
  BY <1>1, AtWork
<1>3. /\ SetupTypes /\ f.tag \in Tags /\ f.tag # "none" /\ f.pc = "insert"
      /\ Clean' => Clean /\ \A b \in Admins \ {a} : form[b] = NoForm
      /\ Calm' => Calm /\ Clean /\ Clean'
  BY <1>1, <1>2, AtWork, SetupAssumption DEF SetupTypes, Formed, Tagged
<1>4. \A t, i : ~Withdraws(f, t) /\ ~Prepares(f, i)
  BY <1>3 DEF Withdraws, Prepares
<1>5. CASE Taken(f.tag, 0)
  <2>1. Done(a) /\ UNCHANGED <<points, made>>
    BY <1>2, <1>5 DEF Insert
  <2>2. Became(a, NoForm) /\ NoForm \in SetupRequest
    BY <1>3, <2>1, IsDone, NoneTyped
  <2>3. SetupTypes'
    BY <1>1, <1>3, <2>1, <2>2, NoneTyped DEF SetupTypes, Became, Rows, Formed, Tagged
  <2>4. Relies(NoForm)' /\ Ungranted(NoForm)'
    BY NoneTyped DEF Relies, Ungranted
  <2>5. Accounts(NoForm)'
    BY <1>1, <1>2, <1>3, <1>4, <2>1, <2>4 DEF Accounts, Granted, Rows
  <2>6. QED
    BY <1>3, <2>2, <2>3, <2>5, OnlyRequest
<1>6. CASE ~Taken(f.tag, 0)
  <2>1. PICK i : i = made + 1
    OBVIOUS
  <2>2. PICK p : p = [tag |-> f.tag, style |-> f.style, managed |-> FALSE]
    OBVIOUS
  <2>3. PICK g0 : g0 = [f EXCEPT !.pc = "check"]
    OBVIOUS
  <2>4. PICK g : g = [g0 EXCEPT !.id = i]
    OBVIOUS
  <2>5. /\ made < MaxPoints /\ made' = i /\ points' = [points EXCEPT ![i] = p]
        /\ form' = [form EXCEPT ![a].pc = "check", ![a].id = i]
    BY <1>2, <1>6, <2>1, <2>2 DEF Insert
  <2>6. i \in Ids /\ made <= made' /\ i <= made' /\ made' \in 0..MaxPoints
        /\ points[i] = NoPoint
    BY <1>3, <2>1, <2>5, SetupAssumption DEF SetupTypes, Ids
  <2>7. FALSE \in BOOLEAN
    OBVIOUS
  <2>8. p \in Point /\ p.tag = f.tag /\ p.managed = FALSE
    BY <2>2, <2>7 DEF SetupRequest, Point
  <2>9. \A j \in Rows \ {i} : points[j].tag # p.tag
    BY <1>6, <2>8, SetupAssumption DEF Taken, Rows, Ids
  <2>10. /\ points' \in [Ids -> Point] /\ points'[i] = p
         /\ \A j \in Ids \ {i} : points'[j] = points[j]
         /\ Rows' = Rows \cup {i}
         /\ \A j \in Ids : j > made' => points'[j] = NoPoint
         /\ \A j, k \in Rows' : j # k => points'[j].tag # points'[k].tag
         /\ \A j \in Rows' : points'[j].tag # "none"
    BY <1>3, <2>5, <2>6, <2>8, <2>9, RowWritten
  <2>11. g0 \in SetupRequest /\ g0.pc = "check" /\ g0.tag = f.tag /\ g0.op = f.op
    BY <2>3 DEF SetupRequest, Stages
  <2>12. g \in SetupRequest /\ g.pc = "check" /\ g.id = i /\ g.tag = f.tag /\ g.op = f.op
    BY <2>4, <2>6, <2>11 DEF SetupRequest, Ids
  <2>13. Became(a, g)
    <3>1. form \in [Admins -> SetupRequest]
      BY <1>3 DEF SetupTypes
    <3>2. form'[a] = g
      BY <1>2, <2>3, <2>4, <2>5, <3>1
    <3>3. form' = [form EXCEPT ![a] = g]
      BY <1>2, <2>3, <2>4, <2>5, <3>1, <3>2
    <3>4. QED
      BY <2>12, <3>1, <3>2, <3>3 DEF Became
  <2>14. SetupTypes'
    BY <1>1, <1>3, <2>5, <2>6, <2>10, <2>12, <2>13 DEF SetupTypes, Became, Formed
  <2>15. i \notin Rows /\ i \in Rows'
    BY <2>6, <2>10 DEF Rows
  <2>16. ASSUME Clean' PROVE Relies(g)' /\ Granted(g)'
    <3>1. Relies(g)'
      BY <1>2, <1>3, <2>8, <2>10, <2>12, <2>15, <2>16 DEF Accounts, Relies, OnPoint
    <3>2. ASSUME NEW t \in ours
          PROVE  t # f.tag /\ \E j \in Rows' : points'[j].managed /\ points'[j].tag = t
      <4>1. PICK j \in Rows : points[j].managed /\ points[j].tag = t
        BY <1>2, <1>3, <1>4, <2>16, <3>2 DEF Accounts, Granted
      <4>2. j # i /\ j \in Ids /\ j \in Rows'
        BY <2>10, <2>15, <4>1 DEF Rows
      <4>3. QED
        BY <2>8, <2>9, <2>10, <4>1, <4>2
    <3>3. Ungranted(g)'
      BY <1>1, <2>12, <3>2 DEF Ungranted
    <3>4. QED
      BY <1>1, <3>1, <3>2, <3>3 DEF Granted
  <2>17. ASSUME Calm', NEW j \in Rows'
         PROVE  points'[j].tag \in published' \/ Prepares(g, j)
    <3>1. CASE j = i
      BY <2>12, <3>1 DEF Prepares
    <3>2. CASE j # i
      BY <1>1, <1>2, <1>3, <1>4, <2>10, <2>17, <3>2 DEF Accounts, Rows
    <3>3. QED
      BY <3>1, <3>2
  <2>18. Accounts(g)'
    BY <2>16, <2>17 DEF Accounts, Prepares
  <2>19. QED
    BY <1>3, <2>12, <2>13, <2>14, <2>18, OnlyRequest
<1>7. QED
  BY <1>5, <1>6

\* A step that leaves the rows alone.
LEMMA RowsLeft ==
    ASSUME SetupTypes, UNCHANGED <<points, made>>, NEW a \in Admins, NEW g \in SetupRequest,
           Became(a, g), Formed(g),
           ours' \subseteq published', published' \subseteq Tags
    PROVE  SetupTypes' /\ Rows' = Rows
BY DEF SetupTypes, Became, Rows

\* A request that is over accounts for nothing.
LEMMA NothingLeft ==
    ASSUME Clean' => \A t \in ours' : \E i \in Rows' : points'[i].managed /\ points'[i].tag = t,
           Calm' => \A i \in Rows' : points'[i].tag \in published'
    PROVE  Accounts(NoForm)'
<1>1. Relies(NoForm)' /\ Ungranted(NoForm)'
  BY NoneTyped DEF Relies, Ungranted
<1>2. QED
  BY <1>1 DEF Accounts, Granted

\* update and delete: what the handler reads of the old row.
LEMMA ReadOldStep ==
    ASSUME SetupInv, NEW a \in Admins, ReadOld(a)
    PROVE  SetupInv'
<1>1. form[a].pc = "read" /\ UNCHANGED <<points, made, published, ours, spoilt>>
  BY DEF ReadOld
<1>2. PICK f \in SetupRequest : f = form[a] /\ Accounts(f)
  BY <1>1, AtWork
<1>3. /\ SetupTypes /\ f.pc = "read" /\ form \in [Admins -> SetupRequest]
      /\ Clean' => Clean /\ \A b \in Admins \ {a} : form[b] = NoForm
      /\ Calm' => Calm /\ Clean /\ Clean'
  BY <1>1, <1>2, AtWork DEF SetupTypes
<1>4. \A t, i : ~Withdraws(f, t) /\ ~Prepares(f, i)
  BY <1>3 DEF Withdraws, Prepares
<1>5. /\ points \in [Ids -> Point] /\ ours \subseteq published /\ published \subseteq Tags
      /\ Rows' = Rows /\ (Clean' <=> Clean) /\ (Calm' <=> Calm)
  BY <1>1, <1>3 DEF SetupTypes, Rows, Clean, Calm
<1>6. ASSUME NEW g \in SetupRequest, Became(a, g), Formed(g),
             Clean => Relies(g), g.pc \in {"idle", "insert", "write"}
      PROVE  SetupInv'
  <2>1. SetupTypes'
    BY <1>1, <1>3, <1>5, <1>6, RowsLeft
  <2>2. Relies(g)' <=> Relies(g)
    BY <1>1, <1>5, <1>6 DEF Relies, Reading, Holding
  <2>3. Granted(g)' <=> \A t \in ours : \E i \in Rows : points[i].managed /\ points[i].tag = t
    BY <1>1, <1>5, <1>6 DEF Granted, Ungranted, Withdraws
  <2>4. Accounts(g)'
    BY <1>1, <1>2, <1>4, <1>5, <1>6, <2>2, <2>3 DEF Accounts, Granted
  <2>5. QED
    BY <1>3, <1>6, <2>1, <2>4, OnlyRequest
<1>7. ASSUME NEW i \in 0..MaxPoints, NEW old \in Point, NEW g0, NEW g1, NEW g,
             g0 = [f EXCEPT !.pc = "write"], g1 = [g0 EXCEPT !.id = i],
             g = [g1 EXCEPT !.old = old],
             form' = [form EXCEPT ![a] = g],
             Clean => i \in Rows /\ old = points[i] /\ Reading(g)
      PROVE  SetupInv'
  <2>1. g0 \in SetupRequest /\ g0.pc = "write"
    BY <1>7 DEF SetupRequest, Stages
  <2>2. g1 \in SetupRequest /\ g1.pc = "write" /\ g1.id = i
    BY <1>7, <2>1 DEF SetupRequest
  <2>3. g \in SetupRequest /\ g.pc = "write" /\ g.id = i /\ g.old = old
    BY <1>7, <2>2 DEF SetupRequest
  <2>4. Became(a, g)
    BY <1>3, <1>7, <2>3 DEF Became
  <2>5. Clean => Relies(g)
    BY <1>7, <2>3 DEF Relies, Holding
  <2>6. QED
    BY <1>6, <2>3, <2>4, <2>5 DEF Formed, Tagged
<1>8. CASE f.op = "style"
  <2>1. CASE \E i \in Rows : form' = [form EXCEPT ![a].pc = "write", ![a].id = i,
                                                 ![a].old = points[i]]
    <3>1. PICK i \in Rows : form' = [form EXCEPT ![a].pc = "write", ![a].id = i,
                                                 ![a].old = points[i]]
      BY <2>1
    <3>2. PICK old : old = points[i]
      OBVIOUS
    <3>3. PICK g0 : g0 = [f EXCEPT !.pc = "write"]
      OBVIOUS
    <3>4. PICK g1 : g1 = [g0 EXCEPT !.id = i]
      OBVIOUS
    <3>5. PICK g : g = [g1 EXCEPT !.old = old]
      OBVIOUS
    <3>6. form' = [form EXCEPT ![a].pc = "write", ![a].id = i, ![a].old = old]
      BY <3>1, <3>2
    <3>7. form'[a] = g
      BY <1>2, <1>3, <3>3, <3>4, <3>5, <3>6
    <3>8. form' = [form EXCEPT ![a] = g]
      BY <1>2, <1>3, <3>3, <3>4, <3>5, <3>6, <3>7
    <3>9. i \in 0..MaxPoints /\ old \in Point /\ i \in Ids
      BY <1>5, <3>2, SetupAssumption DEF Rows, Ids
    <3>10. g.op = "style"
      BY <1>8, <3>3, <3>4, <3>5 DEF SetupRequest
    <3>11. Reading(g)
      BY <3>10 DEF Reading
    <3>12. QED
      BY <1>7, <3>2, <3>3, <3>4, <3>5, <3>8, <3>9, <3>11
  <2>2. CASE f.tag = "none" /\ Done(a)
    <3>1. Became(a, NoForm)
      BY <1>3, <2>2, IsDone
    <3>2. Relies(NoForm)
      BY NoneTyped DEF Relies
    <3>3. QED
      BY <1>6, <3>1, <3>2, NoneTyped DEF Formed, Tagged
  <2>3. CASE f.tag # "none" /\ Goto(a, "insert")
    <3>1. PICK g \in SetupRequest : Became(a, g) /\ g.pc = "insert" /\ g.op = f.op /\ g.tag = f.tag
      BY <1>2, <1>3, <2>3, GoesTo DEF Stages
    <3>2. Relies(g) /\ g.tag \in Tags
      BY <1>8, <2>3, <3>1 DEF Relies, SetupRequest, Words
    <3>3. QED
      BY <1>6, <3>1, <3>2 DEF Formed
  <2>4. QED
    BY <1>2, <1>8, <2>1, <2>2, <2>3 DEF ReadOld
<1>9. CASE f.op # "style"
  <2>1. form' = [form EXCEPT ![a].pc = "write", ![a].old = points[f.id]]
    BY <1>2, <1>9 DEF ReadOld
  <2>2. PICK i : i = f.id
    OBVIOUS
  <2>3. PICK old : old = points[i]
    OBVIOUS
  <2>4. i \in Ids
    BY <1>2, <1>3, <1>9, <2>2 DEF SetupTypes, Formed
  <2>5. i \in 0..MaxPoints /\ old \in Point
    BY <1>5, <2>3, <2>4, SetupAssumption DEF Ids
  <2>6. PICK g0 : g0 = [f EXCEPT !.pc = "write"]
    OBVIOUS
  <2>7. PICK g1 : g1 = [g0 EXCEPT !.id = i]
    OBVIOUS
  <2>8. PICK g : g = [g1 EXCEPT !.old = old]
    OBVIOUS
  <2>9. form' = [form EXCEPT ![a].pc = "write", ![a].old = old]
    BY <2>1, <2>2, <2>3
  <2>10. g1 = g0
    BY <2>2, <2>6, <2>7 DEF SetupRequest
  <2>11. g = [g0 EXCEPT !.old = old]
    BY <2>8, <2>10
  <2>12. form'[a] = g
    BY <1>2, <1>3, <2>6, <2>9, <2>11
  <2>13. form' = [form EXCEPT ![a] = g]
    BY <1>2, <1>3, <2>6, <2>9, <2>11, <2>12
  <2>14. g.op = f.op /\ g.id = f.id /\ g.tag = f.tag
    BY <2>6, <2>11 DEF SetupRequest
  <2>15. ASSUME Clean PROVE Reading(f)
    BY <1>2, <1>3, <2>15 DEF Accounts, Relies
  <2>16. Clean => Reading(g) /\ i \in Rows
    BY <1>9, <2>2, <2>14, <2>15 DEF Reading
  <2>17. QED
    BY <1>7, <2>3, <2>5, <2>6, <2>7, <2>8, <2>13, <2>16
<1>10. QED
  BY <1>8, <1>9

\* The handler writes the row, or the write fails.
LEMMA WriteStep ==
    ASSUME SetupInv, NEW a \in Admins, Write(a)
    PROVE  SetupInv'
<1>1. /\ form[a].pc = "write" /\ UNCHANGED <<made, published, ours>>
      /\ spoilt \subseteq spoilt'
  BY DEF Write
<1>2. PICK f \in SetupRequest : f = form[a] /\ Accounts(f)
  BY <1>1, AtWork
<1>3. /\ SetupTypes /\ f.pc = "write" /\ f.op # "delete" /\ f.tag # "none" /\ f.tag \in Tags
      /\ Clean' => Clean /\ \A b \in Admins \ {a} : form[b] = NoForm
      /\ Calm' => Calm /\ Clean /\ Clean'
  BY <1>1, <1>2, AtWork DEF Write, SetupRequest, Words
<1>4. \A t, i : ~Withdraws(f, t) /\ ~Prepares(f, i)
  BY <1>3 DEF Withdraws, Prepares
<1>5. PICK g \in SetupRequest :
         /\ Became(a, g)
         /\ \/ g = NoForm /\ (f.old = NoPoint \/ f.old.tag = f.tag
                               \/ (f.id \in Rows /\ Taken(f.tag, f.id) /\ f.op # "style"))
            \/ /\ g.op = f.op /\ g.id = f.id /\ g.tag = f.tag /\ g.old = f.old
               /\ f.old.tag # f.tag
               /\ \/ g.pc = "disable" /\ f.old.managed
                  \/ g.pc = "check" /\ ~f.old.managed
               /\ ~(f.id \in Rows /\ Taken(f.tag, f.id) /\ f.op # "style")
  <2>1. CASE Done(a) /\ \/ f.old = NoPoint \/ f.old.tag = f.tag
                        \/ (f.id \in Rows /\ Taken(f.tag, f.id) /\ f.op # "style")
    BY <1>3, <2>1, IsDone, NoneTyped
  <2>2. CASE /\ f.old.tag # f.tag
             /\ ~(f.id \in Rows /\ Taken(f.tag, f.id) /\ f.op # "style")
             /\ Goto(a, IF f.old.managed THEN "disable" ELSE "check")
    <3>1. PICK pc : pc = IF f.old.managed THEN "disable" ELSE "check"
      OBVIOUS
    <3>2. pc \in Stages /\ Goto(a, pc)
      BY <2>2, <3>1 DEF Stages
    <3>3. PICK g \in SetupRequest : Became(a, g) /\ g.pc = pc /\ g.op = f.op /\ g.id = f.id
                               /\ g.tag = f.tag /\ g.old = f.old
      BY <1>2, <1>3, <3>2, GoesTo
    <3>4. QED
      BY <2>2, <3>1, <3>3
  <2>3. QED
    BY <1>2, <2>1, <2>2 DEF Write
<1>6. Formed(g)
  BY <1>3, <1>5, NoneTyped DEF Formed, Tagged
<1>7. CASE f.id \in Rows /\ ~Taken(f.tag, f.id)
  <2>1. PICK i : i = f.id
    OBVIOUS
  <2>2. PICK p : p = [tag |-> f.tag, style |-> f.style, managed |-> points[i].managed]
    OBVIOUS
  <2>3. i \in Ids /\ i \in Rows /\ points \in [Ids -> Point] /\ points[i] \in Point
        /\ points[i] # NoPoint
    BY <1>3, <1>7, <2>1 DEF Rows, SetupTypes
  <2>4. p \in Point /\ p.tag = f.tag /\ p.managed = points[i].managed
    BY <2>2, <2>3 DEF SetupRequest, Point
  <2>5. points' = [points EXCEPT ![i] = p] /\ spoilt' = spoilt
    <3>1. points' = [points EXCEPT ![i].tag = f.tag, ![i].style = f.style]
      BY <1>2, <1>7, <2>1 DEF Write
    <3>2. PICK q0 : q0 = [points[i] EXCEPT !.tag = f.tag]
      OBVIOUS
    <3>3. PICK q : q = [q0 EXCEPT !.style = f.style]
      OBVIOUS
    <3>4. q0 = [tag |-> f.tag, style |-> points[i].style, managed |-> points[i].managed]
      BY <2>3, <3>2 DEF Point
    <3>5. q = p
      BY <2>2, <3>3, <3>4
    <3>6. points'[i] = q
      BY <2>3, <3>1, <3>2, <3>3
    <3>7. points' = [points EXCEPT ![i] = q]
      BY <2>3, <3>1, <3>2, <3>3, <3>6
    <3>8. QED
      BY <1>2, <1>7, <3>5, <3>7 DEF Write
  <2>6. \A j \in Rows \ {i} : points[j].tag # p.tag
    BY <1>7, <2>1, <2>4 DEF Taken
  <2>7. made' \in 0..MaxPoints /\ made <= made' /\ i <= made'
    <3>1. made \in 0..MaxPoints /\ ~(i > made) /\ made' = made
      BY <1>1, <1>3, <2>3 DEF SetupTypes
    <3>2. QED
      BY <2>3, <3>1, SetupAssumption DEF Ids
  <2>8. /\ points' \in [Ids -> Point] /\ points'[i] = p
        /\ \A j \in Ids \ {i} : points'[j] = points[j]
        /\ Rows' = Rows \cup {i}
        /\ \A j \in Ids : j > made' => points'[j] = NoPoint
        /\ \A j, k \in Rows' : j # k => points'[j].tag # points'[k].tag
        /\ \A j \in Rows' : points'[j].tag # "none"
    BY <1>3, <2>3, <2>4, <2>5, <2>6, <2>7, RowWritten
  <2>9. SetupTypes'
    BY <1>1, <1>3, <1>5, <1>6, <2>7, <2>8 DEF SetupTypes, Became, Formed
  <2>10. Rows' = Rows /\ \A j \in Rows \ {i} : j \in Ids /\ points'[j] = points[j]
    BY <2>3, <2>8 DEF Rows
  <2>11. ASSUME Clean'
         PROVE  /\ f.old = points[i] /\ f.op \in {"update", "style"}
                /\ (g = NoForm => points[i].tag = f.tag)
                /\ (g # NoForm => g.op = f.op /\ g.id = i /\ g.tag = f.tag /\ g.old = f.old
                                  /\ points[i].tag # f.tag)
    <3>1. Holding(f)
      BY <1>2, <1>3, <2>11 DEF Accounts, Relies
    <3>2. QED
      BY <1>3, <1>5, <1>7, <2>1, <2>3, <3>1, NoneTyped DEF Holding, Reading
  <2>12. ASSUME Clean' PROVE Relies(g)' /\ Granted(g)'
    <3>1. ASSUME NEW t \in ours
          PROVE  /\ g # NoForm => t # f.tag
                 /\ \/ \E j \in Rows' : points'[j].managed /\ points'[j].tag = t
                    \/ Withdraws(g, t)
      <4>1. PICK j \in Rows : points[j].managed /\ points[j].tag = t
        BY <1>2, <1>3, <1>4, <2>12, <3>1 DEF Accounts, Granted
      <4>2. CASE j = i
        <5>1. CASE g = NoForm
          BY <2>4, <2>8, <2>10, <2>11, <2>12, <4>1, <4>2, <5>1
        <5>2. CASE g # NoForm
          BY <1>5, <2>11, <2>12, <4>1, <4>2, <5>2 DEF Withdraws
        <5>3. QED
          BY <5>1, <5>2
      <4>3. CASE j # i
        BY <2>4, <2>6, <2>10, <4>1, <4>3
      <4>4. QED
        BY <4>2, <4>3
    <3>2. CASE g = NoForm
      <4>1. Relies(NoForm)' /\ Ungranted(NoForm)'
        BY NoneTyped DEF Relies, Ungranted
      <4>2. QED
        BY <1>1, <3>1, <3>2, <4>1 DEF Granted
    <3>3. CASE g # NoForm
      <4>1. f.tag \notin ours /\ g.pc \in {"disable", "check"}
        BY <1>5, <3>1, <3>3
      <4>2. Granted(g)'
        BY <1>1, <2>11, <2>12, <3>1, <3>3, <4>1 DEF Granted, Ungranted
      <4>3. OnPoint(g)'
        BY <1>3, <2>4, <2>8, <2>10, <2>3, <2>11, <2>12, <3>3 DEF OnPoint
      <4>4. \A j \in Rows' : points'[j].tag # f.old.tag
        <5>1. ASSUME NEW j \in Rows', j # i PROVE points'[j].tag # f.old.tag
          BY <1>3, <2>3, <2>10, <2>11, <2>12, <5>1 DEF SetupTypes
        <5>2. QED
          BY <2>4, <2>8, <2>11, <2>12, <3>3, <5>1
      <4>5. Withdrawing(g)'
        BY <1>3, <2>11, <2>12, <3>3, <4>3, <4>4 DEF Withdrawing, OnPoint
      <4>6. QED
        BY <4>1, <4>2, <4>3, <4>5 DEF Relies
    <3>4. QED
      BY <3>2, <3>3
  <2>13. ASSUME Calm', NEW j \in Rows'
         PROVE  points'[j].tag \in published' \/ Prepares(g, j)
    <3>1. points[j].tag \in published
      BY <1>2, <1>3, <1>4, <2>10, <2>13 DEF Accounts
    <3>2. CASE j # i \/ g = NoForm
      BY <1>1, <1>3, <2>4, <2>8, <2>10, <2>11, <2>13, <3>1, <3>2
    <3>3. CASE j = i /\ g # NoForm
      <4>1. g.id = i /\ g.op # "delete"
        BY <1>3, <2>11, <2>13, <3>3
      <4>2. g.pc \in {"disable", "check"}
        BY <1>5, <3>3
      <4>3. QED
        BY <3>3, <4>1, <4>2 DEF Prepares
    <3>4. QED
      BY <3>2, <3>3
  <2>14. Accounts(g)'
    BY <2>12, <2>13 DEF Accounts, Prepares
  <2>15. QED
    BY <1>3, <1>5, <2>9, <2>14, OnlyRequest
<1>8. CASE ~(f.id \in Rows /\ ~Taken(f.tag, f.id))
  <2>1. UNCHANGED points
    BY <1>2, <1>8 DEF Write
  <2>2. SetupTypes' /\ Rows' = Rows
    BY <1>1, <1>3, <1>5, <1>6, <2>1, RowsLeft DEF SetupTypes
  <2>3. ASSUME Clean' PROVE g = NoForm
    <3>1. f.id \in Rows
      BY <1>2, <1>3, <2>3 DEF Accounts, Relies, Holding
    <3>2. CASE f.op = "style"
      <4>1. "refused" \in spoilt'
        BY <1>2, <1>8, <3>1, <3>2 DEF Write
      <4>2. QED
        BY <2>3, <4>1 DEF Clean
    <3>3. CASE f.op # "style"
      BY <1>5, <1>8, <3>1, <3>3
    <3>4. QED
      BY <3>2, <3>3
  <2>4. Accounts(NoForm)'
    BY <1>1, <1>2, <1>3, <1>4, <2>1, <2>2, NothingLeft DEF Accounts, Granted
  <2>5. Accounts(g)'
    BY <1>3, <2>3, <2>4 DEF Accounts
  <2>6. QED
    BY <1>3, <1>5, <2>2, <2>5, OnlyRequest
<1>9. QED
  BY <1>7, <1>8

\* The row goes.
LEMMA DeletePointStep ==
    ASSUME SetupInv, NEW a \in Admins, DeletePoint(a)
    PROVE  SetupInv'
<1>1. /\ form[a].pc \in {"write", "last"}
      /\ UNCHANGED <<made, published, ours, spoilt>>
  BY DEF DeletePoint
<1>2. PICK f \in SetupRequest : f = form[a] /\ Accounts(f)
  BY <1>1, AtWork
<1>3. /\ SetupTypes /\ f.pc \in {"write", "last"}
      /\ (f.op = "delete" /\ f.pc = "write") \/ (f.op = "style" /\ f.tag = "none")
      /\ Clean' => Clean /\ \A b \in Admins \ {a} : form[b] = NoForm
      /\ Calm' => Calm /\ Clean /\ Clean'
  BY <1>1, <1>2, AtWork DEF DeletePoint
<1>4. \A t, i : ~Withdraws(f, t) /\ (Prepares(f, i) => i = f.id)
  BY <1>3 DEF Withdraws, Prepares
<1>5. PICK i, old : i = f.id /\ old = f.old
  OBVIOUS
<1>6. /\ ours \subseteq published /\ published \subseteq Tags /\ "none" \notin ours
      /\ points \in [Ids -> Point]
      /\ \A j, k \in Rows : j # k => points[j].tag # points[k].tag
  BY <1>3, SetupAssumption DEF SetupTypes
<1>7. Clean' => Holding(f) /\ Reading(f) /\ i \in Rows /\ old = points[i] /\ f.tag = "none"
  BY <1>2, <1>3, <1>5 DEF Accounts, Relies, Holding, Reading
<1>8. ASSUME Clean', NEW t \in ours
      PROVE  \E j \in Rows : points[j].managed /\ points[j].tag = t
  BY <1>2, <1>3, <1>4, <1>8 DEF Accounts, Granted
<1>9. CASE f.op = "style" /\ f.pc = "write" /\ f.old.managed
  <2>1. UNCHANGED points /\ Goto(a, "disable")
    BY <1>2, <1>9 DEF DeletePoint
  <2>2. PICK g \in SetupRequest : Became(a, g) /\ g.pc = "disable" /\ g.op = f.op /\ g.id = f.id
                             /\ g.tag = f.tag /\ g.old = f.old
    BY <1>2, <1>3, <2>1, GoesTo DEF Stages
  <2>3. SetupTypes' /\ Rows' = Rows
    BY <1>1, <1>3, <1>6, <2>1, <2>2, RowsLeft DEF Formed, Tagged
  <2>4. ASSUME Clean' PROVE Relies(g)' /\ Granted(g)'
    <3>1. Reading(g)' /\ Holding(g)'
      BY <1>5, <1>7, <1>9, <2>1, <2>2, <2>3, <2>4 DEF Reading, Holding
    <3>2. Withdrawing(g)'
      BY <1>5, <1>6, <1>7, <1>9, <2>1, <2>2, <2>3, <2>4, <3>1 DEF Withdrawing
    <3>3. Relies(g)'
      BY <2>2, <3>2 DEF Relies
    <3>4. Granted(g)'
      BY <1>1, <1>6, <1>7, <1>8, <2>1, <2>2, <2>3, <2>4 DEF Granted, Ungranted
    <3>5. QED
      BY <3>3, <3>4
  <2>5. ASSUME Calm', NEW j \in Rows'
        PROVE  points'[j].tag \in published' \/ Prepares(g, j)
    <3>1. points[j].tag \in published \/ j = f.id
      BY <1>2, <1>3, <1>4, <2>3, <2>5 DEF Accounts
    <3>2. QED
      BY <1>1, <1>9, <2>1, <2>2, <3>1 DEF Prepares
  <2>6. Accounts(g)'
    BY <2>4, <2>5 DEF Accounts, Prepares
  <2>7. QED
    BY <1>3, <2>2, <2>3, <2>6, OnlyRequest
<1>10. CASE ~(f.op = "style" /\ f.pc = "write" /\ f.old.managed)
  <2>1. /\ points' = [points EXCEPT ![i] = NoPoint]
        /\ IF f.op = "delete" /\ f.old.managed THEN Goto(a, "disable") ELSE Done(a)
    BY <1>2, <1>5, <1>10 DEF DeletePoint
  <2>2. /\ points' \in [Ids -> Point]
        /\ \A j \in Ids \ {i} : points'[j] = points[j]
        /\ Rows' = Rows \ {i}
        /\ \A j \in Ids : j > made' => points'[j] = NoPoint
        /\ \A j, k \in Rows' : j # k => points'[j].tag # points'[k].tag
        /\ \A j \in Rows' : points'[j].tag # "none"
    BY <1>1, <1>3, <2>1, RowDeleted
  <2>3. PICK g \in SetupRequest :
           /\ Became(a, g)
           /\ \/ g = NoForm /\ ~(f.op = "delete" /\ old.managed)
              \/ /\ f.op = "delete" /\ old.managed /\ f.pc = "write"
                 /\ g.pc = "disable" /\ g.op = "delete" /\ g.tag = f.tag /\ g.old = old
    <3>1. CASE f.op = "delete" /\ f.old.managed
      <4>1. PICK g \in SetupRequest : Became(a, g) /\ g.pc = "disable" /\ g.op = f.op
                                 /\ g.tag = f.tag /\ g.old = f.old
        BY <1>2, <1>3, <2>1, <3>1, GoesTo DEF Stages
      <4>2. QED
        BY <1>3, <1>5, <3>1, <4>1
    <3>2. CASE ~(f.op = "delete" /\ f.old.managed)
      BY <1>3, <1>5, <2>1, <3>2, IsDone, NoneTyped
    <3>3. QED
      BY <3>1, <3>2
  <2>4. Formed(g)
    BY <2>3, NoneTyped DEF Formed, Tagged
  <2>5. SetupTypes'
    BY <1>1, <1>3, <2>2, <2>3, <2>4 DEF SetupTypes, Became, Formed
  <2>6. \A j \in Rows' : j # i /\ j \in Rows /\ points'[j] = points[j]
    BY <2>2 DEF Rows
  <2>7. ASSUME Clean' PROVE Relies(g)' /\ Granted(g)'
    <3>1. Relies(NoForm)' /\ Ungranted(NoForm)'
      BY NoneTyped DEF Relies, Ungranted
    <3>2. \A j \in Rows' : points'[j].tag # old.tag
      BY <1>6, <1>7, <2>6, <2>7
    <3>3. Relies(g)' /\ Ungranted(g)'
      BY <1>1, <1>6, <1>7, <2>3, <2>7, <3>1, <3>2 DEF Relies, Ungranted, Withdrawing
    <3>4. ASSUME NEW t \in ours
          PROVE  \/ \E j \in Rows' : points'[j].managed /\ points'[j].tag = t
                 \/ Withdraws(g, t)
      <4>1. PICK j \in Rows : points[j].managed /\ points[j].tag = t
        BY <1>8, <2>7, <3>4
      <4>2. CASE j = i
        <5>1. old.managed /\ old.tag = t
          BY <1>7, <2>7, <4>1, <4>2
        <5>2. CASE f.pc = "last"
          BY <1>2, <1>3, <1>5, <2>7, <3>4, <5>1, <5>2 DEF Accounts, Granted, Ungranted
        <5>3. CASE f.pc = "write"
          BY <1>3, <1>5, <1>10, <2>3, <5>1, <5>3 DEF Withdraws
        <5>4. QED
          BY <1>3, <5>2, <5>3
      <4>3. CASE j # i
        BY <2>2, <2>6, <4>1, <4>3
      <4>4. QED
        BY <4>2, <4>3
    <3>5. QED
      BY <1>1, <3>3, <3>4 DEF Granted
  <2>8. ASSUME Calm', NEW j \in Rows'
        PROVE  points'[j].tag \in published'
    BY <1>1, <1>2, <1>3, <1>4, <1>5, <2>6, <2>8 DEF Accounts
  <2>9. Accounts(g)'
    BY <2>7, <2>8 DEF Accounts
  <2>10. QED
    BY <1>3, <2>3, <2>5, <2>9, OnlyRequest
<1>11. QED
  BY <1>9, <1>10

\* The old tag is withdrawn from WarLink, or the call fails.
LEMMA DisableStep ==
    ASSUME SetupInv, NEW a \in Admins, DisableTagPublishing(a)
    PROVE  SetupInv'
<1>1. /\ form[a].pc = "disable" /\ UNCHANGED <<points, made>> /\ ours' = ours \cap published'
      /\ spoilt \subseteq spoilt'
  BY DEF DisableTagPublishing, SetupFault
<1>2. PICK f \in SetupRequest : f = form[a] /\ Accounts(f)
  BY <1>1, AtWork
<1>3. /\ SetupTypes /\ f.pc = "disable"
      /\ Clean' => Clean /\ \A b \in Admins \ {a} : form[b] = NoForm
      /\ Calm' => Calm /\ Clean /\ Clean'
  BY <1>1, <1>2, AtWork
<1>4. /\ published' \subseteq published /\ published \subseteq Tags
      /\ published \ {f.old.tag} \subseteq published'
      /\ Clean' => published' = published \ {f.old.tag}
  BY <1>2, <1>3 DEF DisableTagPublishing, SetupFault, Clean, SetupTypes
<1>5. PICK g \in SetupRequest :
         /\ Became(a, g)
         /\ \/ g = NoForm /\ f.op = "delete"
            \/ /\ g.op = f.op /\ g.id = f.id /\ g.tag = f.tag /\ g.old = f.old
               /\ f.op # "delete" /\ g.pc = IF f.tag = "none" THEN "last" ELSE "check"
  <2>1. CASE f.op = "delete"
    <3>1. Done(a)
      BY <1>2, <2>1 DEF DisableTagPublishing
    <3>2. QED
      BY <1>3, <2>1, <3>1, IsDone, NoneTyped
  <2>2. CASE f.op # "delete"
    <3>1. PICK pc : pc = IF f.tag = "none" THEN "last" ELSE "check"
      OBVIOUS
    <3>2. pc \in Stages /\ Goto(a, pc)
      BY <1>2, <2>2, <3>1 DEF DisableTagPublishing, Stages
    <3>3. PICK g \in SetupRequest : Became(a, g) /\ g.pc = pc /\ g.op = f.op /\ g.id = f.id
                               /\ g.tag = f.tag /\ g.old = f.old
      BY <1>2, <1>3, <3>2, GoesTo
    <3>4. QED
      BY <2>2, <3>1, <3>3
  <2>3. QED
    BY <2>1, <2>2
<1>6. Formed(g)
  BY <1>5, NoneTyped DEF Formed, Tagged, SetupRequest, Words
<1>7. SetupTypes' /\ Rows' = Rows
  BY <1>1, <1>3, <1>4, <1>5, <1>6, RowsLeft
<1>8. Clean' => Withdrawing(f) /\ f.tag \notin ours
  BY <1>2, <1>3 DEF Accounts, Relies, Granted, Ungranted
<1>9. ASSUME Clean' PROVE Relies(g)' /\ Granted(g)'
  <2>1. Relies(NoForm)' /\ Ungranted(NoForm)'
    BY NoneTyped DEF Relies, Ungranted
  <2>2. CASE g # NoForm /\ f.tag = "none"
    <3>1. g.pc = "last" /\ Holding(f) /\ f.op = "style"
      BY <1>5, <1>8, <1>9, <2>2 DEF Withdrawing
    <3>2. Holding(g)'
      BY <1>1, <1>5, <1>7, <2>2, <3>1 DEF Holding, Reading
    <3>3. QED
      BY <1>1, <1>4, <1>5, <1>9, <1>2, <1>3, <1>7, <2>2, <3>1, <3>2
         DEF Relies, Granted, Ungranted, Accounts, Withdraws
  <2>3. CASE g # NoForm /\ f.tag # "none"
    <3>1. g.pc = "check" /\ f.id \in Rows /\ points[f.id].tag = f.tag
      BY <1>5, <1>8, <1>9, <2>3 DEF Withdrawing
    <3>2. OnPoint(g)'
      BY <1>1, <1>5, <1>7, <2>3, <3>1 DEF OnPoint
    <3>3. QED
      BY <1>1, <1>4, <1>5, <1>9, <1>8, <1>2, <1>3, <1>7, <2>3, <3>1, <3>2
         DEF Relies, Granted, Ungranted, Accounts, Withdraws
  <2>4. CASE g = NoForm
    BY <1>1, <1>2, <1>3, <1>4, <1>7, <1>9, <2>1, <2>4 DEF Granted, Accounts, Withdraws
  <2>5. QED
    BY <2>2, <2>3, <2>4
<1>10. ASSUME Calm', NEW j \in Rows
       PROVE  points[j].tag \in published' \/ Prepares(g, j)
  <2>1. points[j].tag \in published \/ Prepares(f, j)
    BY <1>2, <1>3, <1>10 DEF Accounts
  <2>2. CASE points[j].tag # f.old.tag /\ points[j].tag \in published
    BY <1>4, <2>2
  <2>3. CASE points[j].tag = f.old.tag
    <3>1. f.op = "style" /\ f.tag = "none" /\ j = f.id
      BY <1>3, <1>8, <1>10, <2>3 DEF Withdrawing
    <3>2. QED
      BY <1>5, <3>1 DEF Prepares
  <2>4. CASE Prepares(f, j)
    BY <1>3, <1>5, <2>4 DEF Prepares
  <2>5. QED
    BY <2>1, <2>2, <2>3, <2>4
<1>11. Accounts(g)'
  BY <1>1, <1>7, <1>9, <1>10 DEF Accounts, Prepares
<1>12. QED
  BY <1>3, <1>5, <1>7, <1>11, OnlyRequest

\* The handler asks WarLink whether the tag is published already.
LEMMA IsPublishedStep ==
    ASSUME SetupInv, NEW a \in Admins, IsTagPublished(a)
    PROVE  SetupInv'
<1>1. /\ form[a].pc = "check" /\ UNCHANGED <<points, made, published, ours>>
      /\ spoilt \subseteq spoilt'
  BY DEF IsTagPublished, SetupFault
<1>2. PICK f \in SetupRequest : f = form[a] /\ Accounts(f)
  BY <1>1, AtWork
<1>3. /\ SetupTypes /\ f.pc = "check" /\ f.tag \in Tags
      /\ ours \subseteq published /\ published \subseteq Tags
      /\ Clean' => Clean /\ \A b \in Admins \ {a} : form[b] = NoForm
      /\ Calm' => Calm /\ Clean /\ Clean'
  BY <1>1, <1>2, AtWork DEF SetupTypes, Formed, Tagged
<1>4. PICK g \in SetupRequest :
         /\ Became(a, g)
         /\ \/ g = NoForm /\ f.tag \in seen
            \/ /\ g.op = f.op /\ g.id = f.id /\ g.tag = f.tag
               /\ (g.pc = "unmark" /\ f.tag \in seen) \/ g.pc = "enable"
  <2>1. CASE f.tag \notin seen
    <3>1. Goto(a, "enable")
      BY <1>2, <2>1 DEF IsTagPublished
    <3>2. QED
      BY <1>2, <1>3, <3>1, GoesTo DEF Stages
  <2>2. CASE f.tag \in seen /\ f.op = "update"
    <3>1. Goto(a, "unmark")
      BY <1>2, <2>2 DEF IsTagPublished
    <3>2. QED
      BY <1>2, <1>3, <2>2, <3>1, GoesTo DEF Stages
  <2>3. CASE f.tag \in seen /\ f.op # "update"
    <3>1. Done(a)
      BY <1>2, <2>3 DEF IsTagPublished
    <3>2. QED
      BY <1>3, <2>3, <3>1, IsDone, NoneTyped
  <2>4. QED
    BY <2>1, <2>2, <2>3
<1>5. Formed(g) /\ ours' \subseteq published' /\ published' \subseteq Tags
  BY <1>1, <1>3, <1>4, NoneTyped DEF Formed, Tagged
<1>6. SetupTypes' /\ Rows' = Rows
  BY <1>1, <1>3, <1>4, <1>5, RowsLeft
<1>7. Clean' => OnPoint(f) /\ f.tag \notin ours
  BY <1>2, <1>3 DEF Accounts, Relies, Granted, Ungranted
<1>8. ASSUME Clean' PROVE Relies(g)' /\ Granted(g)'
  <2>1. Relies(g)' /\ Ungranted(g)'
    <3>1. CASE g = NoForm
      BY <3>1, NoneTyped DEF Relies, Ungranted
    <3>2. CASE g # NoForm
      <4>1. OnPoint(g)' /\ g.tag \notin ours' /\ g.pc \in {"unmark", "enable"}
        BY <1>1, <1>4, <1>6, <1>7, <1>8, <3>2 DEF OnPoint
      <4>2. QED
        BY <4>1 DEF Relies, Ungranted
    <3>3. QED
      BY <3>1, <3>2
  <2>2. QED
    BY <1>1, <1>2, <1>3, <1>6, <1>8, <2>1 DEF Accounts, Granted, Withdraws
<1>9. ASSUME Calm', NEW j \in Rows
      PROVE  points[j].tag \in published \/ Prepares(g, j)
  <2>1. points[j].tag \in published \/ j = f.id
    BY <1>2, <1>3, <1>9 DEF Accounts, Prepares
  <2>2. CASE j = f.id /\ f.tag \in seen
    <3>1. "lag" \notin spoilt'
      BY <1>9 DEF Calm
    <3>2. f.tag \in published
      BY <1>2, <2>2, <3>1 DEF IsTagPublished, SetupFault
    <3>3. QED
      BY <1>3, <1>7, <1>9, <2>2, <3>2 DEF OnPoint
  <2>3. CASE j = f.id /\ f.tag \notin seen
    BY <1>4, <2>3 DEF Prepares
  <2>4. QED
    BY <2>1, <2>2, <2>3
<1>10. Accounts(g)'
  BY <1>1, <1>6, <1>8, <1>9 DEF Accounts, Prepares
<1>11. QED
  BY <1>3, <1>4, <1>6, <1>10, OnlyRequest

\* The handler publishes the tag, or the call fails.
LEMMA EnableStep ==
    ASSUME SetupInv, NEW a \in Admins, EnableTagPublishing(a)
    PROVE  SetupInv'
<1>1. form[a].pc = "enable" /\ UNCHANGED <<points, made>> /\ spoilt \subseteq spoilt'
  BY DEF EnableTagPublishing, SetupFault
<1>2. PICK f \in SetupRequest : f = form[a] /\ Accounts(f)
  BY <1>1, AtWork
<1>3. /\ SetupTypes /\ f.pc = "enable" /\ f.tag \in Tags
      /\ ours \subseteq published /\ published \subseteq Tags
      /\ Clean' => Clean /\ \A b \in Admins \ {a} : form[b] = NoForm
      /\ Calm' => Calm /\ Clean /\ Clean'
  BY <1>1, <1>2, AtWork DEF SetupTypes, Formed, Tagged
<1>4. /\ published \subseteq published' /\ published' \subseteq Tags /\ ours' \subseteq published'
  BY <1>2, <1>3 DEF EnableTagPublishing
<1>5. Clean' => /\ published' = published \cup {f.tag} /\ ours' = ours \cup {f.tag}
                /\ Goto(a, "mark")
  BY <1>2 DEF EnableTagPublishing, SetupFault, Clean
<1>6. PICK g \in SetupRequest :
         /\ Became(a, g)
         /\ \/ g = NoForm
            \/ /\ g.op = f.op /\ g.id = f.id /\ g.tag = f.tag /\ g.pc \in {"mark", "unmark"}
         /\ Goto(a, "mark") => g.pc = "mark" /\ g.op = f.op /\ g.id = f.id /\ g.tag = f.tag
  <2>1. CASE Goto(a, "mark")
    BY <1>2, <1>3, <2>1, GoesTo DEF Stages
  <2>2. CASE ~Goto(a, "mark") /\ Goto(a, "unmark")
    BY <1>2, <1>3, <2>2, GoesTo DEF Stages
  <2>3. CASE ~Goto(a, "mark") /\ Done(a)
    BY <1>3, <2>3, IsDone, NoneTyped
  <2>4. QED
    BY <2>1, <2>2, <2>3 DEF EnableTagPublishing
<1>7. Formed(g)
  BY <1>3, <1>6, NoneTyped DEF Formed, Tagged
<1>8. SetupTypes' /\ Rows' = Rows
  BY <1>1, <1>3, <1>4, <1>6, <1>7, RowsLeft
<1>9. Clean' => g.pc = "mark" /\ OnPoint(f) /\ g.op = f.op /\ g.id = f.id /\ g.tag = f.tag
  BY <1>2, <1>3, <1>5, <1>6 DEF Accounts, Relies
<1>10. ASSUME Clean' PROVE Relies(g)' /\ Granted(g)'
  <2>1. OnPoint(g)'
    BY <1>1, <1>8, <1>9, <1>10 DEF OnPoint
  <2>2. Relies(g)' /\ Ungranted(g)'
    BY <1>9, <1>10, <2>1 DEF Relies, Ungranted
  <2>3. ASSUME NEW t \in ours' PROVE (\E i \in Rows : points[i].managed /\ points[i].tag = t)
                                     \/ Withdraws(g, t)
    <3>1. CASE t \in ours
      BY <1>2, <1>3, <1>10, <3>1 DEF Accounts, Granted, Withdraws
    <3>2. CASE t = f.tag
      BY <1>9, <1>10, <3>2 DEF Withdraws
    <3>3. QED
      BY <1>5, <1>10, <2>3, <3>1, <3>2
  <2>4. QED
    BY <1>1, <1>8, <2>2, <2>3 DEF Granted
<1>11. ASSUME Calm', NEW j \in Rows
       PROVE  points[j].tag \in published'
  <2>1. points[j].tag \in published \/ j = f.id
    BY <1>2, <1>3, <1>11 DEF Accounts, Prepares
  <2>2. points[f.id].tag = f.tag /\ f.tag \in published'
    BY <1>3, <1>5, <1>9, <1>11 DEF OnPoint
  <2>3. QED
    BY <1>4, <2>1, <2>2
<1>12. Accounts(g)'
  BY <1>1, <1>8, <1>10, <1>11 DEF Accounts
<1>13. QED
  BY <1>3, <1>6, <1>8, <1>12, OnlyRequest

\* The row is marked as published by the edge, or as not.
LEMMA ManagedStep ==
    ASSUME SetupInv, NEW a \in Admins, SetReportingPointManaged(a)
    PROVE  SetupInv'
<1>1. /\ form[a].pc \in {"mark", "unmark"} /\ UNCHANGED <<made, published, ours, spoilt>>
      /\ Done(a)
  BY DEF SetReportingPointManaged
<1>2. PICK f \in SetupRequest : f = form[a] /\ Accounts(f)
  BY <1>1, AtWork
<1>3. /\ SetupTypes /\ f.pc \in {"mark", "unmark"}
      /\ ours \subseteq published /\ published \subseteq Tags
      /\ Clean' => Clean /\ \A b \in Admins \ {a} : form[b] = NoForm
      /\ Calm' => Calm /\ Clean /\ Clean'
  BY <1>1, <1>2, AtWork DEF SetupTypes
<1>4. Became(a, NoForm) /\ NoForm \in SetupRequest /\ Formed(NoForm)
  BY <1>1, <1>3, IsDone, NoneTyped DEF Formed, Tagged
<1>5. \A j : ~Prepares(f, j)
  BY <1>3 DEF Prepares
<1>6. CASE f.id \notin Rows
  <2>1. UNCHANGED points
    BY <1>2, <1>6 DEF SetReportingPointManaged
  <2>2. SetupTypes' /\ Rows' = Rows
    BY <1>1, <1>3, <1>4, <2>1, RowsLeft
  <2>3. ~Clean'
    BY <1>2, <1>3, <1>6 DEF Accounts, Relies, OnPoint
  <2>4. Accounts(NoForm)'
    BY <1>3, <2>3, NothingLeft
  <2>5. QED
    BY <1>3, <1>4, <2>2, <2>4, OnlyRequest
<1>7. CASE f.id \in Rows
  <2>1. PICK i, m : i = f.id /\ m = (f.pc = "mark")
    OBVIOUS
  <2>2. PICK p : p = [points[i] EXCEPT !.managed = m]
    OBVIOUS
  <2>3. i \in Ids /\ i \in Rows /\ points \in [Ids -> Point] /\ points[i] \in Point
    BY <1>3, <1>7, <2>1 DEF Rows, SetupTypes
  <2>4. m \in BOOLEAN
    BY <2>1
  <2>5. p \in Point /\ p.tag = points[i].tag /\ p.managed = m
    BY <2>2, <2>3, <2>4 DEF Point
  <2>6. points' = [points EXCEPT ![i] = p]
    BY <1>2, <1>7, <2>1, <2>2, <2>3 DEF SetReportingPointManaged
  <2>7. ~(i > made) /\ made \in 0..MaxPoints /\ made' = made
    BY <1>1, <1>3, <2>3 DEF SetupTypes, Rows
  <2>8. made' \in 0..MaxPoints /\ made <= made' /\ i <= made'
    BY <2>3, <2>7, SetupAssumption DEF Ids
  <2>9. \A j \in Rows \ {i} : points[j].tag # p.tag
    BY <1>3, <2>3, <2>5 DEF SetupTypes
  <2>10. p.tag # "none"
    BY <1>3, <2>3, <2>5 DEF SetupTypes
  <2>11. /\ points' \in [Ids -> Point] /\ points'[i] = p
         /\ \A j \in Ids \ {i} : points'[j] = points[j]
         /\ Rows' = Rows \cup {i}
         /\ \A j \in Ids : j > made' => points'[j] = NoPoint
         /\ \A j, k \in Rows' : j # k => points'[j].tag # points'[k].tag
         /\ \A j \in Rows' : points'[j].tag # "none"
    BY <1>3, <2>3, <2>5, <2>6, <2>8, <2>9, <2>10, RowWritten
  <2>12. SetupTypes'
    BY <1>1, <1>3, <1>4, <2>8, <2>11 DEF SetupTypes, Became, Formed
  <2>13. Rows' = Rows /\ \A j \in Rows : j \in Ids /\ points'[j].tag = points[j].tag
    BY <2>3, <2>5, <2>11 DEF Rows
  <2>14. ASSUME Clean', NEW t \in ours
        PROVE  \E j \in Rows' : points'[j].managed /\ points'[j].tag = t
    <3>1. points[i].tag = f.tag /\ (f.pc = "unmark" => f.tag \notin ours)
      BY <1>2, <1>3, <2>1, <2>14 DEF Accounts, Relies, OnPoint, Granted, Ungranted
    <3>2. CASE t = f.tag
      <4>1. m = TRUE
        BY <1>3, <2>1, <2>14, <3>1, <3>2
      <4>2. QED
        BY <2>3, <2>5, <2>11, <2>13, <3>1, <3>2, <4>1
    <3>3. CASE t # f.tag
      <4>1. PICK j \in Rows : points[j].managed /\ points[j].tag = t
        BY <1>2, <1>3, <2>14, <3>3 DEF Accounts, Granted, Withdraws
      <4>2. j # i
        BY <3>1, <3>3, <4>1
      <4>3. QED
        BY <2>11, <2>13, <4>1, <4>2
    <3>4. QED
      BY <3>2, <3>3
  <2>15. ASSUME Calm', NEW j \in Rows' PROVE points'[j].tag \in published'
    BY <1>1, <1>2, <1>3, <1>5, <2>13, <2>15 DEF Accounts
  <2>16. Accounts(NoForm)'
    BY <1>1, <2>14, <2>15, NothingLeft
  <2>17. QED
    BY <1>3, <1>4, <2>12, <2>16, OnlyRequest
<1>8. QED
  BY <1>6, <1>7

\* A request begins alone, or the fault "overlap" is recorded.
LEMMA OpensStep ==
    ASSUME SetupInv, NEW a \in Admins, NEW g \in SetupRequest, Opens(a, g), Formed(g),
           g.pc \in {"idle", "insert", "read"}, Relies(g)
    PROVE  SetupInv'
<1>1. /\ form[a] = NoForm /\ form' = [form EXCEPT ![a] = g] /\ spoilt \subseteq spoilt'
      /\ UNCHANGED <<points, made, published, ours>>
  BY DEF Opens, SetupFault
<1>2. SetupTypes /\ form \in [Admins -> SetupRequest] /\ ours \subseteq published
      /\ published \subseteq Tags
  BY DEF SetupInv, SetupTypes
<1>3. Became(a, g)
  BY <1>1, <1>2 DEF Became
<1>4. SetupTypes' /\ Rows' = Rows
  BY <1>1, <1>2, <1>3, RowsLeft
<1>5. Clean' => Clean /\ \A b \in Admins : form[b] = NoForm
  BY DEF Opens, SetupFault, Clean
<1>6. Calm' => Calm /\ Clean /\ Clean'
  BY <1>1 DEF Calm, Clean
<1>7. Relies(g)'
  BY <1>1, <1>4 DEF Relies, Reading
<1>8. \A t, i : ~Withdraws(NoForm, t) /\ ~Prepares(NoForm, i)
  BY NoneTyped DEF Withdraws, Prepares
<1>9. ASSUME Clean' PROVE Granted(g)'
  <2>1. Ungranted(g)'
    BY DEF Ungranted
  <2>2. ASSUME NEW t \in ours PROVE \E i \in Rows : points[i].managed /\ points[i].tag = t
    BY <1>5, <1>8, <1>9, <2>2 DEF SetupInv, OursManaged
  <2>3. QED
    BY <1>1, <1>4, <2>1, <2>2 DEF Granted
<1>10. ASSUME Calm', NEW i \in Rows PROVE points[i].tag \in published
  BY <1>5, <1>6, <1>8, <1>10 DEF SetupInv, RowsPublished
<1>11. Accounts(g)'
  BY <1>1, <1>4, <1>7, <1>9, <1>10 DEF Accounts
<1>12. QED
  BY <1>3, <1>4, <1>5, <1>11, OnlyRequest

\* Every request that begins.
LEMMA RequestsStep ==
    ASSUME SetupInv, NEW a \in Admins,
           \/ CreateReportingPoint(a) \/ UpdateReportingPoint(a) \/ DeleteReportingPoint(a)
           \/ CreateJobStyle(a) \/ UpdateJobStyle(a) \/ DeleteJobStyle(a)
    PROVE  SetupInv'
<1>1. Relies(NoForm) /\ Formed(NoForm) /\ NoForm \in SetupRequest /\ NoForm.pc = "idle"
  BY NoneTyped DEF Relies, Formed, Tagged
<1>2. ASSUME NEW op \in {"create", "update", "delete", "style"}, NEW pc \in {"insert", "read"},
             NEW i \in 0..MaxPoints, NEW t \in Words, NEW s \in Styles \cup {"none"}, NEW g,
             g = [op |-> op, pc |-> pc, id |-> i, tag |-> t, style |-> s, old |-> NoPoint],
             Opens(a, g),
             \/ op = "create" /\ pc = "insert" /\ t # "none"
             \/ op \in {"update", "delete"} /\ pc = "read" /\ i \in Rows
                /\ (op = "update" <=> t # "none")
             \/ op = "style" /\ pc = "read"
      PROVE  SetupInv'
  <2>1. g \in SetupRequest
    BY <1>2, NoneTyped DEF SetupRequest, Ops, Stages
  <2>2. Formed(g)
    BY <1>2 DEF Formed, Tagged, Words, Rows
  <2>3. Relies(g)
    BY <1>2 DEF Relies, Reading
  <2>4. QED
    BY <1>2, <2>1, <2>2, <2>3, OpensStep
<1>3. 0 \in 0..MaxPoints /\ \A i \in Rows : i \in 0..MaxPoints
  BY SetupAssumption DEF Rows, Ids
<1>4. CASE CreateReportingPoint(a)
  <2>1. PICK t \in Tags, s \in Live :
           Opens(a, [NoForm EXCEPT !.op = "create", !.pc = "insert", !.tag = t, !.style = s])
    BY <1>4 DEF CreateReportingPoint
  <2>2. PICK g : g = [NoForm EXCEPT !.op = "create", !.pc = "insert", !.tag = t, !.style = s]
    OBVIOUS
  <2>3. /\ Opens(a, g)
        /\ g = [op |-> "create", pc |-> "insert", id |-> 0, tag |-> t, style |-> s,
                        old |-> NoPoint]
    BY <2>1, <2>2 DEF NoForm
  <2>4. QED
    BY <1>2, <1>3, <2>3, SetupAssumption DEF Words, Live
<1>5. CASE UpdateReportingPoint(a)
  <2>1. PICK i \in Rows, t \in Tags, s \in Live :
           Opens(a, [NoForm EXCEPT !.op = "update", !.pc = "read", !.id = i, !.tag = t,
                                   !.style = s])
    BY <1>5 DEF UpdateReportingPoint
  <2>2. PICK g : g = [NoForm EXCEPT !.op = "update", !.pc = "read", !.id = i, !.tag = t, !.style = s]
    OBVIOUS
  <2>3. /\ Opens(a, g)
        /\ g = [op |-> "update", pc |-> "read", id |-> i, tag |-> t, style |-> s,
                        old |-> NoPoint]
    BY <2>1, <2>2 DEF NoForm
  <2>4. QED
    BY <1>2, <1>3, <2>3, SetupAssumption DEF Words, Live
<1>6. CASE DeleteReportingPoint(a)
  <2>1. PICK i \in Rows :
           Opens(a, [NoForm EXCEPT !.op = "delete", !.pc = "read", !.id = i])
    BY <1>6 DEF DeleteReportingPoint
  <2>2. PICK g : g = [NoForm EXCEPT !.op = "delete", !.pc = "read", !.id = i]
    OBVIOUS
  <2>3. /\ Opens(a, g)
        /\ g = [op |-> "delete", pc |-> "read", id |-> i, tag |-> "none",
                        style |-> "none", old |-> NoPoint]
    BY <2>1, <2>2 DEF NoForm
  <2>4. QED
    BY <1>2, <1>3, <2>3 DEF Words
<1>7. CASE CreateJobStyle(a)
  <2>1. PICK s \in Styles, t \in Words :
           Opens(a, IF t = "none" THEN NoForm
                    ELSE [NoForm EXCEPT !.op = "create", !.pc = "insert", !.tag = t,
                                        !.style = s])
    BY <1>7 DEF CreateJobStyle, Words
  <2>2. CASE t = "none"
    BY <1>1, <2>1, <2>2, OpensStep
  <2>3. CASE t # "none"
    <3>1. PICK g : g = [NoForm EXCEPT !.op = "create", !.pc = "insert", !.tag = t, !.style = s]
      OBVIOUS
    <3>2. /\ Opens(a, g)
          /\ g = [op |-> "create", pc |-> "insert", id |-> 0, tag |-> t, style |-> s,
                          old |-> NoPoint]
      BY <2>1, <2>3, <3>1 DEF NoForm
    <3>3. QED
      BY <1>2, <1>3, <2>3, <3>2
  <2>4. QED
    BY <2>2, <2>3
<1>8. CASE UpdateJobStyle(a)
  <2>1. PICK t \in Words, s \in Live :
           Opens(a, [NoForm EXCEPT !.op = "style", !.pc = "read", !.tag = t, !.style = s])
    BY <1>8 DEF UpdateJobStyle, Words
  <2>2. PICK g : g = [NoForm EXCEPT !.op = "style", !.pc = "read", !.tag = t, !.style = s]
    OBVIOUS
  <2>3. /\ Opens(a, g)
        /\ g = [op |-> "style", pc |-> "read", id |-> 0, tag |-> t, style |-> s,
                        old |-> NoPoint]
    BY <2>1, <2>2 DEF NoForm
  <2>4. QED
    BY <1>2, <1>3, <2>3 DEF Live
<1>9. CASE DeleteJobStyle(a)
  BY <1>1, <1>9, OpensStep DEF DeleteJobStyle
<1>10. QED
  BY <1>4, <1>5, <1>6, <1>7, <1>8, <1>9

\* What happens beside the requests: a crash, another's tag, a lag of WarLink.
LEMMA WorldStep ==
    ASSUME SetupInv, OthersPublish \/ RefreshCache \/ CrashInSetup
    PROVE  SetupInv'
<1>1. /\ UNCHANGED <<points, made>> /\ Rows' = Rows /\ spoilt \subseteq spoilt'
      /\ (Clean' => Clean) /\ (Calm' => Calm)
  BY DEF OthersPublish, RefreshCache, CrashInSetup, SetupFault, Rows, Clean, Calm
<1>2. SetupTypes
  BY DEF SetupInv
<1>3. CASE UNCHANGED form
  <2>1. /\ ours' \subseteq ours /\ ours' \subseteq published' /\ published' \subseteq Tags
        /\ Calm' => published \subseteq published'
    BY <1>2, <1>3 DEF OthersPublish, RefreshCache, CrashInSetup, SetupFault, Calm, SetupTypes
  <2>2. SetupTypes'
    BY <1>1, <1>2, <1>3, <2>1 DEF SetupTypes, Formed
  <2>3. ASSUME Clean' PROVE Alone' /\ (\A a \in Admins : Relies(form[a])') /\ OursManaged'
    <3>1. Alone /\ (\A a \in Admins : Relies(form[a])) /\ OursManaged
      BY <1>1, <2>3 DEF SetupInv
    <3>2. Alone'
      BY <1>3, <3>1 DEF Alone
    <3>3. \A a \in Admins : Relies(form[a])'
      BY <1>1, <1>3, <3>1 DEF Relies, Reading, Holding, Withdrawing, OnPoint
    <3>4. OursManaged'
      BY <1>1, <1>3, <2>1, <3>1 DEF OursManaged, Ungranted, Withdraws
    <3>5. QED
      BY <3>2, <3>3, <3>4
  <2>4. Calm' => RowsPublished'
    BY <1>1, <1>3, <2>1 DEF SetupInv, RowsPublished, Prepares
  <2>5. QED
    BY <2>2, <2>3, <2>4 DEF SetupInv
<1>4. CASE CrashInSetup
  <2>1. /\ form' = [a \in Admins |-> NoForm] /\ UNCHANGED <<published, ours>>
        /\ "crash" \in spoilt'
    BY <1>4 DEF CrashInSetup, SetupFault
  <2>2. ~Clean' /\ ~Calm'
    BY <2>1 DEF Clean, Calm
  <2>3. SetupTypes'
    BY <1>1, <1>2, <2>1, NoneTyped DEF SetupTypes, Formed, Tagged
  <2>4. QED
    BY <2>2, <2>3 DEF SetupInv
<1>5. QED
  BY <1>3, <1>4 DEF OthersPublish, RefreshCache

\* Every step of the setup.
LEMMA SetupStep ==
    SetupInv /\ [SetupNext]_setupVars => SetupInv'
<1> SUFFICES ASSUME SetupInv, [SetupNext]_setupVars PROVE SetupInv'
  OBVIOUS
<1>1. CASE UNCHANGED setupVars
  BY <1>1 DEF setupVars, SetupInv, SetupTypes, Formed, Rows, Clean, Calm, Alone, Relies, Reading,
              Holding, Withdrawing, OnPoint, OursManaged, Ungranted, Withdraws, RowsPublished,
              Prepares
<1>2. CASE OthersPublish \/ RefreshCache \/ CrashInSetup
  BY <1>2, WorldStep
<1>3. ASSUME NEW a \in Admins,
             \/ CreateReportingPoint(a) \/ UpdateReportingPoint(a) \/ DeleteReportingPoint(a)
             \/ CreateJobStyle(a) \/ UpdateJobStyle(a) \/ DeleteJobStyle(a)
      PROVE  SetupInv'
  BY <1>3, RequestsStep
<1>4. ASSUME NEW a \in Admins,
             \/ Insert(a) \/ ReadOld(a) \/ Write(a) \/ DeletePoint(a)
             \/ DisableTagPublishing(a) \/ IsTagPublished(a) \/ EnableTagPublishing(a)
             \/ SetReportingPointManaged(a)
      PROVE  SetupInv'
  BY <1>4, InsertStep, ReadOldStep, WriteStep, DeletePointStep, DisableStep, IsPublishedStep,
     EnableStep, ManagedStep
<1>5. QED
  BY <1>1, <1>2, <1>3, <1>4 DEF SetupNext

\* The edge starts with no request, and with the tags of others.
LEMMA SetupStart == SetupInit => SetupInv
<1> SUFFICES ASSUME SetupInit PROVE SetupInv
  OBVIOUS
<1>1. /\ points \in [Ids -> Point] /\ \A i \in Ids : points[i] = NoPoint
      /\ form \in [Admins -> SetupRequest] /\ \A a \in Admins : form[a] = NoForm
  BY NoneTyped DEF SetupInit
<1>2. Rows = {}
  BY <1>1 DEF Rows
<1>3. made \in 0..MaxPoints /\ ours = {} /\ published \subseteq Tags
  BY SetupAssumption DEF SetupInit
<1>4. \A a \in Admins : Formed(form[a]) /\ Relies(form[a]) /\ Ungranted(form[a])
  BY <1>1, NoneTyped DEF Formed, Tagged, Relies, Ungranted
<1>5. SetupTypes
  BY <1>1, <1>2, <1>3, <1>4 DEF SetupTypes
<1>6. QED
  BY <1>1, <1>2, <1>3, <1>4, <1>5 DEF SetupInv, Alone, OursManaged, RowsPublished

\* The invariant says what the two properties do.
LEMMA SetupSettled == SetupInv => PointHasItsTag /\ NoTagLeft
<1> SUFFICES ASSUME SetupInv PROVE PointHasItsTag /\ NoTagLeft
  OBVIOUS
<1>1. ASSUME Settled
      PROVE  \A a \in Admins : \A t, i : ~Withdraws(form[a], t) /\ ~Prepares(form[a], i)
  BY <1>1, NoneTyped DEF Settled, Withdraws, Prepares
<1>2. PointHasItsTag
  <2>1. ASSUME Settled,
               spoilt \cap {"lag", "refused", "call_fails", "crash", "overlap",
                            "others_unpublish"} = {}
        PROVE  \A i \in Rows : points[i].tag \in published
    <3>1. Calm
      BY <2>1 DEF Calm, Clean
    <3>2. QED
      BY <1>1, <2>1, <3>1 DEF SetupInv, RowsPublished
  <2>2. QED
    BY <2>1 DEF PointHasItsTag
<1>3. NoTagLeft
  <2>1. ASSUME Settled, spoilt \cap {"refused", "call_fails", "crash", "overlap"} = {},
               NEW t \in ours
        PROVE  \E i \in Rows : points[i].managed /\ points[i].tag = t
    <3>1. OursManaged
      BY <2>1 DEF Clean, SetupInv
    <3>2. QED
      BY <1>1, <2>1, <3>1 DEF OursManaged
  <2>2. QED
    BY <2>1 DEF NoTagLeft
<1>4. QED
  BY <1>2, <1>3

\* Proof of PointHasItsTag: while no call fails, nobody overlaps and nobody else
\* withdraws a tag, every point whose request is over has its tag published.
THEOREM PointsTagged == SetupSpec => []PointHasItsTag
BY SetupStart, SetupStep, SetupSettled, PTL DEF SetupSpec

\* Proof of NoTagLeft: while no call fails and no request is refused or overlapped,
\* a tag the edge published and no longer wants is withdrawn.
THEOREM TagsWithdrawn == SetupSpec => []NoTagLeft
BY SetupStart, SetupStep, SetupSettled, PTL DEF SetupSpec

-----------------------------------------------------------------------------
(* The copy of the nodes: what a move has changed and not yet refreshed is  *)
(* pending, everything else that changed is unfresh.                        *)

Places == Nodes \cup {NoNode, NoPayload}
Lists == {list \in SUBSET (Payloads \X BOOLEAN) : \A r, q \in list : r[1] = q[1] => r = q}
Counts == {Cardinality(list) : list \in Lists}
Copy == [up : BOOLEAN, meta : SUBSET Nodes, items : [Nodes -> Lists], count : [Nodes -> Counts]]
Move == [at : {"idle", "move", "unclaim", "list_from", "items_from", "count_from",
               "list_to", "items_to", "count_to"},
         payload : Payloads \cup {NoPayload}, from : Nodes \cup {NoNode},
         to : Nodes \cup {NoNode}, list : Lists]

StateTypes ==
    /\ placed \in [Payloads -> Places] /\ claimed \in [Payloads -> BOOLEAN]
    /\ nodes \subseteq Nodes
    /\ cache \in Copy /\ mover \in Move
    /\ mover.at # "idle" => mover.payload \in Payloads /\ mover.to \in Nodes
    /\ mover.at \in {"list_from", "items_from", "count_from"} => mover.from \in Nodes

\* What the move under way has still to write: the items of a node, its count.
ItemsToCome(n) ==
    \/ mover.at \in {"unclaim", "list_from", "items_from"} /\ n \in {mover.from, mover.to}
    \/ mover.at \in {"count_from", "list_to", "items_to"} /\ n = mover.to

CountToCome(n) ==
    \/ mover.at \in {"unclaim", "list_from", "items_from", "count_from"}
       /\ n \in {mover.from, mover.to}
    \/ mover.at \in {"list_to", "items_to", "count_to"} /\ n = mover.to

Copied(n) ==
    /\ cache.items[n] = RowsAt(n) \/ ItemsToCome(n)
    /\ cache.count[n] = Cardinality(RowsAt(n)) \/ CountToCome(n)

\* The list in the mover's hand is what the rows say, or its node is unfresh.
ListTrue ==
    mover.at \in {"items_from", "count_from", "items_to", "count_to"} /\ Refreshed \notin unfresh =>
        mover.list = RowsAt(Refreshed)

\* The payload that lost its place is where the move put it, or told as unfresh.
MovedTo ==
    mover.at = "unclaim" =>
        placed[mover.payload] \in {mover.to, NoNode, NoPayload} \cup unfresh

CopyInv ==
    /\ StateTypes
    /\ \A n \in nodes \ unfresh : Copied(n)
    /\ ListTrue /\ MovedTo

\* A step that leaves the rows alone leaves what is listed of every node.
LEMMA SameRows ==
    ASSUME NEW n,
           \A q \in Payloads :
              (placed'[q] = n <=> placed[q] = n) /\ (placed[q] = n => claimed'[q] = claimed[q])
    PROVE  RowsAt(n)' = RowsAt(n)
<1>1. ASSUME NEW r PROVE r \in RowsAt(n)' <=> r \in RowsAt(n)
  <2>1. r \in RowsAt(n)' <=> \E q \in Payloads : placed'[q] = n /\ r = <<q, claimed'[q]>>
    BY DEF RowsAt
  <2>2. r \in RowsAt(n) <=> \E q \in Payloads : placed[q] = n /\ r = <<q, claimed[q]>>
    BY DEF RowsAt
  <2>3. QED
    BY <2>1, <2>2
<1>2. QED
  BY <1>1 DEF RowsAt

\* What the rows list of a node is a list, and its length a count.
LEMMA RowsTyped ==
    ASSUME placed \in [Payloads -> Places], claimed \in [Payloads -> BOOLEAN], NEW n
    PROVE  RowsAt(n) \in Lists /\ Cardinality(RowsAt(n)) \in Counts
BY DEF RowsAt, Lists, Counts

\* A row may change beside the moves when its nodes are told as unfresh.
LEMMA RowsChange ==
    ASSUME CopyInv, UNCHANGED <<cache, mover, nodes>>, unfresh \subseteq unfresh',
           placed' \in [Payloads -> Places], claimed' \in [Payloads -> BOOLEAN],
           \A q \in Payloads : placed'[q] # placed[q] \/ claimed'[q] # claimed[q] =>
              {placed[q], placed'[q]} \cap Nodes \subseteq unfresh'
    PROVE  CopyInv'
<1>1. StateTypes'
  BY DEF CopyInv, StateTypes
<1>2. \A n \in Nodes \ unfresh' : RowsAt(n)' = RowsAt(n)
  BY SameRows
<1>3. \A n \in nodes' \ unfresh' : Copied(n)'
  BY <1>2 DEF CopyInv, StateTypes, Copied, ItemsToCome, CountToCome
<1>4. Refreshed' = Refreshed
  BY DEF Refreshed
<1>5. ListTrue'
  <2>1. ASSUME mover.at \in {"items_from", "count_from", "items_to", "count_to"},
               Refreshed \notin unfresh'
        PROVE  mover.list = RowsAt(Refreshed)'
    <3>1. Refreshed \in Nodes
      BY <2>1 DEF CopyInv, StateTypes, Refreshed
    <3>2. PICK n \in Nodes : n = Refreshed
      BY <3>1
    <3>3. RowsAt(n)' = RowsAt(n) /\ mover.list = RowsAt(n)
      BY <1>2, <2>1, <3>2 DEF CopyInv, ListTrue
    <3>4. QED
      BY <1>4, <3>2, <3>3 DEF RowsAt
  <2>2. QED
    BY <1>4, <2>1 DEF ListTrue
<1>6. MovedTo'
  <2>1. ASSUME mover.at = "unclaim"
        PROVE  placed'[mover.payload] \in {mover.to, NoNode, NoPayload} \cup unfresh'
    <3>1. mover.payload \in Payloads
      BY <2>1 DEF CopyInv, StateTypes
    <3>2. placed[mover.payload] \in {mover.to, NoNode, NoPayload} \cup unfresh
      BY <2>1 DEF CopyInv, MovedTo
    <3>3. placed'[mover.payload] \in Places
      BY <3>1
    <3>4. QED
      BY <3>1, <3>2, <3>3 DEF Places
  <2>2. QED
    BY <2>1 DEF MovedTo
<1>7. QED
  BY <1>1, <1>3, <1>5, <1>6 DEF CopyInv

\* The steps of a form of the web that touch the rows.
LEMMA FormSteps ==
    ASSUME CopyInv, NEW p \in Payloads,
           \/ ClaimPayload(p) \/ HandlePayloadCreate(p)
           \/ HandlePayloadUpdate(p) \/ HandlePayloadDelete(p)
    PROVE  CopyInv'
<1>1. placed \in [Payloads -> Places] /\ claimed \in [Payloads -> BOOLEAN]
      /\ nodes \subseteq Nodes
  BY DEF CopyInv, StateTypes
<1>2. TRUE \in BOOLEAN /\ FALSE \in BOOLEAN
  OBVIOUS
<1>3. CASE ClaimPayload(p)
  BY <1>1, <1>2, <1>3, RowsChange DEF ClaimPayload
<1>4. ASSUME NEW n \in Places, PlaceForm(p, n),
             claimed' = claimed \/ (claimed' = [claimed EXCEPT ![p] = FALSE] /\ n = NoPayload)
      PROVE  CopyInv'
  <2>1. placed' \in [Payloads -> Places] /\ claimed' \in [Payloads -> BOOLEAN]
    BY <1>1, <1>2, <1>4 DEF PlaceForm
  <2>2. \A q \in Payloads : placed'[q] # placed[q] \/ claimed'[q] # claimed[q] => q = p
    BY <1>1, <1>4 DEF PlaceForm
  <2>3. placed'[p] = n /\ {placed[p], n} \cap Nodes \subseteq unfresh'
    BY <1>1, <1>4 DEF PlaceForm
  <2>4. QED
    BY <1>4, <2>1, <2>2, <2>3, RowsChange DEF PlaceForm
<1>5. CASE HandlePayloadCreate(p) \/ HandlePayloadUpdate(p)
  BY <1>1, <1>4, <1>5 DEF HandlePayloadCreate, HandlePayloadUpdate, Places
<1>6. CASE HandlePayloadDelete(p)
  BY <1>4, <1>6 DEF HandlePayloadDelete, Places
<1>7. QED
  BY <1>3, <1>5, <1>6

\* A completed order asks for a move.
LEMMA CompleteStep ==
    ASSUME CopyInv, NEW p \in Payloads, NEW to \in Nodes, CompleteOrder(p, to)
    PROVE  CopyInv'
<1>1. PICK from : from = placed[p]
  OBVIOUS
<1>2. /\ mover.at = "idle" /\ UNCHANGED <<placed, claimed, nodes, cache, unfresh>>
      /\ mover' = [Idle EXCEPT !.at = "move", !.payload = p, !.from = from, !.to = to]
      /\ from \in Nodes \cup {NoNode}
  BY <1>1 DEF CompleteOrder, CopyInv, StateTypes, Places
<1>3. mover' = [at |-> "move", payload |-> p, from |-> from, to |-> to, list |-> {}]
  BY <1>2 DEF Idle
<1>4. {} \in Lists
  BY DEF Lists
<1>5. mover' \in Move /\ mover'.at = "move" /\ mover'.payload = p /\ mover'.to = to
  BY <1>2, <1>3, <1>4 DEF Move
<1>6. StateTypes'
  BY <1>2, <1>5 DEF CopyInv, StateTypes
<1>7. \A n \in nodes' \ unfresh' : Copied(n)'
  BY <1>2, <1>5 DEF CopyInv, Copied, RowsAt, ItemsToCome, CountToCome
<1>8. QED
  BY <1>5, <1>6, <1>7 DEF CopyInv, ListTrue, MovedTo

\* The move writes the row of the payload.
LEMMA MoveRowStep ==
    ASSUME CopyInv, MoveRow
    PROVE  CopyInv'
<1>1. PICK p, to, from : p = mover.payload /\ to = mover.to /\ from = mover.from
  OBVIOUS
<1>2. /\ mover.at = "move" /\ mover' = [mover EXCEPT !.at = "unclaim"]
      /\ UNCHANGED <<claimed, nodes, cache>>
      /\ placed' = IF placed[p] = NoPayload THEN placed ELSE [placed EXCEPT ![p] = to]
      /\ unfresh \subseteq unfresh' /\ (placed[p] \in Nodes \ {from} => placed[p] \in unfresh')
  BY <1>1 DEF MoveRow
<1>3. /\ mover \in Move /\ p \in Payloads /\ to \in Nodes
      /\ placed \in [Payloads -> Places] /\ nodes \subseteq Nodes
  BY <1>1, <1>2 DEF CopyInv, StateTypes
<1>4. /\ mover' \in Move /\ mover'.at = "unclaim" /\ mover'.payload = p /\ mover'.to = to
      /\ mover'.from = from
  BY <1>1, <1>2, <1>3 DEF Move
<1>5. placed' \in [Payloads -> Places]
  BY <1>2, <1>3 DEF Places
<1>6. StateTypes'
  BY <1>2, <1>3, <1>4, <1>5 DEF CopyInv, StateTypes
<1>7. ASSUME NEW n \in nodes \ unfresh' PROVE Copied(n)'
  <2>1. CASE n \in {from, to}
    BY <1>4, <2>1 DEF Copied, ItemsToCome, CountToCome
  <2>2. CASE n \notin {from, to}
    <3>1. \A q \in Payloads : placed'[q] = n <=> placed[q] = n
      BY <1>2, <1>3, <1>7, <2>2
    <3>2. RowsAt(n)' = RowsAt(n)
      BY <1>2, <3>1, SameRows
    <3>3. Copied(n) /\ ~ItemsToCome(n) /\ ~CountToCome(n)
      BY <1>2, <1>7 DEF CopyInv, ItemsToCome, CountToCome
    <3>4. QED
      BY <1>2, <3>2, <3>3 DEF Copied
  <2>3. QED
    BY <2>1, <2>2
<1>8. MovedTo'
  BY <1>2, <1>3, <1>4 DEF MovedTo
<1>9. QED
  BY <1>2, <1>4, <1>6, <1>7, <1>8 DEF CopyInv, ListTrue

\* The move takes the claim off the row.
LEMMA UnclaimStep ==
    ASSUME CopyInv, UnclaimPayload
    PROVE  CopyInv'
<1>1. PICK p, to, from, at : p = mover.payload /\ to = mover.to /\ from = mover.from
                             /\ at = NextNode(mover)
  OBVIOUS
<1>2. /\ mover.at = "unclaim" /\ mover' = [mover EXCEPT !.at = at]
      /\ UNCHANGED <<placed, nodes, cache, unfresh>>
      /\ claimed' = [claimed EXCEPT ![p] = FALSE]
  BY <1>1 DEF UnclaimPayload
<1>3. /\ mover \in Move /\ p \in Payloads /\ to \in Nodes
      /\ claimed \in [Payloads -> BOOLEAN] /\ nodes \subseteq Nodes
  BY <1>1, <1>2 DEF CopyInv, StateTypes
<1>4. at \in {"list_from", "list_to"} /\ (at = "list_from" <=> from \in Nodes)
  BY <1>1 DEF NextNode
<1>5. /\ mover' \in Move /\ mover'.at = at /\ mover'.payload = p /\ mover'.to = to
      /\ mover'.from = from
  BY <1>1, <1>2, <1>3, <1>4 DEF Move
<1>6. FALSE \in BOOLEAN
  OBVIOUS
<1>7. claimed' \in [Payloads -> BOOLEAN]
  BY <1>2, <1>3, <1>6
<1>8. StateTypes'
  BY <1>2, <1>3, <1>4, <1>5, <1>7 DEF CopyInv, StateTypes
<1>9. ASSUME NEW n \in nodes \ unfresh PROVE Copied(n)'
  <2>1. CASE n \in {from, to}
    BY <1>3, <1>4, <1>5, <2>1 DEF Copied, ItemsToCome, CountToCome
  <2>2. CASE n \notin {from, to}
    <3>1. placed[p] # n
      BY <1>1, <1>2, <1>3, <1>9, <2>2, NodeStateAssumption DEF CopyInv, MovedTo
    <3>2. \A q \in Payloads : placed[q] = n => claimed'[q] = claimed[q]
      BY <1>2, <1>3, <3>1
    <3>3. RowsAt(n)' = RowsAt(n)
      BY <1>2, <3>2, SameRows
    <3>4. Copied(n) /\ ~ItemsToCome(n) /\ ~CountToCome(n)
      BY <1>1, <1>2, <1>9, <2>2 DEF CopyInv, ItemsToCome, CountToCome
    <3>5. QED
      BY <1>2, <3>3, <3>4 DEF Copied
  <2>3. QED
    BY <2>1, <2>2
<1>10. QED
  BY <1>2, <1>4, <1>5, <1>8, <1>9 DEF CopyInv, ListTrue, MovedTo

\* The move reads what a node lists.
LEMMA ListStep ==
    ASSUME CopyInv, ListPayloadsByNode
    PROVE  CopyInv'
<1>1. PICK n, at, list : /\ n = Refreshed /\ list = RowsAt(n)
                         /\ at = IF mover.at = "list_from" THEN "items_from" ELSE "items_to"
  OBVIOUS
<1>2. PICK m : m = [mover EXCEPT !.list = list]
  OBVIOUS
<1>3. /\ mover.at \in {"list_from", "list_to"} /\ unfresh' = unfresh \ {n}
      /\ UNCHANGED <<placed, claimed, nodes, cache>> /\ mover \in Move
      /\ n = IF mover.at = "list_from" THEN mover.from ELSE mover.to
      /\ mover' = [mover EXCEPT !.list = list,
                                !.at = IF @ = "list_from" THEN "items_from" ELSE "items_to"]
  BY <1>1 DEF ListPayloadsByNode, CopyInv, StateTypes, Refreshed
<1>4. list \in Lists
  BY <1>1, RowsTyped DEF CopyInv, StateTypes
<1>5. /\ m \in Move /\ m.list = list /\ m.payload = mover.payload /\ m.to = mover.to
      /\ m.from = mover.from /\ m.at = mover.at
  BY <1>2, <1>3, <1>4 DEF Move
<1>6. mover' = [m EXCEPT !.at = at]
  BY <1>1, <1>2, <1>3, <1>5
<1>7. /\ mover' \in Move /\ mover'.list = list /\ mover'.payload = mover.payload
      /\ mover'.to = mover.to /\ mover'.from = mover.from /\ mover'.at = at
  BY <1>1, <1>5, <1>6 DEF Move
<1>8. StateTypes'
  BY <1>1, <1>3, <1>7 DEF CopyInv, StateTypes
<1>9. ASSUME NEW k \in nodes \ unfresh' PROVE Copied(k)'
  <2>1. CASE k = n
    BY <1>1, <1>3, <1>7, <2>1 DEF Copied, ItemsToCome, CountToCome
  <2>2. CASE k # n
    BY <1>1, <1>3, <1>7, <1>9, <2>2 DEF CopyInv, Copied, ItemsToCome, CountToCome, RowsAt
  <2>3. QED
    BY <2>1, <2>2
<1>10. Refreshed' = n /\ RowsAt(n)' = list
  BY <1>1, <1>3, <1>7 DEF Refreshed, RowsAt
<1>11. ListTrue'
  BY <1>1, <1>7, <1>10 DEF ListTrue, RowsAt
<1>12. QED
  BY <1>1, <1>3, <1>7, <1>8, <1>9, <1>11 DEF CopyInv, MovedTo

\* A write to Redis changes one field of the copy.
ItemsSet(n, list) == [cache EXCEPT !.items[n] = list]
CountSet(n, count) == [cache EXCEPT !.count[n] = count]

\* Writing the items of a node changes nothing else of the copy.
LEMMA ItemsWritten ==
    ASSUME cache \in Copy, NEW n \in Nodes, NEW list \in Lists
    PROVE  /\ ItemsSet(n, list) \in Copy
           /\ ItemsSet(n, list).items[n] = list /\ ItemsSet(n, list).count = cache.count
           /\ \A k \in Nodes \ {n} : ItemsSet(n, list).items[k] = cache.items[k]
<1>1. PICK its : its = [cache.items EXCEPT ![n] = list]
  OBVIOUS
<1>2. its \in [Nodes -> Lists] /\ its[n] = list /\ \A k \in Nodes \ {n} : its[k] = cache.items[k]
  BY <1>1 DEF Copy
<1>3. ItemsSet(n, list) = [cache EXCEPT !.items = its]
  BY <1>1 DEF Copy, ItemsSet
<1>4. QED
  BY <1>2, <1>3 DEF Copy

\* Writing the count of a node changes nothing else of the copy.
LEMMA CountWritten ==
    ASSUME cache \in Copy, NEW n \in Nodes, NEW count \in Counts
    PROVE  /\ CountSet(n, count) \in Copy
           /\ CountSet(n, count).count[n] = count /\ CountSet(n, count).items = cache.items
           /\ \A k \in Nodes \ {n} : CountSet(n, count).count[k] = cache.count[k]
<1>1. PICK cts : cts = [cache.count EXCEPT ![n] = count]
  OBVIOUS
<1>2. cts \in [Nodes -> Counts] /\ cts[n] = count
      /\ \A k \in Nodes \ {n} : cts[k] = cache.count[k]
  BY <1>1 DEF Copy
<1>3. CountSet(n, count) = [cache EXCEPT !.count = cts]
  BY <1>1 DEF Copy, CountSet
<1>4. QED
  BY <1>2, <1>3 DEF Copy

\* The move writes the items of a node.
LEMMA SetItemsStep ==
    ASSUME CopyInv, SetNodePayloads
    PROVE  CopyInv'
<1>1. PICK n, at, list : /\ n = Refreshed /\ list = mover.list
                         /\ at = IF mover.at = "items_from" THEN "count_from" ELSE "count_to"
  OBVIOUS
<1>2. /\ mover.at \in {"items_from", "items_to"} /\ mover \in Move /\ cache \in Copy
      /\ UNCHANGED <<placed, claimed, nodes>>
      /\ n = IF mover.at = "items_from" THEN mover.from ELSE mover.to
      /\ unfresh' = IF cache.up THEN unfresh ELSE unfresh \cup {n}
      /\ cache' = IF cache.up THEN ItemsSet(n, list) ELSE cache
  BY <1>1 DEF SetNodePayloads, ItemsSet, CopyInv, StateTypes, Refreshed, Missed
<1>3. mover' = [mover EXCEPT !.at = at]
  BY <1>1 DEF SetNodePayloads
<1>4. n \in Nodes /\ nodes \subseteq Nodes /\ list \in Lists
  BY <1>1, <1>2 DEF CopyInv, StateTypes, Move
<1>5. /\ mover' \in Move /\ mover'.list = list /\ mover'.payload = mover.payload
      /\ mover'.to = mover.to /\ mover'.from = mover.from /\ mover'.at = at
  BY <1>1, <1>2, <1>3 DEF Move
<1>6. /\ cache' \in Copy
      /\ \A k \in Nodes \ {n} : /\ cache'.items[k] = cache.items[k]
                               /\ cache'.count[k] = cache.count[k]
      /\ cache.up => cache'.items[n] = list
  BY <1>2, <1>4, ItemsWritten
<1>7. StateTypes'
  BY <1>1, <1>2, <1>4, <1>5, <1>6 DEF CopyInv, StateTypes
<1>8. ASSUME NEW k \in nodes \ unfresh' PROVE Copied(k)'
  <2>1. CASE k = n
    <3>1. cache.up /\ k \notin unfresh
      BY <1>2, <1>8, <2>1
    <3>2. cache'.items[k] = RowsAt(k)
      BY <1>1, <1>2, <1>6, <2>1, <3>1 DEF CopyInv, ListTrue
    <3>3. CountToCome(k)'
      BY <1>1, <1>2, <1>5, <2>1 DEF CountToCome
    <3>4. QED
      BY <1>2, <3>2, <3>3 DEF Copied, RowsAt
  <2>2. CASE k # n
    <3>1. Copied(k)
      BY <1>2, <1>8 DEF CopyInv
    <3>2. (ItemsToCome(k) => ItemsToCome(k)') /\ (CountToCome(k) => CountToCome(k)')
      BY <1>1, <1>2, <1>5, <2>2 DEF ItemsToCome, CountToCome
    <3>3. cache'.items[k] = cache.items[k] /\ cache'.count[k] = cache.count[k]
      BY <1>4, <1>6, <1>8, <2>2
    <3>4. QED
      BY <1>2, <3>1, <3>2, <3>3 DEF Copied, RowsAt
  <2>3. QED
    BY <2>1, <2>2
<1>9. Refreshed' = n
  BY <1>1, <1>2, <1>5 DEF Refreshed
<1>10. ListTrue'
  BY <1>1, <1>2, <1>5, <1>9 DEF CopyInv, ListTrue, RowsAt
<1>11. QED
  BY <1>1, <1>2, <1>5, <1>7, <1>8, <1>10 DEF CopyInv, MovedTo

\* The move writes the count of a node.
LEMMA SetCountStep ==
    ASSUME CopyInv, SetCount
    PROVE  CopyInv'
<1>1. PICK n, list : n = Refreshed /\ list = mover.list
  OBVIOUS
<1>2. PICK count : count = Cardinality(list)
  OBVIOUS
<1>3. /\ mover.at \in {"count_from", "count_to"} /\ mover \in Move /\ cache \in Copy
      /\ UNCHANGED <<placed, claimed, nodes>>
      /\ n = IF mover.at = "count_from" THEN mover.from ELSE mover.to
      /\ unfresh' = IF cache.up THEN unfresh ELSE unfresh \cup {n}
      /\ cache' = IF cache.up THEN CountSet(n, count) ELSE cache
      /\ mover' = IF mover.at = "count_from" THEN [mover EXCEPT !.at = "list_to"] ELSE Idle
  BY <1>1, <1>2 DEF SetCount, CountSet, CopyInv, StateTypes, Refreshed, Missed
<1>4. n \in Nodes /\ nodes \subseteq Nodes /\ list \in Lists /\ count \in Counts
  BY <1>1, <1>2, <1>3 DEF CopyInv, StateTypes, Move, Counts
<1>5. {} \in Lists
  BY DEF Lists
<1>6. /\ mover' \in Move
      /\ mover.at = "count_from" => /\ mover'.at = "list_to" /\ mover'.to = mover.to
                                    /\ mover'.payload = mover.payload
      /\ mover.at = "count_to" => mover'.at = "idle"
  BY <1>3, <1>5 DEF Move, Idle
<1>7. /\ cache' \in Copy
      /\ \A k \in Nodes \ {n} : /\ cache'.items[k] = cache.items[k]
                               /\ cache'.count[k] = cache.count[k]
      /\ cache.up => cache'.count[n] = count
      /\ cache'.items = cache.items
  BY <1>3, <1>4, CountWritten
<1>8. StateTypes'
  BY <1>3, <1>4, <1>6, <1>7 DEF CopyInv, StateTypes
<1>9. ASSUME NEW k \in nodes \ unfresh' PROVE Copied(k)'
  <2>1. Copied(k) /\ k \in Nodes
    BY <1>3, <1>4, <1>9 DEF CopyInv
  <2>2. ItemsToCome(k) => ItemsToCome(k)'
    BY <1>3, <1>6 DEF ItemsToCome
  <2>3. CASE k = n
    <3>1. cache'.count[k] = Cardinality(RowsAt(k))
      BY <1>1, <1>2, <1>3, <1>7, <1>9, <2>3 DEF CopyInv, ListTrue
    <3>2. QED
      BY <1>3, <1>7, <2>1, <2>2, <3>1 DEF Copied, RowsAt
  <2>4. CASE k # n
    <3>1. CountToCome(k) => CountToCome(k)'
      BY <1>3, <1>6, <2>4 DEF CountToCome
    <3>2. cache'.items[k] = cache.items[k] /\ cache'.count[k] = cache.count[k]
      BY <1>7, <2>1, <2>4
    <3>3. QED
      BY <1>3, <2>1, <2>2, <3>1, <3>2 DEF Copied, RowsAt
  <2>5. QED
    BY <2>3, <2>4
<1>10. QED
  BY <1>3, <1>6, <1>8, <1>9 DEF CopyInv, MovedTo, ListTrue

\* Nodes that are created, changed and deleted.
LEMMA NodeFormSteps ==
    ASSUME CopyInv, NEW n \in Nodes,
           HandleNodeCreate(n) \/ RefreshNodeMeta(n) \/ HandleNodeDelete(n)
    PROVE  CopyInv'
<1>1. StateTypes /\ UNCHANGED <<placed, claimed, mover, unfresh>>
  BY DEF CopyInv, HandleNodeCreate, RefreshNodeMeta, HandleNodeDelete
<1>2. /\ cache' \in Copy /\ cache'.items = cache.items /\ cache'.count = cache.count
  <2>1. cache \in Copy
    BY <1>1 DEF StateTypes
  <2>2. CASE UNCHANGED cache
    BY <2>1, <2>2
  <2>3. CASE cache' = [cache EXCEPT !.meta = @ \cup {n}]
    BY <2>1, <2>3 DEF Copy
  <2>4. QED
    BY <2>2, <2>3 DEF HandleNodeCreate, RefreshNodeMeta, HandleNodeDelete
<1>3. nodes' \subseteq nodes \cup {n} /\ nodes' \subseteq Nodes
  BY <1>1 DEF HandleNodeCreate, RefreshNodeMeta, HandleNodeDelete, StateTypes
<1>4. ASSUME NEW k \in nodes' \ unfresh' PROVE Copied(k)'
  <2>1. CASE k \in nodes
    <3>1. Copied(k)
      BY <1>1, <1>4, <2>1 DEF CopyInv
    <3>2. QED
      BY <1>1, <1>2, <3>1 DEF Copied, RowsAt, ItemsToCome, CountToCome
  <2>2. CASE k \notin nodes
    <3>1. HandleNodeCreate(n) /\ k = n
      BY <1>3, <1>4, <2>2 DEF HandleNodeCreate, RefreshNodeMeta, HandleNodeDelete
    <3>2. cache.items[k] = {} /\ cache.count[k] = 0 /\ RowsAt(k) = {}
      BY <3>1 DEF HandleNodeCreate, RowsAt
    <3>3. Cardinality({}) = 0
      BY FS_EmptySet
    <3>4. QED
      BY <1>1, <1>2, <3>2, <3>3 DEF Copied, RowsAt
  <2>3. QED
    BY <2>1, <2>2
<1>5. StateTypes'
  BY <1>1, <1>2, <1>3 DEF StateTypes
<1>6. ListTrue' /\ MovedTo'
  BY <1>1 DEF CopyInv, ListTrue, MovedTo, Refreshed, RowsAt
<1>7. QED
  BY <1>4, <1>5, <1>6 DEF CopyInv

\* Redis losing what it holds and coming back.
LEMMA RedisSteps ==
    ASSUME CopyInv, RedisGoes \/ RedisComesBack
    PROVE  CopyInv'
<1>1. UNCHANGED <<placed, claimed, nodes, mover, unfresh>> /\ StateTypes
  BY DEF RedisGoes, RedisComesBack, CopyInv
<1>2. TRUE \in BOOLEAN /\ FALSE \in BOOLEAN
  OBVIOUS
<1>3. cache' \in Copy /\ cache'.items = cache.items /\ cache'.count = cache.count
  BY <1>1, <1>2 DEF RedisGoes, RedisComesBack, StateTypes, Copy
<1>4. StateTypes'
  BY <1>1, <1>3 DEF StateTypes
<1>5. \A n \in nodes' \ unfresh' : Copied(n)'
  BY <1>1, <1>3 DEF CopyInv, Copied, RowsAt, ItemsToCome, CountToCome
<1>6. ListTrue' /\ MovedTo'
  BY <1>1 DEF CopyInv, ListTrue, MovedTo, Refreshed, RowsAt
<1>7. QED
  BY <1>4, <1>5, <1>6 DEF CopyInv

\* SyncRedisFromSQL writes of every node what the rows list.
LEMMA AllSynced ==
    ASSUME StateTypes
    PROVE  /\ SyncRedisFromSQL \in Copy
           /\ \A n \in nodes : /\ SyncRedisFromSQL.items[n] = RowsAt(n)
                              /\ SyncRedisFromSQL.count[n] = Cardinality(RowsAt(n))
<1>1. /\ cache \in Copy /\ nodes \subseteq Nodes /\ placed \in [Payloads -> Places]
      /\ claimed \in [Payloads -> BOOLEAN]
  BY DEF StateTypes
<1>2. PICK its : its = [n \in Nodes |-> IF n \in nodes THEN RowsAt(n)
                                        ELSE IF n \in cache.meta THEN {} ELSE cache.items[n]]
  OBVIOUS
<1>3. PICK cts : cts = [n \in Nodes |-> IF n \in nodes THEN Cardinality(RowsAt(n))
                                        ELSE IF n \in cache.meta THEN 0 ELSE cache.count[n]]
  OBVIOUS
<1>4. {} \in Lists /\ 0 \in Counts
  BY FS_EmptySet DEF Lists, Counts
<1>5. \A n : RowsAt(n) \in Lists /\ Cardinality(RowsAt(n)) \in Counts
  BY <1>1, RowsTyped
<1>6. its \in [Nodes -> Lists] /\ cts \in [Nodes -> Counts]
  BY <1>1, <1>2, <1>3, <1>4, <1>5 DEF Copy
<1>7. PICK c1 : c1 = [cache EXCEPT !.meta = nodes]
  OBVIOUS
<1>8. PICK c2 : c2 = [c1 EXCEPT !.items = its]
  OBVIOUS
<1>9. PICK c3 : c3 = [c2 EXCEPT !.count = cts]
  OBVIOUS
<1>10. c1 \in Copy /\ c1.items = cache.items /\ c1.count = cache.count /\ c1.meta = nodes
       /\ c1.up = cache.up
  BY <1>1, <1>7 DEF Copy
<1>11. c2 \in Copy /\ c2.items = its
  BY <1>6, <1>8, <1>10 DEF Copy
<1>12. c3 \in Copy /\ c3.items = its /\ c3.count = cts
  BY <1>6, <1>9, <1>11 DEF Copy
<1>13. SyncRedisFromSQL = [cache EXCEPT !.meta = nodes, !.items = its, !.count = cts]
  BY <1>2, <1>3 DEF SyncRedisFromSQL
<1>14. SyncRedisFromSQL = c3
  BY <1>7, <1>8, <1>9, <1>13
<1>15. QED
  BY <1>1, <1>2, <1>3, <1>12, <1>14

\* A restart of core abandons the move and writes the copy anew.
LEMMA RestartCopied ==
    ASSUME CopyInv, RestartCore
    PROVE  CopyInv'
<1>1. /\ UNCHANGED <<placed, claimed, nodes>> /\ mover' = Idle /\ StateTypes
      /\ cache' = IF cache.up THEN SyncRedisFromSQL ELSE cache
      /\ unfresh' = IF cache.up THEN unfresh \ nodes
                    ELSE unfresh \cup ({mover.from, mover.to} \cap Nodes)
  BY DEF CopyInv, RestartCore
<1>2. {} \in Lists
  BY DEF Lists
<1>3. mover' \in Move /\ mover'.at = "idle"
  BY <1>1, <1>2 DEF Move, Idle
<1>4. cache' \in Copy
  BY <1>1, AllSynced DEF StateTypes
<1>5. StateTypes'
  BY <1>1, <1>3, <1>4 DEF StateTypes
<1>6. ASSUME NEW n \in nodes \ unfresh' PROVE Copied(n)'
  <2>1. CASE cache.up
    BY <1>1, <1>6, <2>1, AllSynced DEF Copied, RowsAt
  <2>2. CASE ~cache.up
    <3>1. n \notin unfresh /\ n \notin {mover.from, mover.to}
      BY <1>1, <1>6, <2>2 DEF StateTypes
    <3>2. Copied(n) /\ ~ItemsToCome(n) /\ ~CountToCome(n)
      BY <1>6, <3>1 DEF CopyInv, ItemsToCome, CountToCome
    <3>3. QED
      BY <1>1, <2>2, <3>2 DEF Copied, RowsAt
  <2>3. QED
    BY <2>1, <2>2
<1>7. QED
  BY <1>1, <1>3, <1>5, <1>6 DEF CopyInv, ListTrue, MovedTo

\* Every step of the node state.
LEMMA CopyStep == CopyInv /\ [StateNext]_stateVars => CopyInv'
<1> SUFFICES ASSUME CopyInv, [StateNext]_stateVars PROVE CopyInv'
  OBVIOUS
<1>1. CASE UNCHANGED stateVars
  <2>1. UNCHANGED <<placed, claimed, nodes, cache, mover, unfresh>>
    BY <1>1 DEF stateVars
  <2>2. StateTypes' /\ ListTrue' /\ MovedTo'
    BY <2>1 DEF CopyInv, StateTypes, ListTrue, MovedTo, Refreshed, RowsAt
  <2>3. \A n \in nodes' \ unfresh' : Copied(n)'
    BY <2>1 DEF CopyInv, Copied, RowsAt, ItemsToCome, CountToCome
  <2>4. QED
    BY <2>2, <2>3 DEF CopyInv
<1>2. CASE \E p \in Payloads : \/ ClaimPayload(p) \/ HandlePayloadCreate(p)
                              \/ HandlePayloadUpdate(p) \/ HandlePayloadDelete(p)
  BY <1>2, FormSteps
<1>3. CASE \E p \in Payloads, to \in Nodes : CompleteOrder(p, to)
  BY <1>3, CompleteStep
<1>4. CASE MoveRow \/ UnclaimPayload \/ ListPayloadsByNode \/ SetNodePayloads \/ SetCount
  BY <1>4, MoveRowStep, UnclaimStep, ListStep, SetItemsStep, SetCountStep
<1>5. CASE \E n \in Nodes : HandleNodeCreate(n) \/ RefreshNodeMeta(n) \/ HandleNodeDelete(n)
  BY <1>5, NodeFormSteps
<1>6. CASE RedisGoes \/ RedisComesBack \/ RestartCore
  BY <1>6, RedisSteps, RestartCopied
<1>7. QED
  BY <1>1, <1>2, <1>3, <1>4, <1>5, <1>6 DEF StateNext

\* Core starts on a copy that agrees with the rows.
LEMMA CopyStart == StateInit => CopyInv
<1> SUFFICES ASSUME StateInit PROVE CopyInv
  OBVIOUS
<1>1. /\ placed \in [Payloads -> Places] /\ claimed = [p \in Payloads |-> FALSE]
      /\ nodes \subseteq Nodes /\ mover = Idle
  BY DEF StateInit, Places
<1>2. TRUE \in BOOLEAN /\ FALSE \in BOOLEAN /\ {} \in Lists
  BY DEF Lists
<1>3. claimed \in [Payloads -> BOOLEAN] /\ \A p \in Payloads : claimed[p] = FALSE
  BY <1>1, <1>2
<1>4. mover \in Move /\ mover.at = "idle"
  BY <1>1, <1>2 DEF Move, Idle
<1>5. PICK its, cts :
         /\ its = [n \in Nodes |-> RowsAt(n)]
         /\ cts = [n \in Nodes |-> Cardinality(RowsAt(n))]
  OBVIOUS
<1>6. cache = [up |-> TRUE, meta |-> nodes, items |-> its, count |-> cts]
  BY <1>5 DEF StateInit
<1>7. ASSUME NEW n \in Nodes PROVE its[n] = RowsAt(n) /\ cts[n] = Cardinality(RowsAt(n))
  BY <1>5
<1>8. its \in [Nodes -> Lists] /\ cts \in [Nodes -> Counts]
  BY <1>1, <1>3, <1>5, <1>7, RowsTyped
<1>9. cache \in Copy /\ cache.items = its /\ cache.count = cts
  BY <1>1, <1>2, <1>6, <1>8 DEF Copy
<1>10. StateTypes
  BY <1>1, <1>3, <1>4, <1>9 DEF StateTypes
<1>11. \A n \in nodes : Copied(n)
  BY <1>1, <1>7, <1>9 DEF Copied
<1>12. QED
  BY <1>4, <1>10, <1>11 DEF CopyInv, ListTrue, MovedTo

\* With no move under way the copy of a node not told as unfresh is right.
LEMMA CopyShown == CopyInv => CopyFollowsMoves
<1> SUFFICES ASSUME CopyInv, mover.at = "idle", NEW n \in nodes \ unfresh
             PROVE  GetNodeState(n) = [items |-> RowsAt(n), count |-> Cardinality(RowsAt(n))]
  BY DEF CopyFollowsMoves
<1>1. Copied(n) /\ ~ItemsToCome(n) /\ ~CountToCome(n)
  BY DEF CopyInv, ItemsToCome, CountToCome
<1>2. QED
  BY <1>1 DEF Copied, GetNodeState

\* Proof of CopyFollowsMoves: what the copy lists and counts of a node follows the
\* moves, except of the nodes a form or a fault is told to have left unfresh.
THEOREM MovesCopied == StateSpec => []CopyFollowsMoves
BY CopyStart, CopyStep, CopyShown, PTL DEF StateSpec

-----------------------------------------------------------------------------
(* The debug log's ring: counted back from where the next entry goes, its   *)
(* places hold the last entries logged, newest first.                       *)

Entry == [number : Nat, subsystem : Subsystems]

\* Where the entry logged k entries ago stands.
PlaceBack(k) == IF k <= pos THEN pos - k ELSE pos - k + RingSize

\* The ring holds the last entries, each the number of places back it is old.
RingInv ==
    /\ logged \in Seq(Entry)
    /\ entries \in [0..RingSize - 1 -> Entry \cup {NoEntry}]
    /\ pos \in 0..RingSize - 1 /\ full \in BOOLEAN
    /\ full <=> Len(logged) >= RingSize
    /\ ~full => pos = Len(logged)
    /\ \A k \in 1..RingSize :
          k <= Len(logged) => entries[PlaceBack(k)] = logged[Len(logged) - k + 1]

\* The remainder within one turn of the ring.
LEMMA Turns ==
    ASSUME NEW r \in Nat \ {0}, NEW i \in 0 .. 2 * r - 1
    PROVE  i % r = IF i < r THEN i ELSE i - r
<1>1. CASE i < r
  BY <1>1
<1>2. CASE i >= r
  BY <1>2
<1>3. QED
  BY <1>1, <1>2

\* An entry is logged: the ring is one place further on.
LEMMA RingLogged ==
    ASSUME RingInv, NEW g \in Loggers, NEW s \in Subsystems, Log(g, s)
    PROVE  RingInv'
<1>1. PICK n, e, r : n = Len(logged) /\ e = NextEntry(s) /\ r = RingSize
  OBVIOUS
<1>2. /\ n \in Nat /\ r \in Nat \ {0} /\ r = RingSize /\ n = Len(logged)
      /\ logged \in Seq(Entry) /\ entries \in [0 .. r - 1 -> Entry \cup {NoEntry}]
      /\ pos \in 0 .. r - 1 /\ full \in BOOLEAN /\ (full <=> n >= r) /\ (~full => pos = n)
  BY <1>1, DebugLogAssumption, LenProperties DEF RingInv
<1>3. /\ entries' = [entries EXCEPT ![pos] = e] /\ logged' = Append(logged, e)
      /\ pos' = (pos + 1) % r /\ full' = (pos' = 0 \/ full)
  BY <1>1 DEF Log, Entered
<1>4. e \in Entry
  BY <1>1, <1>2 DEF NextEntry, Entry
<1>5. pos' = IF pos + 1 < r THEN pos + 1 ELSE 0
  <2>1. PICK m : m = pos + 1
    OBVIOUS
  <2>2. m \in 0 .. 2 * r - 1 /\ m <= r
    BY <1>2, <2>1
  <2>3. m % r = IF m < r THEN m ELSE m - r
    BY <1>2, <2>2, Turns
  <2>4. pos' = m % r
    BY <1>3, <2>1
  <2>5. QED
    BY <1>2, <2>1, <2>2, <2>3, <2>4
<1>6. /\ logged' \in Seq(Entry) /\ Len(logged') = n + 1 /\ logged'[n + 1] = e
      /\ \A i \in 1..n : logged'[i] = logged[i]
  BY <1>2, <1>3, <1>4, AppendProperties, LenProperties
<1>7. /\ entries' \in [0 .. r - 1 -> Entry \cup {NoEntry}] /\ entries'[pos] = e
      /\ \A i \in 0 .. r - 1 : i # pos => entries'[i] = entries[i]
  BY <1>2, <1>3, <1>4
<1>8. pos' \in 0 .. r - 1 /\ full' \in BOOLEAN /\ (full' <=> n + 1 >= r)
      /\ (~full' => pos' = n + 1)
  <2>1. pos' \in 0 .. r - 1 /\ (pos' = 0 <=> pos + 1 = r)
    BY <1>2, <1>5
  <2>2. full' \in BOOLEAN /\ (full' <=> pos' = 0 \/ full)
    BY <1>3
  <2>3. full' <=> n + 1 >= r
    BY <1>2, <2>1, <2>2
  <2>4. ~full' => pos' = n + 1
    BY <1>2, <1>5, <2>1, <2>2
  <2>5. QED
    BY <2>1, <2>2, <2>3, <2>4
<1>9. ASSUME NEW k \in 1..r, k <= n + 1
      PROVE  entries'[PlaceBack(k)'] = logged'[n + 1 - k + 1]
  <2>1. PlaceBack(k)' = IF k <= pos' THEN pos' - k ELSE pos' - k + r
    BY <1>2 DEF PlaceBack
  <2>2. CASE k = 1
    <3>1. PlaceBack(k)' = pos /\ n + 1 - k + 1 = n + 1
      BY <1>2, <1>5, <2>1, <2>2
    <3>2. QED
      BY <1>6, <1>7, <3>1
  <2>3. CASE k # 1
    <3>1. PICK j : j = k - 1
      OBVIOUS
    <3>2. j \in 1..r /\ j <= n /\ j < r /\ n + 1 - k + 1 = n - j + 1 /\ n - j + 1 \in 1..n
      BY <1>2, <1>9, <2>3, <3>1
    <3>3. PlaceBack(j) = IF j <= pos THEN pos - j ELSE pos - j + r
      BY <1>2 DEF PlaceBack
    <3>4. PlaceBack(k)' = PlaceBack(j) /\ PlaceBack(j) \in 0 .. r - 1 /\ PlaceBack(j) # pos
      BY <1>2, <1>5, <1>9, <2>1, <2>3, <3>1, <3>2, <3>3
    <3>5. entries[PlaceBack(j)] = logged[n - j + 1]
      BY <1>2, <3>2 DEF RingInv
    <3>6. QED
      BY <1>6, <1>7, <3>2, <3>4, <3>5
  <2>4. QED
    BY <2>2, <2>3
<1>10. QED
  BY <1>2, <1>6, <1>7, <1>8, <1>9 DEF RingInv

\* Only logging touches the ring.
LEMMA RingStep == RingInv /\ [DebugNext]_debugVars => RingInv'
<1> SUFFICES ASSUME RingInv, [DebugNext]_debugVars PROVE RingInv'
  OBVIOUS
<1>1. CASE UNCHANGED <<entries, pos, full, logged>>
  BY <1>1 DEF RingInv, PlaceBack
<1>2. CASE \E g \in Loggers, s \in Subsystems : Log(g, s)
  BY <1>2, RingLogged
<1>3. CASE \/ UNCHANGED debugVars \/ SetOnEntry
           \/ \E g \in Loggers : CallOnEntry(g) \/ WriteFile(g)
  BY <1>1, <1>3 DEF debugVars, SetOnEntry, CallOnEntry, WriteFile
<1>4. QED
  BY <1>2, <1>3 DEF DebugNext

\* The ring starts empty.
LEMMA RingStart == DebugInit => RingInv
<1> SUFFICES ASSUME DebugInit PROVE RingInv
  OBVIOUS
<1>1. FALSE \in BOOLEAN /\ RingSize \in Nat \ {0}
  BY DebugLogAssumption
<1>2. logged = <<>> /\ logged \in Seq(Entry) /\ Len(logged) = 0
  BY DEF DebugInit
<1>3. /\ entries \in [0..RingSize - 1 -> Entry \cup {NoEntry}] /\ pos = 0 /\ full = FALSE
  BY DEF DebugInit
<1>4. QED
  BY <1>1, <1>2, <1>3 DEF RingInv

\* The place of the ring that the page shows as the i-th.
Shown(i) ==
    LET start == IF full THEN pos ELSE 0
    IN  IF start + i - 1 < RingSize THEN start + i - 1 ELSE start + i - 1 - RingSize

\* The page shows every place of the ring once.
LEMMA RingUnrolled ==
    ASSUME RingInv
    PROVE  /\ Count \in 0..RingSize /\ DOMAIN Unrolled = 1..Count
           /\ \A i \in 1..Count : Unrolled[i] = entries[Shown(i)] /\ Shown(i) \in 0..Count - 1
           /\ \A j \in 0..Count - 1 : \E i \in 1..Count : Shown(i) = j
<1>1. PICK r, oldest : r = RingSize /\ oldest = IF full THEN pos ELSE 0
  OBVIOUS
<1>2. r \in Nat \ {0} /\ pos \in 0 .. r - 1 /\ oldest \in 0 .. r - 1 /\ full \in BOOLEAN
  BY <1>1, DebugLogAssumption DEF RingInv
<1>3. Count \in 0..r /\ (full => Count = r) /\ (~full => Count = pos /\ oldest = 0)
  BY <1>1, <1>2 DEF Count
<1>4. Unrolled = [i \in 1..Count |-> entries[(oldest + i - 1) % r]]
  BY <1>1 DEF Unrolled
<1>5. \A i : Shown(i) = IF oldest + i - 1 < r THEN oldest + i - 1 ELSE oldest + i - 1 - r
  BY <1>1 DEF Shown
<1>6. ASSUME NEW i \in 1..Count
      PROVE  Unrolled[i] = entries[Shown(i)] /\ Shown(i) \in 0..Count - 1
  <2>1. PICK m : m = oldest + i - 1
    OBVIOUS
  <2>2. m \in 0 .. 2 * r - 1
    BY <1>2, <1>3, <1>6, <2>1
  <2>3. m % r = IF m < r THEN m ELSE m - r
    BY <1>2, <2>2, Turns
  <2>4. Shown(i) = m % r
    <3>1. m < r <=> oldest + i - 1 < r
      BY <2>1
    <3>2. m - r = oldest + i - 1 - r
      BY <1>2, <1>3, <1>6, <2>1, <2>2
    <3>3. QED
      BY <1>5, <2>1, <2>3, <3>1, <3>2
  <2>5. Unrolled[i] = entries[m % r]
    BY <1>4, <2>1
  <2>6. Shown(i) \in 0..Count - 1
    BY <1>2, <1>3, <1>5, <1>6
  <2>7. QED
    BY <2>4, <2>5, <2>6
<1>7. ASSUME NEW j \in 0..Count - 1
      PROVE  \E i \in 1..Count : Shown(i) = j
  <2>1. PICK i : i = IF j >= oldest THEN j - oldest + 1 ELSE j - oldest + 1 + r
    OBVIOUS
  <2>2. i \in 1..Count /\ Shown(i) = j
    BY <1>2, <1>3, <1>5, <1>7, <2>1
  <2>3. QED
    BY <2>2
<1>8. QED
  BY <1>1, <1>3, <1>4, <1>6, <1>7

\* The invariant says what the page shows.
LEMMA RingShown == RingInv => RingKeepsLast
<1> SUFFICES ASSUME RingInv PROVE RingKeepsLast
  OBVIOUS
<1>1. PICK n, r, c : n = Len(logged) /\ r = RingSize /\ c = Count
  OBVIOUS
<1>2. /\ n \in Nat /\ r \in Nat \ {0} /\ logged \in Seq(Entry) /\ pos \in 0 .. r - 1
      /\ full \in BOOLEAN /\ (full <=> n >= r) /\ (~full => pos = n)
      /\ c = IF full THEN r ELSE pos
  BY <1>1, DebugLogAssumption, LenProperties DEF RingInv, Count
<1>3. PICK m : m = IF n > r THEN n - r + 1 ELSE 1
  OBVIOUS
<1>4. m \in 1 .. n + 1 /\ c = n - m + 1 /\ c \in 0..n
  BY <1>2, <1>3
<1>5. LastLogged = SubSeq(logged, m, n)
  BY <1>1, <1>3 DEF LastLogged
<1>6. /\ DOMAIN LastLogged = 1..c
      /\ \A i \in 1..c : LastLogged[i] = logged[m + i - 1]
      /\ LastLogged \in Seq(Entry)
  <2>1. \A i \in m..n : logged[i] \in Entry
    BY <1>1, <1>2, <1>4, LenProperties
  <2>2. m \in Int /\ n \in Int
    BY <1>2, <1>4
  <2>3. /\ LastLogged \in Seq(Entry) /\ Len(LastLogged) = IF m <= n THEN n - m + 1 ELSE 0
        /\ \A i \in 1 .. n - m + 1 : LastLogged[i] = logged[m + i - 1]
    BY <1>5, <2>1, <2>2, SubSeqProperties
  <2>4. Len(LastLogged) = c
    BY <1>2, <1>4, <2>3
  <2>5. QED
    BY <1>4, <2>3, <2>4, LenProperties
<1>7. ASSUME NEW i \in 1..c PROVE Unrolled[i] = LastLogged[i]
  <2>1. PICK k : k = c - i + 1
    OBVIOUS
  <2>2. k \in 1..r /\ k <= n /\ n - k + 1 = m + i - 1
    BY <1>2, <1>4, <1>7, <2>1
  <2>3. entries[PlaceBack(k)] = logged[m + i - 1]
    BY <1>1, <2>2 DEF RingInv
  <2>4. PlaceBack(k) = Shown(i)
    BY <1>1, <1>2, <1>4, <1>7, <2>1, <2>2 DEF PlaceBack, Shown
  <2>5. QED
    BY <1>1, <1>6, <1>7, <2>3, <2>4, RingUnrolled
<1>8. Unrolled = LastLogged
  <2>1. Unrolled = [i \in 1..c |-> Unrolled[i]]
    BY <1>1 DEF Unrolled
  <2>2. LastLogged = [i \in 1..c |-> LastLogged[i]]
    BY <1>6
  <2>3. QED
    BY <1>7, <2>1, <2>2
<1>9. \A s \in Subsystems : Entries(s) = OfSubsystem(LastLogged, s)
  BY <1>8 DEF Entries
<1>10. SubsystemsSeen = {LastLogged[i].subsystem : i \in DOMAIN LastLogged}
  <2>1. ASSUME NEW s \in SubsystemsSeen
        PROVE  \E i \in DOMAIN LastLogged : s = LastLogged[i].subsystem
    <3>1. PICK j \in 0..Count - 1 : s = entries[j].subsystem
      BY <2>1 DEF SubsystemsSeen
    <3>2. PICK i \in 1..Count : Shown(i) = j
      BY <3>1, RingUnrolled
    <3>3. LastLogged[i] = entries[j] /\ i \in DOMAIN LastLogged
      BY <1>1, <1>6, <1>7, <3>2, RingUnrolled
    <3>4. QED
      BY <3>1, <3>3
  <2>2. ASSUME NEW i \in DOMAIN LastLogged PROVE LastLogged[i].subsystem \in SubsystemsSeen
    BY <1>1, <1>6, <1>8, <2>2, RingUnrolled DEF SubsystemsSeen
  <2>3. QED
    BY <2>1, <2>2 DEF SubsystemsSeen
<1>11. QED
  BY <1>8, <1>9, <1>10 DEF RingKeepsLast

\* Proof of RingKeepsLast: the page shows the last RingSize entries, oldest first,
\* and the subsystems of those entries, however often the ring has wrapped.
THEOREM RingTold == DebugSpec => []RingKeepsLast
BY RingStart, RingStep, RingShown, PTL DEF DebugSpec

-----------------------------------------------------------------------------
(* The scene and the nodes.                                                *)

NodeRow == [name : Locations \cup {"other", NoName}, loc : Locations \cup {NoArea},
            zone : Areas \cup {NoArea}]
Scenes == [Locations -> Areas \cup {NoArea}]
SyncRun == [at : {"idle", "fetch", "area", "point", "create", "delete", "zones", "zone"},
            guarded : BOOLEAN, scene : Scenes, areas : SUBSET Areas,
            todo : SUBSET (Locations \cup NodeIds), list : [NodeIds -> NodeRow],
            calm : BOOLEAN]

SceneTypes ==
    /\ scene \in Scenes
    /\ scenePoints \in SUBSET (Areas \X Locations)
    /\ rows \in [NodeIds -> NodeRow] /\ inserted \in Nat
    /\ \A i \in NodeRows : i <= inserted
    /\ sync \in [Syncers -> SyncRun] /\ sceneSyncing \in BOOLEAN

\* What a run has still to do is of the kind its statement works on.
RunFormed(r) ==
    /\ r.areas \subseteq {r.scene[l] : l \in InScene(r.scene)}
    /\ r.at = "point" => r.todo # {}
    /\ r.at \in {"point", "create"} => r.todo \subseteq InScene(r.scene)
    /\ r.at \in {"delete", "zone"} => r.todo \subseteq NodeIds
    /\ r.at \in {"create", "delete"} => r.guarded
    /\ r.at = "zones" => ~r.guarded

Guards(r) == r.at # "idle" /\ r.guarded

\* The bool lets one guarded run in.
OneGuarded ==
    /\ \A s \in Syncers : Guards(sync[s]) => sceneSyncing
    /\ \A s, t \in Syncers : Guards(sync[s]) /\ Guards(sync[t]) => s = t

NamesDiffer == \A i, j \in NodeRows : rows[i].name = rows[j].name => i = j

\* How far a calm guarded run has brought the nodes.
Created(r) ==
    r.at = "create" => \A l \in InScene(r.scene) \ r.todo : Has(l)
Deleted(r) ==
    r.at = "delete" =>
        /\ \A l \in InScene(r.scene) : Has(l)
        /\ \A i \in NodeRows : rows[i].loc \in InScene(r.scene) \/ i \in r.todo
        /\ \A i \in r.todo : rows[i].loc \notin InScene(r.scene)
Zoned(r) ==
    r.at = "zone" =>
        /\ \A l \in InScene(r.scene) : Has(l)
        /\ \A i \in NodeRows : /\ rows[i].loc \in InScene(r.scene)
                               /\ i \in r.todo \/ rows[i].zone = r.scene[rows[i].loc]
        /\ \A i \in r.todo : i \in NodeRows /\ r.list[i] = rows[i]
Brought(r) == r.guarded /\ r.calm => Created(r) /\ Deleted(r) /\ Zoned(r)

SceneInv ==
    /\ SceneTypes /\ OneGuarded /\ NamesDiffer
    /\ \A s \in Syncers : RunFormed(sync[s]) /\ Brought(sync[s])

\* A run that changes nothing but its own record keeps the invariant, if the
\* record is formed and tells how far the nodes are.
LEMMA OwnRun ==
    ASSUME SceneInv, NEW s \in Syncers, NEW r \in SyncRun,
           sync' = [sync EXCEPT ![s] = r], RunFormed(r), Brought(r),
           Guards(r) => Guards(sync[s]),
           \/ sceneSyncing' = sceneSyncing
           \/ ~Guards(r) /\ sceneSyncing' = (sceneSyncing /\ ~sync[s].guarded) /\ sync[s].at # "idle",
           scene' = scene, scenePoints' \in SUBSET (Areas \X Locations),
           rows' = rows, inserted' = inserted
    PROVE  SceneInv'
<1>1. /\ sync \in [Syncers -> SyncRun]
      /\ \A t \in Syncers : sync'[t] = IF t = s THEN r ELSE sync[t]
  BY DEF SceneInv, SceneTypes
<1>2. SceneTypes'
  <2>1. sync' \in [Syncers -> SyncRun]
    BY <1>1
  <2>2. sceneSyncing' \in BOOLEAN
    BY DEF SceneInv, SceneTypes
  <2>3. QED
    BY <2>1, <2>2 DEF SceneInv, SceneTypes, NodeRows
<1>3. OneGuarded'
  <2>1. \A t \in Syncers : Guards(sync'[t]) => Guards(sync[t])
    BY <1>1
  <2>2. \A t \in Syncers : Guards(sync'[t]) => sceneSyncing'
    <3> SUFFICES ASSUME NEW t \in Syncers, Guards(sync'[t]) PROVE sceneSyncing'
      OBVIOUS
    <3>1. sceneSyncing /\ Guards(sync[t])
      BY <2>1 DEF SceneInv, OneGuarded
    <3>2. CASE sceneSyncing' = sceneSyncing
      BY <3>1, <3>2
    <3>3. CASE ~Guards(r) /\ sceneSyncing' = (sceneSyncing /\ ~sync[s].guarded) /\ sync[s].at # "idle"
      <4>1. t # s
        BY <1>1, <3>3
      <4>2. ~Guards(sync[s])
        BY <3>1, <4>1 DEF SceneInv, OneGuarded
      <4>3. ~sync[s].guarded
        BY <3>3, <4>2 DEF Guards
      <4>4. QED
        BY <3>1, <3>3, <4>3
    <3>4. QED
      BY <3>2, <3>3
  <2>3. QED
    BY <2>1, <2>2 DEF SceneInv, OneGuarded
<1>4. NamesDiffer'
  BY DEF SceneInv, NamesDiffer, NodeRows
<1>5. \A t \in Syncers : RunFormed(sync'[t]) /\ Brought(sync'[t])
  BY <1>1 DEF SceneInv
<1>6. ASSUME NEW q PROVE Brought(q)' <=> Brought(q)
  BY DEF Brought, Created, Deleted, Zoned, Has, NodeRows
<1>7. \A t \in Syncers : RunFormed(sync[t])' /\ Brought(sync[t])'
  <2> TAKE t \in Syncers
  <2>1. PICK q : q = sync'[t]
    OBVIOUS
  <2>2. Brought(q)'
    BY <1>5, <1>6, <2>1
  <2>3. Brought(sync[t])'
    BY <2>1, <2>2 DEF Brought, Created, Deleted, Zoned, Has, NodeRows
  <2>4. QED
    BY <1>5, <2>3 DEF RunFormed, InScene
<1>8. QED
  BY <1>2, <1>3, <1>4, <1>7 DEF SceneInv

\* Who writes the nodes either is the guarded run, or disturbs the others: then
\* only the writer's own record has to tell how far the nodes are.
LEMMA NodesWritten ==
    ASSUME SceneInv,
           rows' \in [NodeIds -> NodeRow], inserted' \in Nat, NamesDiffer',
           \A i \in NodeIds : rows'[i] # Free => i <= inserted',
           scene' = scene, scenePoints' = scenePoints, sceneSyncing' = sceneSyncing,
           sync' \in [Syncers -> SyncRun],
           \A t \in Syncers :
             /\ RunFormed(sync'[t])
             /\ Guards(sync'[t]) => Guards(sync[t])
             /\ Guards(sync'[t]) /\ sync'[t].at \in NodeSteps /\ sync'[t].calm => Brought(sync[t])'
    PROVE  SceneInv'
<1>1. SceneTypes'
  BY DEF SceneInv, SceneTypes, NodeRows
<1>2. OneGuarded'
  BY DEF SceneInv, OneGuarded
<1>3. \A t \in Syncers : RunFormed(sync[t])' /\ Brought(sync[t])'
  <2> TAKE t \in Syncers
  <2>1. RunFormed(sync[t])'
    BY DEF RunFormed, InScene
  <2>2. CASE Guards(sync'[t]) /\ sync'[t].at \in NodeSteps /\ sync'[t].calm
    BY <2>1, <2>2
  <2>3. CASE ~(Guards(sync'[t]) /\ sync'[t].at \in NodeSteps /\ sync'[t].calm)
    BY <2>1, <2>3 DEF Brought, Created, Deleted, Zoned, Guards, NodeSteps
  <2>4. QED
    BY <2>2, <2>3
<1>4. QED
  BY <1>1, <1>2, <1>3 DEF SceneInv

\* What the invariant says of one run.
LEMMA RunIs ==
    ASSUME SceneInv, NEW s \in Syncers
    PROVE  /\ sync[s] \in SyncRun /\ RunFormed(sync[s]) /\ Brought(sync[s])
           /\ scenePoints \in SUBSET (Areas \X Locations) /\ scene \in Scenes
           /\ rows \in [NodeIds -> NodeRow] /\ NodeRows \subseteq NodeIds
BY DEF SceneInv, SceneTypes, NodeRows

\* A run at rest is formed and does not guard.
LEMMA RestingTyped == Resting \in SyncRun /\ RunFormed(Resting) /\ Brought(Resting) /\ ~Guards(Resting)
<1>1. Free \in NodeRow
  BY DEF Free, NodeRow
<1>2. [i \in NodeIds |-> Free] \in [NodeIds -> NodeRow] /\ [l \in Locations |-> NoArea] \in Scenes
  BY <1>1 DEF Scenes
<1>3. TRUE \in BOOLEAN /\ FALSE \in BOOLEAN
  OBVIOUS
<1>4. QED
  BY <1>2, <1>3 DEF Resting, SyncRun, RunFormed, Brought, Created, Deleted, Zoned, Guards

\* A scene's location is in an area.
LEMMA InArea ==
    ASSUME NEW c \in Scenes, NEW l \in InScene(c)
    PROVE  l \in Locations /\ c[l] \in Areas
BY DEF Scenes, InScene

\* A run starts, with the bool if it is a guarded one.
LEMMA StartSyncStep ==
    ASSUME SceneInv, NEW s \in Syncers, NEW g \in BOOLEAN, StartSync(s, g)
    PROVE  SceneInv'
<1> DEFINE r == [Resting EXCEPT !.at = "fetch", !.guarded = g]
<1>1. r \in SyncRun /\ RunFormed(r) /\ Brought(r) /\ r.at = "fetch" /\ r.guarded = g
  <2>1. r \in SyncRun /\ r.at = "fetch" /\ r.guarded = g /\ r.areas = Resting.areas
    BY RestingTyped DEF SyncRun
  <2>2. r.areas = {}
    BY <2>1 DEF Resting
  <2> HIDE DEF r
  <2>3. QED
    BY <2>1, <2>2 DEF RunFormed, Brought, Created, Deleted, Zoned
<1>2. /\ sync[s].at = "idle"
      /\ g => ~sceneSyncing
      /\ sceneSyncing' = (sceneSyncing \/ g)
      /\ sync' = [sync EXCEPT ![s] = r]
      /\ UNCHANGED <<scene, scenePoints, rows, inserted>>
  BY DEF StartSync
<1> HIDE DEF r
<1>3. /\ sync \in [Syncers -> SyncRun] /\ sync' \in [Syncers -> SyncRun]
      /\ \A t \in Syncers : sync'[t] = IF t = s THEN r ELSE sync[t]
  BY <1>1, <1>2 DEF SceneInv, SceneTypes
<1>4. SceneTypes'
  BY <1>2, <1>3 DEF SceneInv, SceneTypes, NodeRows
<1>5. OneGuarded'
  <2>1. ASSUME g PROVE \A t \in Syncers : ~Guards(sync[t])
    BY <1>2, <2>1, Zenon DEF SceneInv, OneGuarded
  <2>2. Guards(r) => g
    BY <1>1 DEF Guards
  <2>3. \A t \in Syncers : Guards(sync[t]) => sceneSyncing
    BY DEF SceneInv, OneGuarded
  <2>4. \A t, u \in Syncers : Guards(sync[t]) /\ Guards(sync[u]) => t = u
    BY DEF SceneInv, OneGuarded
  <2>5. \A t \in Syncers : Guards(sync'[t]) => sceneSyncing'
    BY <1>2, <1>3, <2>2, <2>3
  <2>6. \A t, u \in Syncers : Guards(sync'[t]) /\ Guards(sync'[u]) => t = u
    BY <1>3, <2>1, <2>2, <2>4
  <2>7. QED
    BY <2>5, <2>6 DEF OneGuarded
<1>6. NamesDiffer'
  BY <1>2 DEF SceneInv, NamesDiffer, NodeRows
<1>7. \A t \in Syncers : RunFormed(sync[t])' /\ Brought(sync[t])'
  <2> TAKE t \in Syncers
  <2>1. RunFormed(sync'[t]) /\ Brought(sync'[t])
    BY <1>1, <1>3 DEF SceneInv
  <2>2. QED
    BY <1>2, <2>1 DEF RunFormed, InScene, Brought, Created, Deleted, Zoned, Has, NodeRows
<1>8. QED
  BY <1>4, <1>5, <1>6, <1>7 DEF SceneInv

\* A run that comes to rest.
LEMMA EndSyncStep ==
    ASSUME SceneInv, NEW s \in Syncers, EndSync(s), sync[s].at # "idle",
           UNCHANGED <<scene, scenePoints, rows, inserted>>
    PROVE  SceneInv'
<1>1. /\ sync' = [sync EXCEPT ![s] = Resting]
      /\ sceneSyncing' = (sceneSyncing /\ ~sync[s].guarded)
  BY DEF EndSync
<1>2. scene' = scene /\ scenePoints' \in SUBSET (Areas \X Locations) /\ rows' = rows /\ inserted' = inserted
  BY RunIs
<1>3. QED
  BY <1>1, <1>2, RestingTyped, OwnRun

\* The scene is fetched and its points are written; the nodes are not touched.
LEMMA PointSteps ==
    ASSUME SceneInv, NEW s \in Syncers,
           GetSceneAreas(s) \/ DeleteScenePointsByArea(s) \/ UpsertScenePoint(s) \/ PointsDone(s)
    PROVE  SceneInv'
<1> DEFINE q == sync[s]
<1>1. /\ q \in SyncRun /\ RunFormed(q) /\ Brought(q)
      /\ scenePoints \in SUBSET (Areas \X Locations) /\ scene \in Scenes
  BY RunIs
<1>2. CASE GetSceneAreas(s)
  <2>1. CASE EndSync(s)
    <3>1. sync[s].at # "idle" /\ UNCHANGED <<scene, scenePoints, rows, inserted>>
      BY <1>2 DEF GetSceneAreas
    <3>2. QED
      BY <2>1, <3>1, EndSyncStep
  <2>2. CASE ~EndSync(s)
    <3> DEFINE m == {scene[l] : l \in InScene(scene)}
               r1 == [q EXCEPT !.at = "area"]
               r2 == [r1 EXCEPT !.scene = scene]
               r == [r2 EXCEPT !.areas = m]
    <3>1. /\ q.at = "fetch" /\ sync' = [sync EXCEPT ![s] = r]
          /\ UNCHANGED <<scene, scenePoints, rows, inserted, sceneSyncing>>
      <4>1. sync \in [Syncers -> SyncRun]
        BY DEF SceneInv, SceneTypes
      <4>2. sync' = [sync EXCEPT ![s] = [q EXCEPT !.at = "area", !.scene = scene, !.areas = m]]
        BY <1>2, <2>2, <4>1 DEF GetSceneAreas
      <4>3. [q EXCEPT !.at = "area", !.scene = scene, !.areas = m] = r
        BY <1>1 DEF SyncRun
      <4>4. QED
        BY <1>2, <2>2, <4>2, <4>3 DEF GetSceneAreas
    <3>2. m \subseteq Areas
      BY <1>1, InArea
    <3>3. r1 \in SyncRun /\ r1.at = "area" /\ r1.guarded = q.guarded
      BY <1>1 DEF SyncRun
    <3>4. r2 \in SyncRun /\ r2.at = "area" /\ r2.guarded = q.guarded /\ r2.scene = scene
      <4> HIDE DEF r1
      <4> QED
      BY <1>1, <3>3 DEF SyncRun
    <3>5. r \in SyncRun /\ r.at = "area" /\ r.guarded = q.guarded /\ r.scene = scene /\ r.areas = m
      <4> HIDE DEF r2, m
      <4> QED
        BY <3>2, <3>4 DEF SyncRun
    <3> HIDE DEF r
    <3>6. RunFormed(r) /\ Brought(r) /\ (Guards(r) => Guards(q))
      BY <3>1, <3>5 DEF RunFormed, Brought, Created, Deleted, Zoned, Guards
    <3>7. QED
      BY <1>1, <3>1, <3>5, <3>6, OwnRun
  <2>3. QED
    BY <2>1, <2>2
<1>3. CASE DeleteScenePointsByArea(s)
  <2> DEFINE a == First(q.areas)
             m == {l \in Locations : q.scene[l] = a}
             r1 == [q EXCEPT !.at = "point"]
             r2 == [r1 EXCEPT !.areas = q.areas \ {a}]
             r == [r2 EXCEPT !.todo = m]
  <2>1. q.at = "area" /\ a \in q.areas
    BY <1>3 DEF DeleteScenePointsByArea, First
  <2>2. m # {} /\ m \subseteq InScene(q.scene)
    <3>1. PICK l \in InScene(q.scene) : a = q.scene[l]
      BY <1>1, <2>1 DEF RunFormed
    <3>2. a # NoArea /\ l \in Locations
      BY <3>1 DEF InScene
    <3>3. QED
      BY <3>1, <3>2 DEF InScene
  <2>3. /\ sync' = [sync EXCEPT ![s] = r]
        /\ UNCHANGED <<scene, rows, inserted, sceneSyncing>> /\ scenePoints' \subseteq scenePoints
    <3>1. sync \in [Syncers -> SyncRun]
      BY DEF SceneInv, SceneTypes
    <3>2. sync' = [sync EXCEPT ![s] = [q EXCEPT !.at = "point", !.areas = q.areas \ {a}, !.todo = m]]
      BY <1>3, <3>1 DEF DeleteScenePointsByArea
    <3>3. [q EXCEPT !.at = "point", !.areas = q.areas \ {a}, !.todo = m] = r
      BY <1>1 DEF SyncRun
    <3>4. QED
      BY <1>3, <3>2, <3>3 DEF DeleteScenePointsByArea
  <2>4. m \subseteq Locations
    OBVIOUS
  <2>5. r1 \in SyncRun /\ r1.at = "point" /\ r1.guarded = q.guarded /\ r1.scene = q.scene /\ r1.areas = q.areas
    BY <1>1 DEF SyncRun
  <2>6. r2 \in SyncRun /\ r2.at = "point" /\ r2.guarded = q.guarded /\ r2.scene = q.scene /\ r2.areas \subseteq q.areas
    <3> HIDE DEF r1, a
    <3> QED
      BY <1>1, <2>5 DEF SyncRun
  <2>7. r \in SyncRun /\ r.at = "point" /\ r.guarded = q.guarded /\ r.scene = q.scene /\ r.areas \subseteq q.areas
        /\ r.todo = m
    <3> HIDE DEF r2, m
    <3> QED
      BY <2>4, <2>6 DEF SyncRun
  <2> HIDE DEF r, m
  <2>8. RunFormed(r) /\ Brought(r) /\ (Guards(r) => Guards(q))
    BY <1>1, <2>1, <2>2, <2>7 DEF RunFormed, Brought, Created, Deleted, Zoned, Guards
  <2>9. scenePoints' \in SUBSET (Areas \X Locations)
    BY <1>1, <2>3
  <2>10. QED
    BY <2>3, <2>7, <2>8, <2>9, OwnRun
<1>4. CASE UpsertScenePoint(s)
  <2> DEFINE l == First(q.todo)
             w == IF q.todo = {l} THEN "area" ELSE "point"
             r1 == [q EXCEPT !.todo = q.todo \ {l}]
             r == [r1 EXCEPT !.at = w]
  <2>1. q.at = "point" /\ l \in InScene(q.scene)
    <3>1. q.at = "point" /\ q.todo # {} /\ q.todo \subseteq InScene(q.scene)
      BY <1>1, <1>4 DEF UpsertScenePoint, RunFormed
    <3>2. l \in q.todo
      BY <3>1 DEF First
    <3>3. QED
      BY <3>1, <3>2
  <2>2. q.scene \in Scenes
    BY <1>1 DEF SyncRun
  <2>3. q.scene[l] \in Areas /\ l \in Locations
    BY <2>1, <2>2, InArea
  <2>4. /\ sync' = [sync EXCEPT ![s] = r]
        /\ UNCHANGED <<scene, rows, inserted, sceneSyncing>>
        /\ scenePoints' = scenePoints \cup {<<q.scene[l], l>>}
    <3>1. sync \in [Syncers -> SyncRun]
      BY DEF SceneInv, SceneTypes
    <3>2. sync' = [sync EXCEPT ![s] = [q EXCEPT !.todo = q.todo \ {l}, !.at = w]]
      BY <1>4, <3>1 DEF UpsertScenePoint
    <3>3. [q EXCEPT !.todo = q.todo \ {l}, !.at = w] = r
      BY <1>1 DEF SyncRun
    <3>4. QED
      BY <1>4, <3>2, <3>3 DEF UpsertScenePoint
  <2>5. r1 \in SyncRun /\ r1.guarded = q.guarded /\ r1.scene = q.scene /\ r1.areas = q.areas
        /\ r1.todo = q.todo \ {l}
    <3> HIDE DEF l
    <3> QED
      BY <1>1 DEF SyncRun
  <2>6. r \in SyncRun /\ r.guarded = q.guarded /\ r.scene = q.scene /\ r.areas = q.areas
        /\ r.todo = q.todo \ {l} /\ r.at = w
    <3> HIDE DEF r1, l
    <3> QED
      BY <2>5 DEF SyncRun
  <2> HIDE DEF r
  <2>7. RunFormed(r) /\ Brought(r) /\ (Guards(r) => Guards(q))
    <3>1. l \in q.todo
      BY <1>1, <2>1 DEF RunFormed, First
    <3> HIDE DEF l
    <3>2. QED
      BY <1>1, <2>1, <2>6, <3>1 DEF RunFormed, Brought, Created, Deleted, Zoned, Guards
  <2>8. scenePoints' \in SUBSET (Areas \X Locations)
    BY <1>1, <2>3, <2>4
  <2>9. QED
    BY <2>4, <2>6, <2>7, <2>8, OwnRun
<1>5. CASE PointsDone(s)
  <2> DEFINE w == IF q.guarded THEN "create" ELSE "zones"
             m == IF q.guarded THEN InScene(q.scene) ELSE {}
             r1 == [q EXCEPT !.at = w]
             r == [r1 EXCEPT !.todo = m]
  <2>1. /\ sync' = [sync EXCEPT ![s] = r] /\ q.at = "area"
        /\ UNCHANGED <<scene, scenePoints, rows, inserted, sceneSyncing>>
    <3>1. sync \in [Syncers -> SyncRun]
      BY DEF SceneInv, SceneTypes
    <3>2. sync' = [sync EXCEPT ![s] = [q EXCEPT !.at = w, !.todo = m]]
      BY <1>5, <3>1 DEF PointsDone
    <3>3. [q EXCEPT !.at = w, !.todo = m] = r
      BY <1>1 DEF SyncRun
    <3>4. QED
      BY <1>5, <3>2, <3>3 DEF PointsDone
  <2>2. m \subseteq Locations
    BY DEF InScene
  <2>3. r1 \in SyncRun /\ r1.at = w /\ r1.guarded = q.guarded /\ r1.scene = q.scene /\ r1.areas = q.areas
    BY <1>1 DEF SyncRun
  <2>4. r \in SyncRun /\ r.at = w /\ r.guarded = q.guarded /\ r.scene = q.scene /\ r.areas = q.areas
        /\ r.todo = m
    <3> HIDE DEF r1, m
    <3> QED
      BY <2>2, <2>3 DEF SyncRun
  <2> HIDE DEF r
  <2>5. RunFormed(r) /\ Brought(r) /\ (Guards(r) => Guards(q))
    BY <1>1, <2>1, <2>4 DEF RunFormed, Brought, Created, Deleted, Zoned, Guards
  <2>6. QED
    BY <1>1, <2>1, <2>4, <2>5, OwnRun
<1>6. QED
  BY <1>2, <1>3, <1>4, <1>5

\* A node for a location that has none.
LEMMA CreateStep ==
    ASSUME SceneInv, NEW s \in Syncers, CreateMissing(s)
    PROVE  SceneInv'
<1> DEFINE q == sync[s]
<1>1. /\ q \in SyncRun /\ RunFormed(q) /\ Brought(q)
      /\ scenePoints \in SUBSET (Areas \X Locations) /\ scene \in Scenes
      /\ rows \in [NodeIds -> NodeRow] /\ NodeRows \subseteq NodeIds
  BY RunIs
<1>2. PICK l \in q.todo :
        LET refused == ~Has(l) /\ Named(l) # {} IN
        /\ sync' = [sync EXCEPT ![s].todo = @ \ {l}, ![s].calm = @ /\ ~refused]
        /\ IF Has(l) \/ refused
             THEN UNCHANGED <<rows, inserted>>
             ELSE CreateNode([name |-> l, loc |-> l, zone |-> q.scene[l]])
  BY DEF CreateMissing
<1>3. q.at = "create" /\ q.guarded /\ l \in InScene(q.scene) /\ q.todo \subseteq InScene(q.scene)
  BY <1>1 DEF CreateMissing, RunFormed
<1> DEFINE refused == ~Has(l) /\ Named(l) # {}
           c == q.calm /\ ~refused
           r1 == [q EXCEPT !.todo = q.todo \ {l}]
           r == [r1 EXCEPT !.calm = c]
<1>4. sync' = [sync EXCEPT ![s] = r] /\ sync \in [Syncers -> SyncRun]
  <2>1. sync \in [Syncers -> SyncRun]
    BY DEF SceneInv, SceneTypes
  <2>2. sync' = [sync EXCEPT ![s] = [q EXCEPT !.todo = q.todo \ {l}, !.calm = c]]
    BY <1>2, <2>1
  <2>3. [q EXCEPT !.todo = q.todo \ {l}, !.calm = c] = r
    BY <1>1 DEF SyncRun
  <2>4. QED
    BY <2>1, <2>2, <2>3
<1>5. r1 \in SyncRun /\ r1.at = "create" /\ r1.guarded = q.guarded /\ r1.scene = q.scene
      /\ r1.areas = q.areas /\ r1.todo = q.todo \ {l}
  BY <1>1, <1>3 DEF SyncRun
<1>6. c \in BOOLEAN
  OBVIOUS
<1>7. r \in SyncRun /\ r.at = "create" /\ r.guarded = q.guarded /\ r.scene = q.scene
      /\ r.areas = q.areas /\ r.todo = q.todo \ {l} /\ r.calm = c
  <2> HIDE DEF r1, c
  <2> QED
    BY <1>5, <1>6 DEF SyncRun
<1> HIDE DEF r
<1>8. RunFormed(r) /\ (Guards(r) => Guards(q)) /\ Guards(q)
  BY <1>1, <1>3, <1>7 DEF RunFormed, Guards
<1>9. /\ scene' = scene /\ scenePoints' = scenePoints /\ sceneSyncing' = sceneSyncing
      /\ scenePoints' \in SUBSET (Areas \X Locations)
  BY <1>1 DEF CreateMissing
<1>10. r.calm => q.calm /\ \A k \in InScene(q.scene) \ q.todo : Has(k)
  BY <1>1, <1>3, <1>7 DEF Brought, Created
<1>11. CASE Has(l) \/ refused
  <2>1. rows' = rows /\ inserted' = inserted
    BY <1>2, <1>11
  <2>2. Brought(r)
    <3>1. r.calm => \A k \in InScene(r.scene) \ r.todo : Has(k)
      BY <1>7, <1>10, <1>11
    <3>2. QED
      BY <1>7, <3>1 DEF Brought, Created, Deleted, Zoned
  <2>3. QED
    BY <1>4, <1>7, <1>8, <1>9, <2>1, <2>2, OwnRun
<1>12. CASE ~(Has(l) \/ refused)
  <2> DEFINE n == [name |-> l, loc |-> l, zone |-> q.scene[l]]
  <2>1. n \in NodeRow /\ n # Free /\ n.loc = l /\ n.name = l
    <3>1. q.scene \in Scenes
      BY <1>1 DEF SyncRun
    <3>2. l \in Locations /\ q.scene[l] \in Areas
      BY <1>3, <3>1, InArea
    <3>3. n \in NodeRow
      BY <3>2 DEF NodeRow
    <3>4. n.loc # Free.loc
      BY <3>2, SceneAssumption DEF Free
    <3>5. QED
      BY <3>3, <3>4
  <2>2. Named(l) = {} /\ CreateNode(n)
    BY <1>2, <1>12
  <2> HIDE DEF n
  <2>3. inserted \in Nat /\ inserted' = inserted + 1 /\ inserted' \in NodeIds
        /\ rows' = [rows EXCEPT ![inserted'] = n]
    BY <2>2, SceneAssumption DEF CreateNode, SceneInv, SceneTypes, NodeIds
  <2>4. \A i \in NodeRows : i <= inserted
    BY DEF SceneInv, SceneTypes
  <2>5. /\ rows' \in [NodeIds -> NodeRow] /\ rows'[inserted'] = n
        /\ \A i \in NodeIds : i # inserted' => rows'[i] = rows[i]
        /\ inserted' \notin NodeRows
        /\ inserted' \in Nat
    BY <1>1, <2>1, <2>3, <2>4
  <2>6. \A i \in NodeIds : rows'[i] # Free => i = inserted' \/ i \in NodeRows
    BY <2>5 DEF NodeRows
  <2>7. \A i \in NodeIds : rows'[i] # Free => i <= inserted'
    BY <2>3, <2>4, <2>6
  <2>8. NamesDiffer'
    <3>1. \A i \in NodeRows : rows[i].name # l
      BY <2>2 DEF Named
    <3>2. \A i, j \in NodeIds : rows'[i] # Free /\ rows'[j] # Free /\ rows'[i].name = rows'[j].name => i = j
      <4> SUFFICES ASSUME NEW i \in NodeIds, NEW j \in NodeIds, rows'[i] # Free, rows'[j] # Free,
                          rows'[i].name = rows'[j].name
                   PROVE  i = j
        OBVIOUS
      <4>1. (i = inserted' \/ i \in NodeRows) /\ (j = inserted' \/ j \in NodeRows)
        BY <2>6
      <4>2. CASE i \in NodeRows /\ j \in NodeRows
        BY <2>5, <4>2 DEF SceneInv, NamesDiffer
      <4>3. QED
        BY <2>1, <2>5, <3>1, <4>1, <4>2
    <3>3. QED
      BY <3>2 DEF NamesDiffer, NodeRows
  <2>9. r.calm => \A k \in InScene(r.scene) \ r.todo : \E i \in NodeIds : rows'[i] # Free /\ rows'[i].loc = k
    <3> SUFFICES ASSUME r.calm, NEW k \in InScene(r.scene) \ r.todo
                 PROVE  \E i \in NodeIds : rows'[i] # Free /\ rows'[i].loc = k
      OBVIOUS
    <3>1. CASE k = l
      BY <2>1, <2>3, <2>5, <3>1
    <3>2. CASE k # l
      <4>1. PICK i \in NodeRows : rows[i].loc = k
        BY <1>7, <1>10, <3>2 DEF Has
      <4>2. i \in NodeIds /\ rows[i] # Free /\ i # inserted'
        BY <2>5, <4>1 DEF NodeRows
      <4>3. QED
        BY <2>5, <4>1, <4>2
    <3>3. QED
      BY <3>1, <3>2
  <2>10. /\ sync' \in [Syncers -> SyncRun]
         /\ \A t \in Syncers : sync'[t] = IF t = s THEN r ELSE sync[t]
    BY <1>4, <1>7
  <2>11. Brought(sync[s])'
    BY <1>7, <2>9, <2>10 DEF Brought, Created, Deleted, Zoned, Has, NodeRows, InScene
  <2>12. \A t \in Syncers : t # s => ~Guards(sync[t])
    BY <1>8 DEF SceneInv, OneGuarded
  <2>13. \A t \in Syncers :
           /\ RunFormed(sync'[t])
           /\ Guards(sync'[t]) => Guards(sync[t])
           /\ Guards(sync'[t]) /\ sync'[t].at \in NodeSteps /\ sync'[t].calm => Brought(sync[t])'
    <3> TAKE t \in Syncers
    <3>1. CASE t = s
      BY <1>8, <2>10, <2>11, <3>1
    <3>2. CASE t # s
      BY <2>10, <2>12, <3>2 DEF SceneInv
    <3>3. QED
      BY <3>1, <3>2
  <2>14. QED
    BY <1>9, <2>5, <2>7, <2>8, <2>10, <2>13, NodesWritten
<1>13. QED
  BY <1>11, <1>12

\* The lists of what is to be deleted and of what is to get its zone.
LEMMA ListNodesStep ==
    ASSUME SceneInv, NEW s \in Syncers, ListNodes(s)
    PROVE  SceneInv'
<1> DEFINE q == sync[s]
<1>1. /\ q \in SyncRun /\ RunFormed(q) /\ Brought(q)
      /\ scenePoints \in SUBSET (Areas \X Locations) /\ scene \in Scenes
      /\ rows \in [NodeIds -> NodeRow] /\ NodeRows \subseteq NodeIds
  BY RunIs
<1>2. /\ UNCHANGED <<scene, scenePoints, rows, inserted, sceneSyncing>>
      /\ sync \in [Syncers -> SyncRun]
  BY DEF ListNodes, SceneInv, SceneTypes
<1>3. CASE q.at = "create" /\ q.todo = {}
  <2> DEFINE m == {i \in NodeRows : rows[i].loc \notin InScene(q.scene)}
             r1 == [q EXCEPT !.at = "delete"]
             r == [r1 EXCEPT !.todo = m]
  <2>1. sync' = [sync EXCEPT ![s] = r]
    <3>1. sync' = [sync EXCEPT ![s] = [q EXCEPT !.at = "delete", !.todo = m]]
      BY <1>2, <1>3 DEF ListNodes
    <3>2. [q EXCEPT !.at = "delete", !.todo = m] = r
      BY <1>1 DEF SyncRun
    <3>3. QED
      BY <3>1, <3>2
  <2>2. m \subseteq NodeIds
    BY <1>1
  <2>3. r1 \in SyncRun /\ r1.at = "delete" /\ r1.guarded = q.guarded /\ r1.scene = q.scene /\ r1.areas = q.areas
        /\ r1.calm = q.calm
    BY <1>1 DEF SyncRun
  <2>4. r \in SyncRun /\ r.at = "delete" /\ r.guarded = q.guarded /\ r.scene = q.scene /\ r.areas = q.areas
        /\ r.todo = m /\ r.calm = q.calm
    <3> HIDE DEF r1, m
    <3> QED
      BY <2>2, <2>3 DEF SyncRun
  <2> HIDE DEF r
  <2>5. RunFormed(r) /\ (Guards(r) => Guards(q))
    BY <1>1, <1>3, <2>2, <2>4 DEF RunFormed, Guards
  <2>6. Brought(r)
    <3>1. r.calm /\ r.guarded => \A l \in InScene(r.scene) : Has(l)
      BY <1>1, <1>3, <2>4 DEF Brought, Created
    <3>2. QED
      BY <2>4, <3>1 DEF Brought, Created, Deleted, Zoned
  <2>7. QED
    BY <1>1, <1>2, <2>1, <2>4, <2>5, <2>6, OwnRun
<1>4. CASE (q.at = "delete" /\ q.todo = {}) \/ q.at = "zones"
  <2> DEFINE r1 == [q EXCEPT !.at = "zone"]
             r2 == [r1 EXCEPT !.list = rows]
             r == [r2 EXCEPT !.todo = NodeRows]
  <2>1. sync' = [sync EXCEPT ![s] = r]
    <3>1. sync' = [sync EXCEPT ![s] = [q EXCEPT !.at = "zone", !.list = rows, !.todo = NodeRows]]
      BY <1>2, <1>4 DEF ListNodes
    <3>2. [q EXCEPT !.at = "zone", !.list = rows, !.todo = NodeRows] = r
      BY <1>1 DEF SyncRun
    <3>3. QED
      BY <3>1, <3>2
  <2>2. r1 \in SyncRun /\ r1.at = "zone" /\ r1.guarded = q.guarded /\ r1.scene = q.scene /\ r1.areas = q.areas
        /\ r1.calm = q.calm
    BY <1>1 DEF SyncRun
  <2>3. r2 \in SyncRun /\ r2.at = "zone" /\ r2.guarded = q.guarded /\ r2.scene = q.scene /\ r2.areas = q.areas
        /\ r2.calm = q.calm /\ r2.list = rows
    <3> HIDE DEF r1
    <3> QED
      BY <1>1, <2>2 DEF SyncRun
  <2>4. r \in SyncRun /\ r.at = "zone" /\ r.guarded = q.guarded /\ r.scene = q.scene /\ r.areas = q.areas
        /\ r.calm = q.calm /\ r.list = rows /\ r.todo = NodeRows
    <3> HIDE DEF r2
    <3> QED
      BY <1>1, <2>3 DEF SyncRun
  <2> HIDE DEF r
  <2>5. RunFormed(r) /\ (Guards(r) => Guards(q))
    BY <1>1, <1>4, <2>4 DEF RunFormed, Guards
  <2>6. Brought(r)
    <3>1. ASSUME r.calm, r.guarded
          PROVE  /\ \A l \in InScene(r.scene) : Has(l)
                 /\ \A i \in NodeRows : rows[i].loc \in InScene(r.scene)
      <4>1. CASE q.at = "delete" /\ q.todo = {}
        BY <1>1, <2>4, <3>1, <4>1 DEF Brought, Deleted
      <4>2. CASE q.at = "zones"
        BY <1>1, <2>4, <3>1, <4>2 DEF RunFormed
      <4>3. QED
        BY <1>4, <4>1, <4>2
    <3>2. QED
      BY <2>4, <3>1 DEF Brought, Created, Deleted, Zoned
  <2>7. QED
    BY <1>1, <1>2, <2>1, <2>4, <2>5, <2>6, OwnRun
<1>5. QED
  BY <1>3, <1>4 DEF ListNodes

\* A node that is not in the scene is deleted.
LEMMA DeleteStep ==
    ASSUME SceneInv, NEW s \in Syncers, DeleteStale(s)
    PROVE  SceneInv'
<1> DEFINE q == sync[s]
           i == First(q.todo)
           r == [q EXCEPT !.todo = q.todo \ {i}]
<1>1. /\ q \in SyncRun /\ RunFormed(q) /\ Brought(q)
      /\ rows \in [NodeIds -> NodeRow] /\ NodeRows \subseteq NodeIds
  BY RunIs
<1>2. /\ q.at = "delete" /\ q.guarded /\ i \in q.todo /\ i \in NodeIds
      /\ rows' = [rows EXCEPT ![i] = Free]
      /\ UNCHANGED <<scene, scenePoints, inserted, sceneSyncing>>
  BY <1>1 DEF DeleteStale, First, RunFormed
<1>3. sync' = [sync EXCEPT ![s] = r] /\ sync \in [Syncers -> SyncRun]
  BY DEF DeleteStale, SceneInv, SceneTypes
<1> HIDE DEF i
<1>4. r \in SyncRun /\ r.at = "delete" /\ r.guarded = q.guarded /\ r.scene = q.scene
      /\ r.areas = q.areas /\ r.todo = q.todo \ {i} /\ r.calm = q.calm
  BY <1>1, <1>2 DEF SyncRun
<1> HIDE DEF r
<1>5. RunFormed(r) /\ (Guards(r) => Guards(q)) /\ Guards(q)
  BY <1>1, <1>2, <1>4 DEF RunFormed, Guards
<1>6. Free \in NodeRow
  BY DEF Free, NodeRow
<1>7. /\ rows' \in [NodeIds -> NodeRow] /\ rows'[i] = Free
      /\ \A j \in NodeIds : j # i => rows'[j] = rows[j]
      /\ \A j \in NodeIds : rows'[j] # Free <=> j \in NodeRows /\ j # i
  BY <1>1, <1>2, <1>6 DEF NodeRows
<1>8. NamesDiffer' /\ (\A j \in NodeIds : rows'[j] # Free => j <= inserted')
  <2>1. \A j \in NodeRows : j <= inserted
    BY DEF SceneInv, SceneTypes
  <2>2. \A j, k \in NodeIds : rows'[j] # Free /\ rows'[k] # Free /\ rows'[j].name = rows'[k].name => j = k
    BY <1>7 DEF SceneInv, NamesDiffer
  <2>3. NamesDiffer'
    BY <2>2 DEF NamesDiffer, NodeRows
  <2>4. QED
    BY <1>2, <1>7, <2>1, <2>3
<1>9. /\ sync' \in [Syncers -> SyncRun]
      /\ \A t \in Syncers : sync'[t] = IF t = s THEN r ELSE sync[t]
  BY <1>3, <1>4
<1>10. ASSUME r.calm
       PROVE  /\ \A l \in InScene(r.scene) : \E j \in NodeIds : rows'[j] # Free /\ rows'[j].loc = l
              /\ \A j \in NodeIds : rows'[j] # Free => rows'[j].loc \in InScene(r.scene) \/ j \in r.todo
              /\ \A j \in r.todo : rows'[j].loc \notin InScene(r.scene)
  <2>1. /\ \A l \in InScene(q.scene) : Has(l)
        /\ \A j \in NodeRows : rows[j].loc \in InScene(q.scene) \/ j \in q.todo
        /\ \A j \in q.todo : rows[j].loc \notin InScene(q.scene)
    BY <1>1, <1>2, <1>4, <1>10 DEF Brought, Deleted
  <2>2. ASSUME NEW l \in InScene(r.scene)
        PROVE  \E j \in NodeIds : rows'[j] # Free /\ rows'[j].loc = l
    <3>1. PICK j \in NodeRows : rows[j].loc = l
      BY <1>4, <2>1, <2>2 DEF Has
    <3>2. j # i /\ j \in NodeIds
      BY <1>1, <1>2, <1>4, <2>1, <2>2, <3>1
    <3>3. QED
      BY <1>7, <3>1, <3>2
  <2>3. \A j \in NodeIds : rows'[j] # Free => rows'[j].loc \in InScene(r.scene) \/ j \in r.todo
    BY <1>4, <1>7, <2>1
  <2>4. r.todo \subseteq NodeIds
    BY <1>4, <1>5 DEF RunFormed
  <2>5. \A j \in r.todo : rows'[j].loc \notin InScene(r.scene)
    BY <1>4, <1>7, <2>1, <2>4
  <2>6. QED
    BY <2>2, <2>3, <2>5
<1>11. Brought(sync[s])'
  BY <1>4, <1>9, <1>10 DEF Brought, Created, Deleted, Zoned, Has, NodeRows, InScene
<1>12. \A t \in Syncers : t # s => ~Guards(sync[t])
  BY <1>5 DEF SceneInv, OneGuarded
<1>13. \A t \in Syncers :
         /\ RunFormed(sync'[t])
         /\ Guards(sync'[t]) => Guards(sync[t])
         /\ Guards(sync'[t]) /\ sync'[t].at \in NodeSteps /\ sync'[t].calm => Brought(sync[t])'
  <2> TAKE t \in Syncers
  <2>1. CASE t = s
    BY <1>5, <1>9, <1>11, <2>1
  <2>2. CASE t # s
    BY <1>9, <1>12, <2>2 DEF SceneInv
  <2>3. QED
    BY <2>1, <2>2
<1>14. inserted' \in Nat
  BY <1>2 DEF SceneInv, SceneTypes
<1>15. QED
  BY <1>2, <1>7, <1>8, <1>9, <1>13, <1>14, NodesWritten

\* A row of the list is written back, with the zone of the scene.
LEMMA ZoneWritten ==
    ASSUME SceneInv, NEW i \in NodeIds, NEW n \in NodeRow, n.loc # NoArea,
           rows[i] # Free, Named(n.name) \subseteq {i}, rows' = [rows EXCEPT ![i] = n],
           inserted' = inserted
    PROVE  /\ rows' \in [NodeIds -> NodeRow] /\ inserted' \in Nat /\ NamesDiffer'
           /\ \A j \in NodeIds : rows'[j] # Free => j <= inserted'
           /\ NodeRows' = NodeRows
           /\ \A j \in NodeIds : rows'[j] = IF j = i THEN n ELSE rows[j]
<1>1. /\ rows \in [NodeIds -> NodeRow] /\ inserted \in Nat
      /\ \A j \in NodeRows : j <= inserted
  BY DEF SceneInv, SceneTypes
<1>2. /\ rows' \in [NodeIds -> NodeRow]
      /\ \A j \in NodeIds : rows'[j] = IF j = i THEN n ELSE rows[j]
  BY <1>1
<1>3. n # Free
  BY DEF Free
<1>4. NodeRows' = NodeRows
  BY <1>2, <1>3 DEF NodeRows
<1>5. \A j \in NodeRows : j # i => rows[j].name # n.name
  BY DEF Named
<1>6. \A j, k \in NodeRows : rows'[j].name = rows'[k].name => j = k
  <2>1. NodeRows \subseteq NodeIds
    BY DEF NodeRows
  <2>2. \A j, k \in NodeRows : rows[j].name = rows[k].name => j = k
    BY DEF SceneInv, NamesDiffer
  <2>3. QED
    BY <1>2, <1>5, <2>1, <2>2
<1>7. QED
  BY <1>1, <1>2, <1>4, <1>6 DEF NamesDiffer, NodeRows

\* A disturbed run is formed as before.
LEMMA CalmLost ==
    ASSUME NEW r \in SyncRun, RunFormed(r), NEW d, d = [r EXCEPT !.calm = FALSE]
    PROVE  /\ d \in SyncRun /\ RunFormed(d) /\ d.at = r.at /\ d.guarded = r.guarded /\ ~d.calm
<1>1. /\ d \in SyncRun /\ d.at = r.at /\ d.guarded = r.guarded /\ d.calm = FALSE
      /\ d.scene = r.scene /\ d.areas = r.areas /\ d.todo = r.todo
  BY DEF SyncRun
<1>2. RunFormed(d)
  BY <1>1 DEF RunFormed
<1>3. QED
  BY <1>1, <1>2

\* A zone is written, from a row that was listed before.
LEMMA ZonesStep ==
    ASSUME SceneInv, NEW s \in Syncers, UpdateNodeZones(s)
    PROVE  SceneInv'
<1> DEFINE q == sync[s]
           i == First(q.todo)
           n == q.list[i]
           r == [q EXCEPT !.todo = q.todo \ {i}]
           z == [n EXCEPT !.zone = q.scene[n.loc]]
<1>1. /\ q \in SyncRun /\ RunFormed(q) /\ Brought(q)
      /\ rows \in [NodeIds -> NodeRow] /\ NodeRows \subseteq NodeIds
      /\ scenePoints \in SUBSET (Areas \X Locations)
  BY RunIs
<1>2. /\ q.at = "zone" /\ i \in q.todo /\ i \in NodeIds
      /\ UNCHANGED <<scene, scenePoints, inserted, sceneSyncing>>
      /\ sync \in [Syncers -> SyncRun]
  BY <1>1 DEF UpdateNodeZones, First, RunFormed, SceneInv, SceneTypes
<1>3. n \in NodeRow
  BY <1>1, <1>2 DEF SyncRun
<1>4. /\ NeedsZone(s, n) =>
           /\ rows' = IF rows[i] = Free \/ ~(Named(n.name) \subseteq {i}) THEN rows
                      ELSE [rows EXCEPT ![i] = z]
           /\ sync' = [IF q.guarded THEN sync ELSE NodesBy(s) EXCEPT ![s].todo = @ \ {i}]
      /\ ~NeedsZone(s, n) => rows' = rows /\ sync' = [sync EXCEPT ![s].todo = @ \ {i}]
  BY DEF UpdateNodeZones
<1>5. ASSUME NeedsZone(s, n)
      PROVE  /\ n.loc \in InScene(q.scene) /\ n.zone # q.scene[n.loc]
             /\ z \in NodeRow /\ z.loc = n.loc /\ z.name = n.name /\ z.zone = q.scene[n.loc] /\ z.loc # NoArea
  <2>1. n.loc \in InScene(q.scene) /\ n.zone # q.scene[n.loc]
    BY <1>5 DEF NeedsZone
  <2>2. q.scene \in Scenes
    BY <1>1 DEF SyncRun
  <2>3. n.loc \in Locations /\ q.scene[n.loc] \in Areas
    BY <2>1, <2>2, InArea
  <2>4. PICK a : a = q.scene[n.loc]
    OBVIOUS
  <2> HIDE DEF n
  <2>5. z \in NodeRow /\ z.loc = n.loc /\ z.name = n.name /\ z.zone = q.scene[n.loc]
    BY <1>3, <2>3, <2>4 DEF NodeRow
  <2>6. QED
    BY <2>1, <2>3, <2>5, SceneAssumption
<1> HIDE DEF i, n, z
<1>6. r \in SyncRun /\ r.at = "zone" /\ r.guarded = q.guarded /\ r.scene = q.scene
      /\ r.areas = q.areas /\ r.todo = q.todo \ {i} /\ r.calm = q.calm /\ r.list = q.list
  BY <1>1, <1>2 DEF SyncRun
<1>7. sync' = [sync EXCEPT ![s].todo = @ \ {i}] => sync' = [sync EXCEPT ![s] = r]
  OBVIOUS
<1> HIDE DEF r
<1>8. RunFormed(r) /\ (Guards(r) => Guards(q))
  BY <1>1, <1>2, <1>6 DEF RunFormed, Guards
<1>9. ASSUME q.guarded, q.calm
      PROVE  /\ \A l \in InScene(q.scene) : Has(l)
             /\ \A j \in NodeRows : /\ rows[j].loc \in InScene(q.scene)
                                    /\ j \in q.todo \/ rows[j].zone = q.scene[rows[j].loc]
             /\ \A j \in q.todo : j \in NodeRows /\ q.list[j] = rows[j]
             /\ n = rows[i]
             /\ i \in NodeRows /\ rows[i] # Free /\ Named(n.name) \subseteq {i}
  <2>1. /\ \A l \in InScene(q.scene) : Has(l)
        /\ \A j \in NodeRows : /\ rows[j].loc \in InScene(q.scene)
                               /\ j \in q.todo \/ rows[j].zone = q.scene[rows[j].loc]
        /\ \A j \in q.todo : j \in NodeRows /\ q.list[j] = rows[j]
    BY <1>1, <1>2, <1>9 DEF Brought, Zoned
  <2>2. n = rows[i] /\ i \in NodeRows /\ rows[i] # Free
    BY <1>2, <2>1 DEF n, NodeRows
  <2>3. Named(n.name) \subseteq {i}
    BY <2>2 DEF Named, SceneInv, NamesDiffer
  <2>4. QED
    BY <2>1, <2>2, <2>3
<1>10. ASSUME rows' = rows, sync' = [sync EXCEPT ![s] = r],
              q.guarded /\ q.calm => ~NeedsZone(s, n)
       PROVE  SceneInv'
  <2>1. ASSUME r.guarded, r.calm PROVE Zoned(r)
    <3>1. rows[i].zone = q.scene[rows[i].loc]
      BY <1>6, <1>9, <1>10, <2>1 DEF NeedsZone
    <3>2. QED
      BY <1>6, <1>9, <2>1, <3>1 DEF Zoned
  <2>2. Brought(r)
    BY <1>6, <2>1 DEF Brought, Created, Deleted
  <2>3. scenePoints' \in SUBSET (Areas \X Locations)
    BY <1>1, <1>2
  <2>4. QED
    BY <1>2, <1>6, <1>8, <1>10, <2>2, <2>3, OwnRun
<1>11. CASE ~NeedsZone(s, n)
  BY <1>4, <1>7, <1>10, <1>11
<1>12. CASE NeedsZone(s, n) /\ q.guarded
  <2>1. sync' = [sync EXCEPT ![s] = r]
    BY <1>4, <1>7, <1>12
  <2>2. CASE rows[i] = Free \/ ~(Named(n.name) \subseteq {i})
    <3>1. rows' = rows /\ ~q.calm
      BY <1>4, <1>9, <1>12, <2>2
    <3>2. QED
      BY <1>10, <2>1, <3>1
  <2>3. CASE ~(rows[i] = Free \/ ~(Named(n.name) \subseteq {i}))
    <3>1. rows' = [rows EXCEPT ![i] = z] /\ inserted' = inserted
      BY <1>2, <1>4, <1>12, <2>3
    <3>2. /\ rows' \in [NodeIds -> NodeRow] /\ inserted' \in Nat /\ NamesDiffer'
          /\ \A j \in NodeIds : rows'[j] # Free => j <= inserted'
          /\ NodeRows' = NodeRows
          /\ \A j \in NodeIds : rows'[j] = IF j = i THEN z ELSE rows[j]
      <4>1. z \in NodeRow /\ z.loc # NoArea /\ rows[i] # Free /\ Named(z.name) \subseteq {i}
        BY <1>5, <1>12, <2>3
      <4>2. QED
        BY <1>2, <3>1, <4>1, ZoneWritten
    <3>3. /\ sync' \in [Syncers -> SyncRun]
          /\ \A t \in Syncers : sync'[t] = IF t = s THEN r ELSE sync[t]
      BY <1>2, <1>6, <2>1
    <3>4. ASSUME r.calm
          PROVE  /\ \A l \in InScene(r.scene) : \E j \in NodeRows : rows'[j].loc = l
                 /\ \A j \in NodeRows : /\ rows'[j].loc \in InScene(r.scene)
                                        /\ j \in r.todo \/ rows'[j].zone = r.scene[rows'[j].loc]
                 /\ \A j \in r.todo : j \in NodeRows /\ r.list[j] = rows'[j]
      <4>1. n = rows[i] /\ z.loc = rows[i].loc /\ z.zone = q.scene[z.loc]
        BY <1>5, <1>6, <1>9, <1>12, <3>4
      <4>2. \A j \in NodeRows : j \in NodeIds /\ rows'[j].loc = rows[j].loc
        BY <1>1, <3>2, <4>1
      <4>3. \A l \in InScene(r.scene) : \E j \in NodeRows : rows'[j].loc = l
        BY <1>6, <1>9, <1>12, <3>4, <4>2 DEF Has
      <4>4. \A j \in NodeRows : rows'[j].loc \in InScene(r.scene)
        BY <1>6, <1>9, <1>12, <3>4, <4>2
      <4>5. \A j \in NodeRows : j \in r.todo \/ rows'[j].zone = r.scene[rows'[j].loc]
        <5> TAKE j \in NodeRows
        <5>1. CASE j = i
          BY <1>2, <1>6, <3>2, <4>1, <5>1
        <5>2. CASE j # i
          <6>1. rows'[j] = rows[j] /\ (j \in r.todo <=> j \in q.todo)
            BY <1>6, <3>2, <4>2, <5>2
          <6>2. QED
            BY <1>6, <1>9, <1>12, <3>4, <6>1
        <5>3. QED
          BY <5>1, <5>2
      <4>6. \A j \in r.todo : j \in NodeRows /\ r.list[j] = rows'[j]
        BY <1>6, <1>9, <1>12, <3>2, <3>4, <4>2
      <4>7. QED
        BY <4>3, <4>4, <4>5, <4>6
    <3>5. Brought(sync[s])'
      BY <1>6, <3>2, <3>3, <3>4 DEF Brought, Created, Deleted, Zoned, Has, InScene
    <3>6. \A t \in Syncers : t # s => ~Guards(sync[t])
      BY <1>2, <1>12 DEF SceneInv, OneGuarded, Guards
    <3>7. \A t \in Syncers :
            /\ RunFormed(sync'[t])
            /\ Guards(sync'[t]) => Guards(sync[t])
            /\ Guards(sync'[t]) /\ sync'[t].at \in NodeSteps /\ sync'[t].calm => Brought(sync[t])'
      <4> TAKE t \in Syncers
      <4>1. CASE t = s
        BY <1>8, <3>3, <3>5, <4>1
      <4>2. CASE t # s
        BY <3>3, <3>6, <4>2 DEF SceneInv
      <4>3. QED
        BY <4>1, <4>2
    <3>8. QED
      BY <1>2, <3>2, <3>3, <3>7, NodesWritten
  <2>4. QED
    BY <2>2, <2>3
<1>13. CASE NeedsZone(s, n) /\ ~q.guarded
  <2> DEFINE b == NodesBy(s)
  <2>1. /\ b \in [Syncers -> SyncRun] /\ b[s] = q
        /\ \A t \in Syncers : /\ RunFormed(b[t]) /\ b[t].at = sync[t].at /\ b[t].guarded = sync[t].guarded
                              /\ t # s /\ b[t].at \in NodeSteps => ~b[t].calm
    <3>1. \A t \in Syncers : b[t] = IF t # s /\ sync[t].at \in NodeSteps
                                    THEN [sync[t] EXCEPT !.calm = FALSE] ELSE sync[t]
      BY DEF NodesBy
    <3>3. ASSUME NEW t \in Syncers
          PROVE  /\ b[t] \in SyncRun /\ RunFormed(b[t]) /\ b[t].at = sync[t].at
                 /\ b[t].guarded = sync[t].guarded
                 /\ t # s /\ b[t].at \in NodeSteps => ~b[t].calm
      <4>1. sync[t] \in SyncRun /\ RunFormed(sync[t])
        BY RunIs
      <4>2. CASE t # s /\ sync[t].at \in NodeSteps
        <5>1. b[t] = [sync[t] EXCEPT !.calm = FALSE]
          BY <3>1, <4>2
        <5> HIDE DEF b
        <5>2. QED
          BY <4>1, <5>1, CalmLost
      <4>3. CASE ~(t # s /\ sync[t].at \in NodeSteps)
        <5>1. b[t] = sync[t]
          BY <3>1, <4>3
        <5> HIDE DEF b
        <5>2. QED
          BY <4>1, <4>3, <5>1
      <4>4. QED
        BY <4>2, <4>3
    <3>4. b \in [Syncers -> SyncRun]
      <4>1. b = [t \in Syncers |-> b[t]]
        BY DEF NodesBy
      <4> HIDE DEF b
      <4>2. QED
        BY <3>3, <4>1
    <3>5. b[s] = q
      BY <3>1
    <3> HIDE DEF b
    <3>6. QED
      BY <3>3, <3>4, <3>5
  <2>2. sync' = [b EXCEPT ![s] = r]
    <3>1. sync' = [b EXCEPT ![s].todo = @ \ {i}]
      BY <1>4, <1>13
    <3> HIDE DEF b
    <3>2. QED
      BY <2>1, <3>1 DEF r
  <2> HIDE DEF b
  <2>3. /\ sync' \in [Syncers -> SyncRun]
        /\ \A t \in Syncers : sync'[t] = IF t = s THEN r ELSE b[t]
    BY <1>6, <2>1, <2>2
  <2>4. \A t \in Syncers :
          /\ RunFormed(sync'[t])
          /\ Guards(sync'[t]) => Guards(sync[t])
          /\ Guards(sync'[t]) /\ sync'[t].at \in NodeSteps /\ sync'[t].calm => Brought(sync[t])'
    <3> TAKE t \in Syncers
    <3>1. CASE t = s
      BY <1>6, <1>8, <1>13, <2>3, <3>1 DEF Guards
    <3>2. CASE t # s
      BY <2>1, <2>3, <3>2 DEF Guards
    <3>3. QED
      BY <3>1, <3>2
  <2>5. /\ rows' \in [NodeIds -> NodeRow] /\ inserted' \in Nat /\ NamesDiffer'
        /\ \A j \in NodeIds : rows'[j] # Free => j <= inserted'
    <3>1. CASE rows[i] = Free \/ ~(Named(n.name) \subseteq {i})
      <4>1. rows' = rows /\ inserted' = inserted
        BY <1>2, <1>4, <1>13, <3>1
      <4>2. QED
        BY <4>1 DEF SceneInv, SceneTypes, NamesDiffer, NodeRows
    <3>2. CASE ~(rows[i] = Free \/ ~(Named(n.name) \subseteq {i}))
      <4>1. rows' = [rows EXCEPT ![i] = z] /\ inserted' = inserted
        BY <1>2, <1>4, <1>13, <3>2
      <4>2. z \in NodeRow /\ z.loc # NoArea /\ rows[i] # Free /\ Named(z.name) \subseteq {i}
        BY <1>5, <1>13, <3>2
      <4>3. QED
        BY <1>2, <4>1, <4>2, ZoneWritten
    <3>3. QED
      BY <3>1, <3>2
  <2>6. QED
    BY <1>2, <2>3, <2>4, <2>5, NodesWritten
<1>14. QED
  BY <1>11, <1>12, <1>13

\* A form disturbs every run that is writing nodes.
LEMMA FormsDisturb ==
    ASSUME SceneInv, NodeForm,
           rows' \in [NodeIds -> NodeRow], inserted' \in Nat, NamesDiffer',
           \A i \in NodeIds : rows'[i] # Free => i <= inserted'
    PROVE  SceneInv'
<1>1. /\ scene' = scene /\ scenePoints' = scenePoints /\ sceneSyncing' = sceneSyncing
      /\ sync' = [s \in Syncers |-> IF sync[s].at \in NodeSteps
                                    THEN [sync[s] EXCEPT !.calm = FALSE] ELSE sync[s]]
  BY DEF NodeForm
<1>2. ASSUME NEW t \in Syncers
      PROVE  /\ sync'[t] \in SyncRun /\ RunFormed(sync'[t]) /\ sync'[t].at = sync[t].at
             /\ sync'[t].guarded = sync[t].guarded
             /\ sync'[t].at \in NodeSteps => ~sync'[t].calm
  <2>1. sync[t] \in SyncRun /\ RunFormed(sync[t])
    BY RunIs
  <2>2. CASE sync[t].at \in NodeSteps
    <3>1. sync'[t] = [sync[t] EXCEPT !.calm = FALSE]
      BY <1>1, <2>2
    <3>2. QED
      BY <2>1, <3>1, CalmLost
  <2>3. CASE sync[t].at \notin NodeSteps
    <3>1. sync'[t] = sync[t]
      BY <1>1, <2>3
    <3>2. QED
      BY <2>1, <2>3, <3>1
  <2>4. QED
    BY <2>2, <2>3
<1>3. sync' \in [Syncers -> SyncRun]
  <2>1. sync' = [t \in Syncers |-> sync'[t]]
    BY <1>1
  <2>2. QED
    BY <1>2, <2>1
<1>4. \A t \in Syncers :
        /\ RunFormed(sync'[t])
        /\ Guards(sync'[t]) => Guards(sync[t])
        /\ Guards(sync'[t]) /\ sync'[t].at \in NodeSteps /\ sync'[t].calm => Brought(sync[t])'
  BY <1>2 DEF Guards
<1>5. QED
  BY <1>1, <1>3, <1>4, NodesWritten

\* The node forms disturb, whatever they change.
LEMMA SceneForms ==
    ASSUME SceneInv, SceneNodeCreate \/ SceneNodeUpdate \/ SceneNodeDelete
    PROVE  SceneInv'
<1>1. /\ rows \in [NodeIds -> NodeRow] /\ inserted \in Nat
      /\ \A j \in NodeRows : j <= inserted
      /\ NodeRows \subseteq NodeIds /\ NamesDiffer
  BY DEF SceneInv, SceneTypes, NodeRows
<1>2. FormRows \subseteq NodeRow /\ Free \in NodeRow
  BY SceneAssumption DEF FormRows, NodeRow, Free
<1>3. ASSUME NEW i \in NodeIds, NEW n \in NodeRow, rows' = [rows EXCEPT ![i] = n],
             n # Free => i <= inserted', n # Free => Named(n.name) \subseteq {i},
             inserted' \in Nat, inserted <= inserted', NodeForm
      PROVE  SceneInv'
  <2>1. /\ rows' \in [NodeIds -> NodeRow]
        /\ \A j \in NodeIds : rows'[j] = IF j = i THEN n ELSE rows[j]
    BY <1>1, <1>3
  <2>2. \A j \in NodeIds : rows'[j] # Free => (j = i /\ n # Free) \/ (j # i /\ j \in NodeRows)
    BY <2>1 DEF NodeRows
  <2>3. \A j \in NodeIds : rows'[j] # Free => j <= inserted'
    <3> SUFFICES ASSUME NEW j \in NodeIds, rows'[j] # Free PROVE j <= inserted'
      OBVIOUS
    <3>1. CASE j = i /\ n # Free
      BY <1>3, <3>1
    <3>2. CASE j # i /\ j \in NodeRows
      <4>1. j <= inserted /\ j \in Nat
        BY <1>1, <3>2 DEF NodeIds
      <4>2. QED
        BY <1>1, <1>3, <4>1
    <3>3. QED
      BY <2>2, <3>1, <3>2
  <2>4. n # Free => \A j \in NodeRows : j # i => rows[j].name # n.name
    BY <1>3 DEF Named
  <2>5. \A j, k \in NodeIds : rows'[j] # Free /\ rows'[k] # Free /\ rows'[j].name = rows'[k].name => j = k
    <3> SUFFICES ASSUME NEW j \in NodeIds, NEW k \in NodeIds, rows'[j] # Free, rows'[k] # Free,
                        rows'[j].name = rows'[k].name
                 PROVE  j = k
      OBVIOUS
    <3>1. CASE j = i \/ k = i
      BY <2>1, <2>2, <2>4, <3>1
    <3>2. CASE j # i /\ k # i
      BY <1>1, <2>1, <2>2, <3>2 DEF NamesDiffer
    <3>3. QED
      BY <3>1, <3>2
  <2>6. NamesDiffer'
    BY <2>5 DEF NamesDiffer, NodeRows
  <2>7. QED
    BY <1>3, <2>1, <2>3, <2>6, FormsDisturb
<1>4. CASE SceneNodeCreate
  <2>1. PICK n \in FormRows : NodeForm /\ Named(n.name) = {} /\ CreateNode(n)
    BY <1>4 DEF SceneNodeCreate
  <2>2. /\ inserted' = inserted + 1 /\ inserted' \in NodeIds /\ inserted' \in Nat
        /\ rows' = [rows EXCEPT ![inserted'] = n]
    BY <1>1, <2>1, SceneAssumption DEF CreateNode, NodeIds
  <2>3. PICK i \in NodeIds : i = inserted'
    BY <2>2
  <2>4. inserted <= inserted' /\ i <= inserted'
    BY <1>1, <2>2, <2>3
  <2>5. rows' = [rows EXCEPT ![i] = n] /\ n \in NodeRow
    BY <1>2, <2>2, <2>3
  <2>6. QED
    BY <1>3, <2>1, <2>2, <2>4, <2>5
<1>5. CASE SceneNodeUpdate
  <2>1. PICK i \in NodeRows, n \in FormRows : Named(n.name) \subseteq {i} /\ rows' = [rows EXCEPT ![i] = n]
    BY <1>5 DEF SceneNodeUpdate
  <2>2. NodeForm /\ inserted' = inserted
    BY <1>5 DEF SceneNodeUpdate
  <2>3. i \in NodeIds /\ n \in NodeRow /\ i <= inserted' /\ inserted <= inserted' /\ inserted' \in Nat
    BY <1>1, <1>2, <2>2
  <2>4. QED
    BY <1>3, <2>1, <2>2, <2>3
<1>6. CASE SceneNodeDelete
  <2>1. PICK i \in NodeRows : rows' = [rows EXCEPT ![i] = Free]
    BY <1>6 DEF SceneNodeDelete
  <2>2. NodeForm /\ inserted' = inserted
    BY <1>6 DEF SceneNodeDelete
  <2>3. i \in NodeIds /\ inserted <= inserted' /\ inserted' \in Nat
    BY <1>1, <2>2
  <2>4. QED
    BY <1>2, <1>3, <2>1, <2>2, <2>3
<1>7. QED
  BY <1>4, <1>5, <1>6

\* Every step of the scene keeps the invariant.
LEMMA SceneStep == SceneInv /\ [SceneNext]_sceneVars => SceneInv'
<1> SUFFICES ASSUME SceneInv, [SceneNext]_sceneVars PROVE SceneInv'
  OBVIOUS
<1>1. CASE UNCHANGED sceneVars
  <2>1. UNCHANGED <<scene, scenePoints, rows, inserted, sceneSyncing, sync>>
    BY <1>1 DEF sceneVars
  <2>2. QED
    BY <2>1 DEF SceneInv, SceneTypes, OneGuarded, NamesDiffer, NodeRows, Brought, Created, Deleted,
                Zoned, Has
<1>2. ASSUME NEW s \in Syncers, NEW g \in BOOLEAN, StartSync(s, g) PROVE SceneInv'
  BY <1>2, StartSyncStep
<1>3. ASSUME NEW s \in Syncers,
             GetSceneAreas(s) \/ DeleteScenePointsByArea(s) \/ UpsertScenePoint(s) \/ PointsDone(s)
      PROVE  SceneInv'
  BY <1>3, PointSteps
<1>4. ASSUME NEW s \in Syncers, CreateMissing(s) PROVE SceneInv'
  BY <1>4, CreateStep
<1>5. ASSUME NEW s \in Syncers, ListNodes(s) PROVE SceneInv'
  BY <1>5, ListNodesStep
<1>6. ASSUME NEW s \in Syncers, DeleteStale(s) PROVE SceneInv'
  BY <1>6, DeleteStep
<1>7. ASSUME NEW s \in Syncers, UpdateNodeZones(s) PROVE SceneInv'
  BY <1>7, ZonesStep
<1>8. ASSUME NEW s \in Syncers, FinishSync(s) PROVE SceneInv'
  <2>1. EndSync(s) /\ sync[s].at # "idle" /\ UNCHANGED <<scene, scenePoints, rows, inserted>>
    BY <1>8 DEF FinishSync
  <2>2. QED
    BY <2>1, EndSyncStep
<1>9. CASE SceneNodeCreate \/ SceneNodeUpdate \/ SceneNodeDelete
  BY <1>9, SceneForms
<1>10. CASE ChangeScene
  <2>1. scene' \in Scenes /\ UNCHANGED <<scenePoints, rows, inserted, sceneSyncing, sync>>
    BY <1>10 DEF ChangeScene, SceneInv, SceneTypes, Scenes
  <2>2. QED
    BY <2>1 DEF SceneInv, SceneTypes, OneGuarded, NamesDiffer, NodeRows, Brought, Created, Deleted,
                Zoned, Has
<1>11. QED
  BY <1>1, <1>2, <1>3, <1>4, <1>5, <1>6, <1>7, <1>8, <1>9, <1>10 DEF SceneNext

\* The invariant holds at the start.
LEMMA SceneStart == SceneInit => SceneInv
<1> SUFFICES ASSUME SceneInit PROVE SceneInv
  OBVIOUS
<1>1. NodeRows = {}
  BY DEF SceneInit, NodeRows
<1>2. \A s \in Syncers : sync[s] = Resting
  BY DEF SceneInit
<1>3. SceneTypes
  <2>1. [i \in NodeIds |-> Free] \in [NodeIds -> NodeRow]
    BY DEF Free, NodeRow
  <2>2. [s \in Syncers |-> Resting] \in [Syncers -> SyncRun]
    BY RestingTyped
  <2>3. QED
    BY <1>1, <2>1, <2>2 DEF SceneInit, SceneTypes, Scenes
<1>4. OneGuarded
  BY <1>2, RestingTyped DEF OneGuarded
<1>5. NamesDiffer
  BY <1>1 DEF NamesDiffer
<1>6. QED
  BY <1>2, <1>3, <1>4, <1>5, RestingTyped DEF SceneInv

\* A run that goes from its last statement to rest has nothing left to do.
LEMMA RunFinished ==
    ASSUME SceneInv, NEW s \in Syncers, SceneNext, sync[s].at = "zone", sync'[s].at = "idle"
    PROVE  sync[s].todo = {}
<1>1. sync \in [Syncers -> SyncRun]
  BY DEF SceneInv, SceneTypes
<1>2. ASSUME NEW t \in Syncers, NEW r, sync' = [sync EXCEPT ![t] = r], r.at # "idle" \/ sync[t].at # "zone"
      PROVE  FALSE
  <2>1. t = s
    BY <1>1, <1>2
  <2>2. sync'[s] = r
    BY <1>1, <1>2, <2>1
  <2>3. QED
    BY <1>2, <2>1, <2>2
<1>3. ASSUME NEW t \in Syncers, NEW g \in BOOLEAN, StartSync(t, g) PROVE FALSE
  <2>1. PICK r : r = [Resting EXCEPT !.at = "fetch", !.guarded = g]
    OBVIOUS
  <2>2. sync[t].at # "zone" /\ sync' = [sync EXCEPT ![t] = r]
    BY <1>3, <2>1 DEF StartSync
  <2>3. QED
    BY <1>2, <2>2
<1>4. ASSUME NEW t \in Syncers,
             \/ GetSceneAreas(t) \/ DeleteScenePointsByArea(t) \/ UpsertScenePoint(t)
             \/ PointsDone(t) \/ CreateMissing(t) \/ ListNodes(t) \/ DeleteStale(t)
      PROVE  FALSE
  <2>1. sync[t].at # "zone"
    BY <1>4 DEF GetSceneAreas, DeleteScenePointsByArea, UpsertScenePoint, PointsDone, CreateMissing,
                ListNodes, DeleteStale
  <2>2. sync' = [sync EXCEPT ![t] = sync'[t]]
    <3>1. CASE GetSceneAreas(t)
      BY <1>1, <3>1 DEF GetSceneAreas, EndSync
    <3>2. CASE DeleteScenePointsByArea(t)
      BY <1>1, <3>2 DEF DeleteScenePointsByArea
    <3>3. CASE UpsertScenePoint(t)
      BY <1>1, <3>3 DEF UpsertScenePoint
    <3>4. CASE PointsDone(t)
      BY <1>1, <3>4 DEF PointsDone
    <3>5. CASE CreateMissing(t)
      BY <1>1, <3>5 DEF CreateMissing
    <3>6. CASE ListNodes(t)
      BY <1>1, <3>6 DEF ListNodes
    <3>7. CASE DeleteStale(t)
      BY <1>1, <3>7 DEF DeleteStale
    <3>8. QED
      BY <1>4, <3>1, <3>2, <3>3, <3>4, <3>5, <3>6, <3>7
  <2>3. QED
    BY <1>2, <2>1, <2>2
<1>5. ASSUME NEW t \in Syncers, UpdateNodeZones(t) PROVE FALSE
  <2>1. \A u \in Syncers : sync'[u].at = sync[u].at
    <3>1. \A u \in Syncers : NodesBy(t)[u].at = sync[u].at
      <4> TAKE u \in Syncers
      <4>1. sync[u] \in SyncRun
        BY <1>1
      <4>2. [sync[u] EXCEPT !.calm = FALSE].at = sync[u].at
        BY <4>1 DEF SyncRun
      <4>3. QED
        BY <4>2 DEF NodesBy
    <3>2. PICK b, m : /\ b = sync \/ b = NodesBy(t)
                      /\ sync' = [b EXCEPT ![t] = [b[t] EXCEPT !.todo = m]]
      BY <1>5 DEF UpdateNodeZones
    <3>3. \A u \in Syncers : b[u].at = sync[u].at
      BY <3>1, <3>2
    <3>4. DOMAIN b = Syncers /\ [b[t] EXCEPT !.todo = m].at = b[t].at
      BY <1>1, <3>2 DEF NodesBy
    <3>5. QED
      BY <3>2, <3>3, <3>4
  <2>2. QED
    BY <2>1
<1>6. ASSUME SceneNodeCreate \/ SceneNodeUpdate \/ SceneNodeDelete PROVE FALSE
  <2>1. sync'[s] = IF sync[s].at \in NodeSteps THEN [sync[s] EXCEPT !.calm = FALSE] ELSE sync[s]
    BY <1>6 DEF SceneNodeCreate, SceneNodeUpdate, SceneNodeDelete, NodeForm
  <2>2. sync'[s].at = sync[s].at
    BY <2>1
  <2>3. QED
    BY <2>2
<1>7. ~ChangeScene
  BY DEF ChangeScene
<1>8. PICK t \in Syncers : FinishSync(t)
  BY <1>3, <1>4, <1>5, <1>6, <1>7 DEF SceneNext
<1>9. t = s
  BY <1>1, <1>8 DEF FinishSync, EndSync
<1>10. QED
  BY <1>8, <1>9 DEF FinishSync

\* A SceneSync that nobody disturbed leaves the nodes of the scene it fetched,
\* each in its area (SyncedNodes).
THEOREM NodesSynced == SceneSpec => SyncedNodes
<1> DEFINE A == \A s \in Syncers :
                  sync[s].at = "zone" /\ sync'[s].at = "idle" /\ sync[s].guarded /\ sync[s].calm =>
                    /\ {rows[i].loc : i \in NodeRows} = InScene(sync[s].scene)
                    /\ \A i \in NodeRows : rows[i].zone = sync[s].scene[rows[i].loc]
<1>1. SceneInv /\ [SceneNext]_sceneVars => [A]_sceneVars
  <2> SUFFICES ASSUME SceneInv, SceneNext,
                      NEW s \in Syncers, sync[s].at = "zone", sync'[s].at = "idle",
                      sync[s].guarded, sync[s].calm
               PROVE  /\ {rows[i].loc : i \in NodeRows} = InScene(sync[s].scene)
                      /\ \A i \in NodeRows : rows[i].zone = sync[s].scene[rows[i].loc]
    OBVIOUS
  <2>1. sync[s].todo = {}
    BY RunFinished
  <2>2. /\ \A l \in InScene(sync[s].scene) : Has(l)
        /\ \A i \in NodeRows : /\ rows[i].loc \in InScene(sync[s].scene)
                               /\ rows[i].zone = sync[s].scene[rows[i].loc]
    BY <2>1, RunIs DEF Brought, Zoned
  <2>3. {rows[i].loc : i \in NodeRows} = InScene(sync[s].scene)
    BY <2>2 DEF Has
  <2>4. QED
    BY <2>2, <2>3
<1>2. QED
  BY <1>1, SceneStart, SceneStep, PTL DEF SceneSpec, SyncedNodes

-----------------------------------------------------------------------------
(* Every service in its ranges, and the run of all of them.                *)

\* The counting state is in its ranges.
LEMMA PartsTyped == CountTypes => PartsTypeOK
<1> SUFFICES ASSUME CountTypes PROVE PartsTypeOK
  OBVIOUS
<1>1. /\ machine.tag \in Nat /\ machine.max \in {Max16, Max32} /\ machine.left \in 0..MaxMade
      /\ machine.tag <= machine.max
      /\ point.last \in Nat /\ point.last <= machine.max
  BY DEF CountTypes, Machine
<1>2. /\ poll.pc \in {"idle", "advance", "hourly", "record"} /\ poll.delta \in 0..Max32
      /\ tally.hourly \in Nat /\ reporter.acc \in Nat /\ reporter.taken \in Nat
      /\ core.report \in Nat /\ core.log \in Nat
      /\ demand.produced \in Nat \cup {-1}
  BY DEF CountTypes, Poll, Tally, Backed
<1>3. machine.tag \in 0..machine.max /\ point.last \in 0..Max32
  BY <1>1, CountAssumption
<1>4. QED
  BY <1>1, <1>2, <1>3 DEF PartsTypeOK

\* The changeover machines are in their ranges.
LEMMA ChangeoverTyped == ChangeoverInv => ChangeoverTypeOK
<1> SUFFICES ASSUME ChangeoverInv PROVE ChangeoverTypeOK
  OBVIOUS
<1>1. /\ machines \in Seq(MachineRow) /\ registered \in 0..Len(machines)
      /\ \A c \in Clerks : request[c].machine \in {0, registered}
      /\ lastRow \in LoggedRow
  BY DEF ChangeoverInv, ChangeoverTypes
<1>2. Range(StateOrder) = States
  BY NextStates
<1>3. \A i \in DOMAIN machines : machines[i] \in MachineRow
  BY <1>1, ElementOfSeq, LenProperties
<1>4. \A i \in DOMAIN machines : machines[i].state \in Range(StateOrder)
  BY <1>2, <1>3 DEF MachineRow
<1>5. Len(machines) \in Nat
  BY <1>1, LenProperties
<1>6. \A c \in Clerks : request[c].machine \in 0..Len(machines)
  BY <1>1, <1>5
<1>7. lastRow \in LogRow
  BY <1>1, <1>2 DEF LoggedRow, LogRow
<1>8. QED
  BY <1>1, <1>4, <1>6, <1>7 DEF ChangeoverTypeOK

\* The reporting points are in their ranges, no two with the same tag.
LEMMA SetupTyped == SetupInv => SetupTypeOK
<1> SUFFICES ASSUME SetupInv PROVE SetupTypeOK
  OBVIOUS
<1>1. \A i \in Ids : points[i].managed \in BOOLEAN
  BY DEF SetupInv, SetupTypes, Point
<1>2. QED
  BY <1>1 DEF SetupInv, SetupTypes, SetupTypeOK

\* The manifests are in their ranges.
LEMMA ManifestTyped == ManifestInv => ManifestTypeOK
BY DEF ManifestInv, ManifestTypes, ManifestTypeOK, ItemRow, Correction, Asked

\* The scene and the nodes are in their ranges, and the bool is set while a
\* guarded run is under way.
LEMMA SceneTyped == SceneInv => SceneTypeOK
<1> SUFFICES ASSUME SceneInv PROVE SceneTypeOK
  OBVIOUS
<1>1. \A i \in NodeRows : rows[i].zone \in Areas \cup {NoArea}
  BY DEF SceneInv, SceneTypes, NodeRow, NodeRows
<1>2. QED
  BY <1>1 DEF SceneInv, SceneTypes, Scenes, OneGuarded, Guards, SceneTypeOK

\* A node has at most as many payloads as there are.
LEMMA CountsBounded == Counts \subseteq 0..Cardinality(Payloads)
<1> SUFFICES ASSUME NEW list \in Lists PROVE Cardinality(list) \in 0..Cardinality(Payloads)
  BY DEF Counts
<1> DEFINE of == [r \in list |-> r[1]]
<1>1. /\ list \subseteq Payloads \X BOOLEAN
      /\ \A r, q \in list : r[1] = q[1] => r = q
  BY DEF Lists
<1>2. of \in Injection(list, Payloads)
  BY <1>1 DEF Injection, IsInjective
<1>3. IsFiniteSet(Payloads)
  BY NodeStateAssumption
<1>4. IsFiniteSet(list) /\ Cardinality(list) <= Cardinality(Payloads)
  BY <1>2, <1>3, FS_Injection
<1>5. Cardinality(list) \in Nat /\ Cardinality(Payloads) \in Nat
  BY <1>3, <1>4, FS_CardinalityType
<1>6. QED
  BY <1>4, <1>5

\* What is remembered of nodes is remembered of nodes.
NamesKept == creating \subseteq Nodes /\ unfresh \subseteq Nodes

\* A step of core or of a page remembers nodes only.
LEMMA NamesStep == CopyInv /\ NamesKept /\ [StateNext]_stateVars => NamesKept'
<1> SUFFICES ASSUME CopyInv, NamesKept, [StateNext]_stateVars PROVE NamesKept'
  OBVIOUS
<1>1. /\ mover.at \in {"items_from", "count_from", "list_from"} => mover.from \in Nodes
      /\ mover.at # "idle" => mover.to \in Nodes
  BY DEF CopyInv, StateTypes
<1>2. CASE UNCHANGED stateVars
  BY <1>2 DEF NamesKept, stateVars
<1>3. CASE \E p \in Payloads : ClaimPayload(p) \/ \E to \in Nodes : CompleteOrder(p, to)
  BY <1>3 DEF NamesKept, ClaimPayload, CompleteOrder
<1>4. CASE \E p \in Payloads : HandlePayloadCreate(p) \/ HandlePayloadUpdate(p) \/ HandlePayloadDelete(p)
  BY <1>4 DEF NamesKept, HandlePayloadCreate, HandlePayloadUpdate, HandlePayloadDelete, PlaceForm
<1>5. CASE MoveRow \/ UnclaimPayload \/ ListPayloadsByNode
  BY <1>5 DEF NamesKept, MoveRow, UnclaimPayload, ListPayloadsByNode
<1>6. CASE SetNodePayloads \/ SetCount
  <2>1. Refreshed \in Nodes
    BY <1>1, <1>6 DEF Refreshed, SetNodePayloads, SetCount
  <2>2. creating' = creating /\ unfresh' = Missed(Refreshed)
    BY <1>6 DEF SetNodePayloads, SetCount
  <2>3. QED
    BY <2>1, <2>2 DEF NamesKept, Missed
<1>7. CASE \E n \in Nodes : HandleNodeCreate(n) \/ RefreshNodeMeta(n) \/ HandleNodeDelete(n)
  BY <1>7 DEF NamesKept, HandleNodeCreate, RefreshNodeMeta, HandleNodeDelete
<1>8. CASE RedisGoes \/ RedisComesBack
  BY <1>8 DEF NamesKept, RedisGoes, RedisComesBack
<1>9. CASE RestartCore
  BY <1>9 DEF NamesKept, RestartCore
<1>10. QED
  BY <1>2, <1>3, <1>4, <1>5, <1>6, <1>7, <1>8, <1>9 DEF StateNext

\* The rows and their copy are in their ranges.
LEMMA CopyTyped == CopyInv /\ NamesKept => NodeStateTypeOK
<1> SUFFICES ASSUME CopyInv, NamesKept PROVE NodeStateTypeOK
  OBVIOUS
<1>1. /\ placed \in [Payloads -> Nodes \cup {NoNode, NoPayload}]
      /\ claimed \in [Payloads -> BOOLEAN] /\ nodes \subseteq Nodes /\ cache \in Copy
  BY DEF CopyInv, StateTypes, Places
<1>2. /\ cache.up \in BOOLEAN /\ cache.meta \subseteq Nodes
      /\ cache.items \in [Nodes -> Lists] /\ cache.count \in [Nodes -> Counts]
  BY <1>1 DEF Copy
<1>3. cache.items \in [Nodes -> SUBSET (Payloads \X BOOLEAN)]
  BY <1>2 DEF Lists
<1>4. cache.count \in [Nodes -> 0..Cardinality(Payloads)]
  BY <1>2, CountsBounded
<1>5. QED
  BY <1>1, <1>2, <1>3, <1>4 DEF NodeStateTypeOK, NamesKept

\* A step of the run is a step of one service, and none of the others moves.
LEMMA FocusMoves ==
    [ServicesNext]_serviceVars =>
        /\ [CountNext]_countVars /\ [ChangeoverNext]_changeoverVars /\ [SetupNext]_setupVars
        /\ [StateNext]_stateVars /\ [SceneNext]_sceneVars /\ [ManifestNext]_manifestVars
        /\ [DebugNext]_debugVars
BY DEF ServicesNext, serviceVars

\* A behaviour of the run is a behaviour of every service: what is proved of a
\* service alone holds in the run.
THEOREM ServicesApart ==
    ServicesSpec => /\ CountSpec /\ ChangeoverSpec /\ SetupSpec /\ StateSpec
                    /\ SceneSpec /\ ManifestSpec /\ DebugSpec
<1>1. ServicesInit => /\ CountInit /\ ChangeoverInit /\ SetupInit /\ StateInit
                      /\ SceneInit /\ ManifestInit /\ DebugInit
  BY DEF ServicesInit
<1>2. QED
  BY <1>1, FocusMoves, PTL
     DEF ServicesSpec, CountSpec, ChangeoverSpec, SetupSpec, StateSpec, SceneSpec, ManifestSpec,
         DebugSpec

\* Every service keeps its variables in their ranges (ServicesTypeOK).
THEOREM ServicesTyped == ServicesSpec => []ServicesTypeOK
<1>1. CountSpec => []PartsTypeOK
  BY CountTypesInit, CountTypesStep, PartsTyped, PTL DEF CountSpec
<1>2. ChangeoverSpec => []ChangeoverTypeOK
  <2>1. ChangeoverInit => ChangeoverInv
    BY ChangeoverStart
  <2>2. ChangeoverInv /\ [ChangeoverNext]_changeoverVars => ChangeoverInv'
    BY ChangeoverStep
  <2>3. QED
    BY <2>1, <2>2, ChangeoverTyped, PTL DEF ChangeoverSpec
<1>3. SetupSpec => []SetupTypeOK
  BY SetupStart, SetupStep, SetupTyped, PTL DEF SetupSpec
<1>4. StateSpec => []NodeStateTypeOK
  <2>1. StateInit => NamesKept
    BY DEF StateInit, NamesKept
  <2>2. QED
    BY <2>1, CopyStart, CopyStep, NamesStep, CopyTyped, PTL DEF StateSpec
<1>5. SceneSpec => []SceneTypeOK
  BY SceneStart, SceneStep, SceneTyped, PTL DEF SceneSpec
<1>6. ManifestSpec => []ManifestTypeOK
  BY ManifestStart, ManifestStep, ManifestTyped, PTL DEF ManifestSpec
<1>7. QED
  BY <1>1, <1>2, <1>3, <1>4, <1>5, <1>6, ServicesApart, PTL DEF ServicesTypeOK
====
