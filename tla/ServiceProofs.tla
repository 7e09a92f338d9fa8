--------------------------- MODULE ServiceProofs ---------------------------
(***************************************************************************)
(* Proofs about what pydev_ai keeps running: the MCP server, for any calls, *)
(* workflows and number of permits; and the system monitors, for any        *)
(* devices, counts and number of events, whose totals are sums over sets of *)
(* devices (SummationProofs).                                               *)
(***************************************************************************)
EXTENDS McpServer, Monitor, SummationProofs, SequenceTheorems

(* The MCP server *)

(* What a workflow remembers of its reports, and what its state says of     *)
(* how far it is: the strengthening that makes AnswersTruthful inductive.   *)
Remembers ==
  \A r \in Requests :
    /\ ~problem[r] => statuses[r] \subseteq {"success"} \/ phase[r] = "done"
    /\ phase[r] \in {"new", "waiting"} => statuses[r] = {} /\ problem[r] = FALSE

ServerInv == ServerTypeOK /\ PermitsConserved /\ AnswersTruthful /\ Remembers

-----------------------------------------------------------------------------

(* The state has its type: no permit is made out of nothing, and a workflow *)
(* collects no more reports than it is made from.                           *)
LEMMA ServerTypeStep == ServerTypeOK /\ PermitsConserved /\ [ServerNext]_serverVars => ServerTypeOK'
<1> USE ServerAssumption DEF ServerTypeOK, PermitsConserved, Statuses, Answers
<1> SUFFICES ASSUME ServerTypeOK, PermitsConserved, [ServerNext]_serverVars PROVE ServerTypeOK'
  OBVIOUS
<1>1. CASE UNCHANGED serverVars
  BY <1>1 DEF serverVars
<1>2. ASSUME NEW r \in Requests, Call(r) PROVE ServerTypeOK'
  BY <1>2 DEF Call, Tell
<1>3. ASSUME NEW r \in Requests, Acquire(r) PROVE ServerTypeOK'
  BY <1>3 DEF Acquire
<1>4. ASSUME NEW r \in Requests, Refuse(r) PROVE ServerTypeOK'
  BY <1>4 DEF Refuse, Tell
<1>5. ASSUME NEW r \in Requests, Collect(r) PROVE ServerTypeOK'
  BY <1>5 DEF Collect
<1>6. ASSUME NEW r \in Requests, Return(r) PROVE ServerTypeOK'
  <2>1. r \in In("running") /\ IsFiniteSet(In("running"))
    BY <1>6, FS_Subset DEF Return, In
  <2>2. Cardinality(In("running")) \in Nat /\ Cardinality(In("running")) # 0
    BY <2>1, FS_CardinalityType, FS_EmptySet
  <2>3. permits' \in 0..Slots
    BY <1>6, <2>2 DEF Return, Release
  <2>4. /\ phase' \in [Requests -> {"new", "waiting", "running", "done"}]
        /\ answer' \in [Requests -> Answers]
        /\ statuses' \in [Requests -> SUBSET Statuses]
    BY <1>6 DEF Return, Finished, Oversize, Raises, Tell
  <2> QED
    BY <1>6, <2>3, <2>4 DEF Return
<1> QED
  BY <1>1, <1>2, <1>3, <1>4, <1>5, <1>6 DEF ServerNext

(* A call that starts to run takes one permit, one that returns gives one   *)
(* back, and no other step touches either number.                           *)
LEMMA PermitStep == ServerTypeOK /\ PermitsConserved /\ [ServerNext]_serverVars => PermitsConserved'
<1> USE ServerAssumption DEF ServerTypeOK, In
<1> SUFFICES ASSUME ServerTypeOK, PermitsConserved, [ServerNext]_serverVars PROVE PermitsConserved'
  OBVIOUS
<1> DEFINE running == In("running")
<1>0. IsFiniteSet(running) /\ Cardinality(running) \in Nat
  BY FS_Subset, FS_CardinalityType
<1>1. ASSUME running' = running, permits' = permits PROVE PermitsConserved'
  BY <1>1 DEF PermitsConserved
<1>2. CASE UNCHANGED serverVars
  BY <1>1, <1>2 DEF serverVars
<1>3. ASSUME NEW r \in Requests, Call(r) PROVE PermitsConserved'
  BY <1>1, <1>3 DEF Call, Tell
<1>4. ASSUME NEW r \in Requests, Acquire(r) PROVE PermitsConserved'
  <2>1. running' = running \cup {r} /\ r \notin running
    BY <1>4 DEF Acquire
  <2>2. Cardinality(running') = Cardinality(running) + 1
    BY <1>0, <2>1, FS_AddElement
  <2> QED
    BY <1>0, <1>4, <2>2 DEF Acquire, PermitsConserved
<1>5. ASSUME NEW r \in Requests, Refuse(r) PROVE PermitsConserved'
  BY <1>1, <1>5 DEF Refuse, Tell
<1>6. ASSUME NEW r \in Requests, Collect(r) PROVE PermitsConserved'
  BY <1>1, <1>6 DEF Collect
<1>7. ASSUME NEW r \in Requests, Return(r) PROVE PermitsConserved'
  <2>1. running' = running \ {r} /\ r \in running
    BY <1>7 DEF Return, Finished, Oversize, Raises, Tell
  <2>2. Cardinality(running') = Cardinality(running) - 1
    <3> HIDE DEF running, ServerTypeOK
    <3> QED
      BY <1>0, <2>1, FS_RemoveElement
  <2> QED
    BY <1>0, <1>7, <2>2 DEF Return, Release, PermitsConserved
<1> QED
  BY <1>2, <1>3, <1>4, <1>5, <1>6, <1>7 DEF ServerNext

(* A workflow has a problem from the first report that is not a success,    *)
(* and only a call that runs collects reports.                              *)
LEMMA AnswerStep == ServerInv /\ [ServerNext]_serverVars => (AnswersTruthful /\ Remembers)'
<1> USE DEF ServerInv, ServerTypeOK, AnswersTruthful, Remembers, Statuses, Answers
<1> SUFFICES ASSUME ServerInv, [ServerNext]_serverVars PROVE (AnswersTruthful /\ Remembers)'
  OBVIOUS
<1>1. CASE UNCHANGED serverVars
  BY <1>1 DEF serverVars
<1>2. ASSUME NEW r \in Requests, Call(r) PROVE (AnswersTruthful /\ Remembers)'
  BY <1>2 DEF Call, Tell
<1>3. ASSUME NEW r \in Requests, Acquire(r) PROVE (AnswersTruthful /\ Remembers)'
  BY <1>3 DEF Acquire
<1>4. ASSUME NEW r \in Requests, Refuse(r) PROVE (AnswersTruthful /\ Remembers)'
  BY <1>4 DEF Refuse, Tell
<1>5. ASSUME NEW r \in Requests, Collect(r) PROVE (AnswersTruthful /\ Remembers)'
  <2>1. PICK s \in Statuses :
          /\ statuses' = [statuses EXCEPT ![r] = @ \cup {s}]
          /\ problem' = [problem EXCEPT ![r] = @ \/ s # "success"]
    BY <1>5 DEF Collect
  <2>2. phase[r] = "running" /\ phase' = phase /\ answer' = answer
    BY <1>5 DEF Collect
  <2>3. ASSUME NEW q \in Requests
        PROVE  /\ answer'[q] = "none" <=> phase'[q] # "done"
               /\ answer'[q] = "success" => statuses'[q] \subseteq {"success"}
               /\ answer'[q] = "refused" => statuses'[q] = {}
    BY <2>1, <2>2
  <2>4. ASSUME NEW q \in Requests
        PROVE  /\ ~problem'[q] => statuses'[q] \subseteq {"success"} \/ phase'[q] = "done"
               /\ phase'[q] \in {"new", "waiting"} => statuses'[q] = {} /\ problem'[q] = FALSE
    <3>1. CASE q = r
      <4>1. problem'[r] = (problem[r] \/ s # "success") /\ statuses'[r] = statuses[r] \cup {s}
        BY <2>1
      <4> QED
        BY <2>2, <3>1, <4>1
    <3>2. CASE q # r
      BY <2>1, <2>2, <3>2
    <3> QED
      BY <3>1, <3>2
  <2> QED
    BY <2>3, <2>4
<1>6. ASSUME NEW r \in Requests, Return(r) PROVE (AnswersTruthful /\ Remembers)'
  <2>1. CASE Finished(r)
    BY <1>6, <2>1 DEF Return, Finished, Tell
  <2>2. CASE Oversize(r)
    BY <1>6, <2>2 DEF Return, Oversize, Tell
  <2>3. CASE Raises(r)
    BY <1>6, <2>3 DEF Return, Raises, Tell
  <2> QED
    BY <1>6, <2>1, <2>2, <2>3 DEF Return
<1> QED
  BY <1>1, <1>2, <1>3, <1>4, <1>5, <1>6 DEF ServerNext

(* Nothing runs at the start, and all permits are free. *)
LEMMA ServerInitInv == ServerInit => ServerInv
<1> USE ServerAssumption DEF ServerInit
<1>1. ServerInit => ServerTypeOK
  BY DEF ServerTypeOK, Statuses, Answers
<1>2. ServerInit => PermitsConserved
  <2>1. ServerInit => In("running") = {}
    BY DEF In
  <2> QED
    BY <2>1, FS_EmptySet DEF PermitsConserved
<1>3. ServerInit => AnswersTruthful /\ Remembers
  BY DEF AnswersTruthful, Remembers
<1> QED
  BY <1>1, <1>2, <1>3 DEF ServerInv

(* ServerInv is an invariant of the server. *)
THEOREM ServerInvariance == ServerSpec => []ServerInv
<1>1. ServerInv /\ [ServerNext]_serverVars => ServerInv'
  BY ServerTypeStep, PermitStep, AnswerStep DEF ServerInv
<1> QED
  BY <1>1, ServerInitInv, PTL DEF ServerSpec

(* As many permits are out as operations run, never more than there are.    *)
THEOREM PermitsAlwaysConserved == ServerSpec => []PermitsConserved
  BY ServerInvariance, PTL DEF ServerInv

(* No call is told of a success when a report it is made from was not one,  *)
(* and a call that is refused has run no collector.                         *)
THEOREM AnswersAlwaysTruthful == ServerSpec => []AnswersTruthful
  BY ServerInvariance, PTL DEF ServerInv

(* The type of the state. *)
THEOREM ServerTypeCorrect == ServerSpec => []ServerTypeOK
  BY ServerInvariance, PTL DEF ServerInv
-----------------------------------------------------------------------------
(* The monitors: what holds of every state *)

(* A counter, 0 for a device that is not there. *)
Value(f, d) == IF d \in DOMAIN f THEN f[d] ELSE 0

(* What CPU counters c, after the I/O wait went back k times, owe to an     *)
(* earlier sample s.                                                        *)
CpuSince(c, k, s) ==
  /\ s.cpu["busy"] <= c["busy"] /\ s.cpu["idle"] <= c["idle"]
  /\ s.back <= k /\ s.cpu["iowait"] <= c["iowait"] + (k - s.back)

(* And devices f, that have transferred m and lived l, to a sample of those *)
(* in S: a counter grows by no more than was transferred, and by just that  *)
(* if the device was neither gone nor reset.                                *)
DevicesSince(S, f, m, l, s) ==
  \A d \in S :
       /\ s.moved[d] <= m[d] /\ s.life[d] <= l[d]
       /\ Value(f, d) - Value(s.dev, d) <= m[d] - s.moved[d]
       /\ l[d] = s.life[d] => /\ d \in DOMAIN f <=> d \in DOMAIN s.dev
                              /\ Value(f, d) - Value(s.dev, d) = m[d] - s.moved[d]

SampleInv ==
  /\ have => /\ CpuSince(cpu, back, previous)
             /\ DevicesSince(previous.seen, dev, moved, life, previous)
             /\ DOMAIN previous.dev \subseteq previous.seen
  /\ pc \in {"scan", "devices"} =>
       /\ CpuSince(cpu, back, current)
       /\ have => CpuSince(current.cpu, current.back, previous)
  /\ pc \in {"report", "log"} =>
       /\ have
       /\ CpuSince(cpu, back, current)
       /\ DevicesSince(current.seen, dev, moved, life, current)
       /\ DOMAIN current.dev \subseteq current.seen
       /\ CpuSince(current.cpu, current.back, previous)
       /\ DevicesSince(Compared, current.dev, current.moved, current.life, previous)

(* What a monitor looks for while no read has failed without a word, and    *)
(* that it finds again what has stayed.                                     *)
SeenInv ==
  ~missed =>
    /\ have => /\ program = "c" => previous.seen = CSees
               /\ program = "py" => previous.seen \subseteq Interfaces \cup Leaves
    /\ pc = "devices" /\ program = "py" =>
         /\ current.seen \subseteq Interfaces \cup Leaves
         /\ have => \A d \in DOMAIN previous.dev : life[d] = previous.life[d] => d \in current.seen
    /\ pc \in {"report", "log"} =>
         /\ program = "c" => current.seen = CSees
         /\ \A d \in DOMAIN previous.dev : Steady(d) => d \in DOMAIN current.dev

ReportInv ==
  pc = "log" => /\ report = IF program = "py" THEN PyReport ELSE CReport
                /\ program = "py" => ~PyRefuses

StatusInv ==
  /\ pc # "done" /\ program = "py" => lost = 0
  /\ StatusTruthful

(* Lines are only written by who has opened the log, behind its header.     *)
LogInv ==
  /\ \A i \in MyLines : log[i][2] <= shown
  /\ header => \A i \in DOMAIN log : log[i][1] # "mine"
  /\ pc \in {"open", "done"} \/ program = "py" => ~header
  /\ pc = "open" => lost = 0 /\ \A i \in DOMAIN log : log[i][1] # "mine"
  /\ program = "c" /\ lost = 0 /\ pc \notin {"open", "done"} /\ log = << >> => header
  /\ other = "header" => \A i \in DOMAIN log : log[i][1] # "their"
  /\ other = "plain" => log # << >>
  /\ LogFaithful

MonitorInv == TypeOK /\ SampleInv /\ SeenInv /\ ReportInv /\ StatusInv /\ LogInv

-----------------------------------------------------------------------------
(* Types *)

(* A sample is what its parts are. *)
LEMMA SampleParts ==
  ASSUME NEW c \in [Fields -> Nat], NEW f, AreCounters(f), NEW m \in [Devices -> Nat],
         NEW l \in [Devices -> Nat], NEW k \in Nat, NEW v \in SUBSET Devices
  PROVE  IsSample([cpu |-> c, seen |-> v, dev |-> f, moved |-> m, life |-> l, back |-> k])
BY DEF IsSample

(* What the steps of take_sample make of a sample. *)
LEMMA SampledCpu ==
  ASSUME NEW s, IsSample(s), NEW c \in [Fields -> Nat], NEW k \in Nat
  PROVE  IsSample([s EXCEPT !.cpu = c, !.back = k])
<1> DEFINE u == [s EXCEPT !.cpu = c]
           t == [u EXCEPT !.back = k]
<1>1. IsSample(u)
  BY DEF IsSample
<1>2. [s EXCEPT !.cpu = c, !.back = k] = t
  BY DEF IsSample
<1> HIDE DEF u
<1>3. IsSample(t)
  BY <1>1 DEF IsSample
<1> HIDE DEF t
<1> QED
  BY <1>2, <1>3

LEMMA SampledScan ==
  ASSUME NEW s, IsSample(s), NEW v \in SUBSET Devices
  PROVE  IsSample([s EXCEPT !.seen = v])
BY DEF IsSample

LEMMA SampledDevices ==
  ASSUME NEW s, IsSample(s), NEW v \in SUBSET Devices, NEW f, AreCounters(f),
         NEW m \in [Devices -> Nat], NEW l \in [Devices -> Nat]
  PROVE  IsSample([s EXCEPT !.seen = v, !.dev = f, !.moved = m, !.life = l])
<1> DEFINE r == [s EXCEPT !.seen = v]
           u == [r EXCEPT !.dev = f]
           w == [u EXCEPT !.moved = m]
           t == [w EXCEPT !.life = l]
<1>0. IsSample(r)
  BY SampledScan
<1>2. [s EXCEPT !.seen = v, !.dev = f, !.moved = m, !.life = l] = t
  BY DEF IsSample
<1> HIDE DEF r
<1>1. IsSample(u)
  BY <1>0 DEF IsSample
<1> HIDE DEF u
<1>3. IsSample(w)
  BY <1>1 DEF IsSample
<1> HIDE DEF w
<1>4. IsSample(t)
  BY <1>3 DEF IsSample
<1> HIDE DEF t
<1> QED
  BY <1>2, <1>4

LEMMA NoSampleIsOne == IsSample(NoSample)
<1>1. [f \in Fields |-> 0] \in [Fields -> Nat] /\ AreCounters(<< >>)
  BY DEF AreCounters
<1> QED
  BY <1>1, SampleParts DEF NoSample

(* The devices a monitor finds are those there of those it looks for. *)
LEMMA SeenDevices ==
  ASSUME AreCounters(dev), NEW S \in SUBSET Devices
  PROVE  LET f == Restrict(dev, ThereOf(S))
         IN /\ AreCounters(f) /\ DOMAIN f \subseteq S
            /\ \A d \in S : Value(f, d) = Value(dev, d)
                           /\ (d \in DOMAIN f <=> d \in DOMAIN dev)
BY DEF AreCounters, ThereOf, Restrict, Value

(* Which disks a scan takes, and what a reading of /proc looks for. *)
Scanning  == ScanDisks \/ ScanFails \/ SlavesFail
Measuring == ReadDevices \/ ReadStopsShort

LEMMA ScanningIs ==
  ASSUME TypeOK, Scanning
  PROVE  /\ \E disks \in SUBSET Devices : Scan(disks) /\ (~missed' => disks = ThereOf(Leaves))
         /\ missed' \in BOOLEAN /\ (~missed' => ~missed)
         /\ events' \in Nat
<1>1. ThereOf(Leaves) \in SUBSET Devices /\ ThereOf(Stacked) \in SUBSET Devices
  BY MonitorAssumption DEF ThereOf
<1>2. missed \in BOOLEAN /\ events \in Nat
  BY DEF TypeOK
<1>3. CASE ScanDisks
  BY <1>1, <1>2, <1>3 DEF ScanDisks
<1>4. CASE ScanFails
  BY <1>2, <1>4 DEF ScanFails, Missed, Event
<1>5. CASE SlavesFail
  <2>1. PICK S \in SUBSET ThereOf(Stacked) : Scan(ThereOf(Leaves) \cup S)
    BY <1>5 DEF SlavesFail
  <2>2. missed' = TRUE /\ events' \in Nat
    BY <1>2, <1>5 DEF SlavesFail, Missed, Event
  <2>3. ThereOf(Leaves) \cup S \in SUBSET Devices
    BY <1>1
  <2> QED
    BY <2>1, <2>2, <2>3
<1> QED
  BY <1>3, <1>4, <1>5 DEF Scanning

LEMMA MeasuringIs ==
  ASSUME TypeOK, Measuring
  PROVE  /\ \E S \in SUBSET Devices :
              /\ Measure(S)
              /\ ~missed' \/ program = "py" =>
                   S = IF program = "c" THEN CSees ELSE current.seen
         /\ missed' \in BOOLEAN /\ (~missed' => ~missed)
         /\ events' \in Nat
<1>1. /\ current.seen \in SUBSET Devices /\ CSees \in SUBSET Devices
      /\ missed \in BOOLEAN /\ events \in Nat
  BY MonitorAssumption DEF TypeOK, IsSample
<1>2. CASE ReadDevices
  BY <1>1, <1>2 DEF ReadDevices
<1>3. CASE ReadStopsShort
  <2>1. PICK S \in SUBSET CSees : Measure(S)
    BY <1>3 DEF ReadStopsShort
  <2>2. program = "c" /\ missed' = TRUE /\ events' \in Nat
    BY <1>1, <1>3 DEF ReadStopsShort, Missed, Event
  <2>3. S \in SUBSET Devices
    BY <1>1
  <2> QED
    BY <2>1, <2>2, <2>3
<1> QED
  BY <1>2, <1>3 DEF Measuring


Lines == {"mine", "their"} \X Nat
LEMMA LinesOfLog ==
  /\ \A n \in Nat : Mine(n) \in Lines /\ Their(n) \in Lines
  /\ \A n \in Nat : Mine(n)[1] = "mine" /\ Mine(n)[2] = n
                    /\ Their(n)[1] = "their" /\ Their(n)[2] = n
BY DEF Lines, Mine, Their

(* What is reported of two samples has its type. *)
LEMMA ReportTypes ==
  ASSUME IsSample(previous), IsSample(current)
  PROVE  /\ CReport \in [busy: Int, total: Int, volume: Int, rows: SUBSET Devices, warned: SUBSET Devices]
         /\ PyReport \in [busy: Int, total: Int, volume: Int, rows: SUBSET Devices, warned: SUBSET Devices]
<1>1. \A c \in [Fields -> Nat] : Total(c) \in Nat /\ Idle(c) \in Nat
  BY DEF Total, Idle, Fields
<1>2. /\ previous.cpu \in [Fields -> Nat] /\ current.cpu \in [Fields -> Nat]
      /\ AreCounters(previous.dev) /\ AreCounters(current.dev)
  BY DEF IsSample
<1>3. IsFiniteSet(DOMAIN previous.dev) /\ IsFiniteSet(DOMAIN current.dev) /\ IsFiniteSet(Rated)
  <2>1. DOMAIN previous.dev \subseteq Devices /\ DOMAIN current.dev \subseteq Devices /\ Rated \subseteq Devices
    BY <1>2 DEF AreCounters, Rated
  <2> QED
    BY <2>1, MonitorAssumption, FS_Subset
<1>4. Sum(previous.dev, DOMAIN previous.dev) \in Int /\ Sum(current.dev, DOMAIN current.dev) \in Int
  <2>1. /\ \A d \in DOMAIN previous.dev : previous.dev[d] \in Int
        /\ \A d \in DOMAIN current.dev : current.dev[d] \in Int
    BY <1>2 DEF AreCounters
  <2> QED
    BY <1>3, <2>1, SumInt
<1>5. Sum([d \in Rated |-> current.dev[d] - previous.dev[d]], Rated) \in Int
  <2> DEFINE diff == [d \in Rated |-> current.dev[d] - previous.dev[d]]
  <2>1. \A d \in Rated : diff[d] \in Int
    BY <1>2 DEF AreCounters, Rated
  <2> HIDE DEF diff
  <2>2. Sum(diff, Rated) \in Int
    BY <1>3, <2>1, SumInt
  <2> QED
    BY <2>2 DEF diff
<1>6. \A a, b \in Int : SafeDelta(a, b) \in Int /\ Smaller(a, b) \in Int
  BY DEF SafeDelta, Smaller
<1>7. CReport \in [busy: Int, total: Int, volume: Int, rows: SUBSET Devices, warned: SUBSET Devices]
  <2> DEFINE total == SafeDelta(Total(current.cpu), Total(previous.cpu))
             idle == Smaller(SafeDelta(Idle(current.cpu), Idle(previous.cpu)), total)
             volume == SafeDelta(Sum(current.dev, DOMAIN current.dev), Sum(previous.dev, DOMAIN previous.dev))
  <2>1d. /\ Total(current.cpu) \in Int /\ Total(previous.cpu) \in Int
         /\ Idle(current.cpu) \in Int /\ Idle(previous.cpu) \in Int
    BY <1>1, <1>2
  <2>1a. total \in Int /\ SafeDelta(Idle(current.cpu), Idle(previous.cpu)) \in Int
    BY <1>6, <2>1d
  <2>1b. idle \in Int
    BY <1>6, <2>1a
  <2>1c. volume \in Int
    BY <1>4, <1>6
  <2>1. total \in Int /\ idle \in Int /\ volume \in Int
    BY <2>1a, <2>1b, <2>1c
  <2>2. CReport = [busy |-> total - idle, total |-> total, volume |-> volume, rows |-> {}, warned |-> {}]
    BY DEF CReport
  <2> HIDE DEF total, idle, volume
  <2> QED
    BY <2>1, <2>2
<1>8. PyReport \in [busy: Int, total: Int, volume: Int, rows: SUBSET Devices, warned: SUBSET Devices]
  <2>1. PyBusy \in Int /\ Total(current.cpu) - Total(previous.cpu) \in Int
    BY <1>1, <1>2 DEF PyBusy
  <2>2. Rated \subseteq Devices /\ Either \subseteq Devices
    BY <1>2 DEF Rated, Either, AreCounters
  <2> QED
    BY <1>5, <2>1, <2>2 DEF PyReport
<1> QED
  BY <1>7, <1>8

(* The kernel's counters stay counters. *)
LEMMA KernelTypes == TypeOK /\ [Next]_vars =>
  /\ cpu' \in [Fields -> Nat] /\ AreCounters(dev') /\ back' \in Nat
  /\ moved' \in [Devices -> Nat] /\ life' \in [Devices -> Nat]
<1> SUFFICES ASSUME TypeOK, [Next]_vars
             PROVE  /\ cpu' \in [Fields -> Nat] /\ AreCounters(dev') /\ back' \in Nat
                    /\ moved' \in [Devices -> Nat] /\ life' \in [Devices -> Nat]
  OBVIOUS
<1>0. /\ cpu \in [Fields -> Nat] /\ AreCounters(dev) /\ back \in Nat
      /\ moved \in [Devices -> Nat] /\ life \in [Devices -> Nat]
  BY DEF TypeOK
<1>1. CASE UNCHANGED kernelVars
  BY <1>0, <1>1 DEF kernelVars, AreCounters
<1>2. CASE Tool \/ UNCHANGED vars
  <2>1. UNCHANGED kernelVars
    BY <1>2 DEF Tool, vars, ReadCpu, RefuseInterval,
     ScanDisks, ScanFails, SlavesFail, Scan, ReadDevices, ReadStopsShort, Measure, ReadFails,
     Report, OpenLog, OpenFails,
         AppendLine, AppendFails
  <2> QED
    BY <1>1, <2>1
<1>3. ASSUME NEW f \in Fields, CpuRuns(f) PROVE cpu' \in [Fields -> Nat] /\ UNCHANGED <<dev, moved, life, back>>
  BY <1>0, <1>3 DEF CpuRuns, Fields
<1>4. CASE WaitGoesBack
  <2>1. cpu["iowait"] - 1 \in Nat
    BY <1>0, <1>4 DEF WaitGoesBack, Fields
  <2>2. cpu' \in [Fields -> Nat] /\ back' \in Nat
    <3>1. cpu' = [cpu EXCEPT !["iowait"] = cpu["iowait"] - 1] /\ back' = back + 1
      BY <1>4 DEF WaitGoesBack
    <3>2. \A n \in Nat : [cpu EXCEPT !["iowait"] = n] \in [Fields -> Nat]
      BY <1>0
    <3>3. back' \in Nat
      BY <1>0, <3>1
    <3> QED
      BY <2>1, <3>1, <3>2, <3>3, Zenon
  <2>3. UNCHANGED <<dev, moved, life>>
    BY <1>4 DEF WaitGoesBack
  <2> QED
    BY <1>0, <2>2, <2>3
<1>5. ASSUME NEW d \in Devices, Transfers(d) \/ Goes(d) \/ Comes(d)
      PROVE  /\ cpu' \in [Fields -> Nat] /\ AreCounters(dev') /\ back' \in Nat
             /\ moved' \in [Devices -> Nat] /\ life' \in [Devices -> Nat]
  <2>1. CASE Transfers(d)
    BY <1>0, <2>1 DEF Transfers, AreCounters
  <2>2. CASE Goes(d)
    BY <1>0, <2>2 DEF Goes, AreCounters, Restrict
  <2>3. CASE Comes(d)
    BY <1>0, <2>3 DEF Comes, AreCounters
  <2> QED
    BY <1>5, <2>1, <2>2, <2>3
<1>6. CASE OtherOpens \/ OtherAppends
  BY <1>1, <1>6 DEF OtherOpens, OtherAppends
<1> QED
  BY <1>0, <1>2, <1>3, <1>4, <1>5, <1>6 DEF Next, Others, AreCounters


(* The tool's own variables, but for the status: at the end of an iteration *)
(* and at the others.                                                       *)
IteratedTypes ==
  /\ shown' \in Nat /\ IsSample(previous') /\ IsSample(current') /\ have' \in BOOLEAN
  /\ report' \in [busy: Int, total: Int, volume: Int, rows: SUBSET Devices, warned: SUBSET Devices]
  /\ pc' \in {"cpu", "done"} /\ status' \in {0, Running} /\ (status' = Running <=> pc' # "done")

LEMMA IteratedStep == TypeOK /\ pc = "log" /\ Iterated => IteratedTypes
<1> SUFFICES ASSUME TypeOK, pc = "log", Iterated PROVE IteratedTypes
  OBVIOUS
<1>1. shown' \in Nat /\ have' \in BOOLEAN
  BY DEF TypeOK, Iterated
<1>2. IsSample(previous') /\ IsSample(current')
  <2>1. IsSample(current) /\ IsSample(NoSample)
    BY NoSampleIsOne DEF TypeOK
  <2>2. previous' = (IF program = "c" THEN current ELSE NoSample) /\ current' = NoSample
    BY DEF Iterated
  <2> QED
    BY <2>1, <2>2
<1>3. report' \in [busy: Int, total: Int, volume: Int, rows: SUBSET Devices, warned: SUBSET Devices]
  BY DEF Iterated, NoReport
<1>4. /\ pc' \in {"cpu", "done"} /\ status' \in {0, Running}
      /\ (status' = Running <=> pc' # "done")
  BY DEF TypeOK, Iterated, End, Running
<1> QED
  BY <1>1, <1>2, <1>3, <1>4 DEF IteratedTypes

(* Lines are only added. *)
LEMMA LogTypes == TypeOK /\ [Next]_vars => log' \in Seq(Lines)
<1> SUFFICES ASSUME TypeOK, [Next]_vars PROVE log' \in Seq(Lines)
  OBVIOUS
<1>0. log \in Seq(Lines) /\ shown \in Nat /\ shown + 1 \in Nat
  BY DEF TypeOK, Lines
<1>1. CASE UNCHANGED log
  BY <1>0, <1>1
<1>2. CASE ReadFails
  BY <1>0, <1>2, LinesOfLog DEF ReadFails
<1>3. CASE AppendLine
  BY <1>0, <1>3, LinesOfLog DEF AppendLine
<1>4. CASE OtherAppends
  BY <1>0, <1>4, LinesOfLog DEF OtherAppends
<1> QED
  BY <1>1, <1>2, <1>3, <1>4 DEF Next, Tool, Others, vars, ReadCpu, RefuseInterval, ScanDisks,
       ScanFails, SlavesFail, Scan, ReadDevices, ReadStopsShort, Measure, Report, OpenLog,
       OpenFails, AppendFails, CpuRuns, WaitGoesBack, Transfers, Goes, Comes, OtherOpens,
       logVars

(* Every variable keeps its type. *)
LEMMA MonitorTypeStep == TypeOK /\ [Next]_vars => TypeOK'
<1> SUFFICES ASSUME TypeOK, [Next]_vars PROVE TypeOK'
  OBVIOUS
<1>0. /\ cpu' \in [Fields -> Nat] /\ AreCounters(dev') /\ back' \in Nat
      /\ moved' \in [Devices -> Nat] /\ life' \in [Devices -> Nat]
      /\ log' \in Seq({"mine", "their"} \X Nat)
  BY KernelTypes, LogTypes DEF Lines
<1> DEFINE Own ==
  /\ program \in {"c", "py"} /\ count \in Counts /\ long \in BOOLEAN /\ missed \in BOOLEAN
  /\ pc \in {"open", "cpu", "scan", "devices", "report", "log", "done"}
  /\ IsSample(previous) /\ IsSample(current)
  /\ report \in [busy: Int, total: Int, volume: Int, rows: SUBSET Devices, warned: SUBSET Devices]
  /\ shown \in Nat
  /\ status \in {0, 1, 2, Running} /\ (status = Running <=> pc # "done")
  /\ other \in {"none", "header", "plain"}
  /\ faults \in Nat /\ lost \in Nat /\ events \in Nat
<1>13. have' \in BOOLEAN /\ header' \in BOOLEAN
  BY DEF TypeOK, Next, Tool, Others, vars, toolVars, ReadCpu, RefuseInterval, ScanDisks, ScanFails,
     SlavesFail, Scan, ReadDevices, ReadStopsShort, Measure, ReadFails, Report, OpenLog, OpenFails,
     AppendLine, AppendFails, Iterated, CpuRuns, WaitGoesBack, Transfers, Goes, Comes, OtherOpens,
     OtherAppends, Outside
<1>12. SUFFICES Own'
  BY <1>0, <1>13 DEF TypeOK
<1>1. Own
  BY DEF TypeOK
<1>2. CASE UNCHANGED vars
  BY <1>1, <1>2 DEF vars, toolVars, logVars
<1>3. CASE Others
  <2>1. UNCHANGED <<toolVars, faults>> /\ events' = events - 1 /\ events > 0
    BY <1>3 DEF Others, CpuRuns, WaitGoesBack, Transfers, Goes, Comes, OtherOpens, OtherAppends,
         Outside, Event
  <2>2. lost' = lost /\ other' \in {"none", "header", "plain"}
    BY <1>1, <1>3 DEF Others, CpuRuns, WaitGoesBack, Transfers, Goes, Comes, OtherOpens,
         OtherAppends, logVars
  <2> QED
    BY <1>1, <2>1, <2>2 DEF toolVars
<1>4. CASE ReadCpu
  <2>1. IsSample(current')
    BY <1>1, <1>4, SampledCpu DEF ReadCpu, TypeOK
  <2> QED
    BY <1>1, <1>4, <2>1 DEF ReadCpu, logVars
<1>15. CASE RefuseInterval
  BY <1>1, <1>15 DEF RefuseInterval, logVars, End, Running
<1>14. CASE Scanning
  <2>1. PICK disks \in SUBSET Devices : Scan(disks)
    BY <1>14, ScanningIs
  <2>2. /\ current' = [current EXCEPT !.seen = Interfaces \cup disks] /\ pc' = "devices"
        /\ UNCHANGED <<program, count, long, previous, report, shown, status, other, lost, faults>>
        /\ pc = "scan"
    BY <2>1 DEF Scan, logVars
  <2>3. missed' \in BOOLEAN /\ events' \in Nat
    BY <1>14, ScanningIs
  <2>4. IsSample(current')
    BY <1>1, <2>2, SampledScan, MonitorAssumption
  <2> QED
    BY <1>1, <2>2, <2>3, <2>4
<1>5. CASE Measuring
  <2>0. PICK S \in SUBSET Devices : Measure(S)
    BY <1>5, MeasuringIs
  <2> DEFINE f == Restrict(dev, ThereOf(S))
             sample == [current EXCEPT !.seen = S, !.dev = f, !.moved = moved, !.life = life]
  <2>1. AreCounters(f)
    BY SeenDevices DEF TypeOK
  <2>2. IsSample(sample)
    <3> HIDE DEF f
    <3> QED
      BY <1>1, <2>1, SampledDevices DEF TypeOK
  <2>3. /\ previous' \in {previous, sample} /\ current' \in {current, sample}
        /\ pc' \in {"report", "cpu"} /\ pc = "devices"
    BY <2>0 DEF Measure
  <2> HIDE DEF sample, f
  <2>4. IsSample(previous') /\ IsSample(current')
    BY <1>1, <2>2, <2>3
  <2>5. UNCHANGED <<program, count, long, report, shown, status, other, lost, faults>>
    BY <2>0 DEF Measure, logVars
  <2>6. missed' \in BOOLEAN /\ events' \in Nat
    BY <1>5, MeasuringIs
  <2> QED
    BY <1>1, <2>3, <2>4, <2>5, <2>6
<1>6. CASE ReadFails
  <2>1. /\ status' \in {0, 1, 2} /\ pc' = "done" /\ header' = FALSE
        /\ faults' = faults + 1 /\ events' = events - 1 /\ events > 0
        /\ UNCHANGED <<program, count, long, missed, have, previous, current, report, shown,
                       other, lost>>
    BY <1>6 DEF ReadFails, End, Event
  <2> QED
    BY <1>1, <2>1 DEF Running
<1>7. CASE Report
  <2>1. report' \in [busy: Int, total: Int, volume: Int, rows: SUBSET Devices, warned: SUBSET Devices]
    <3>1. report' \in {report, PyReport, CReport}
      BY <1>7 DEF Report
    <3> QED
      BY <1>1, <3>1, ReportTypes
  <2>2. \/ status' = 2 /\ pc' = "done"
        \/ status' = status /\ pc' = "log" /\ pc = "report"
    BY <1>7 DEF Report, End
  <2>3. UNCHANGED <<program, count, long, missed, have, previous, current, shown, header, other,
                    lost, faults, events>>
    BY <1>7 DEF Report, logVars
  <2> QED
    BY <1>1, <2>1, <2>2, <2>3 DEF Running
<1>8. CASE OpenLog
  BY <1>1, <1>8 DEF OpenLog, logVars
<1>9. CASE OpenFails
  BY <1>1, <1>9 DEF OpenFails, logVars, End, Event, Running
<1>10. CASE AppendLine
  <2>1. IteratedTypes
    BY <1>10, IteratedStep DEF AppendLine
  <2>2. header' = FALSE /\ UNCHANGED <<program, count, long, missed, other, lost, faults, events>>
    BY <1>10 DEF AppendLine
  <2> QED
    BY <1>1, <2>1, <2>2 DEF IteratedTypes
<1>11. CASE AppendFails
  <2>1. /\ header' = FALSE /\ faults' = faults + 1 /\ lost' = lost + 1
        /\ events' = events - 1 /\ events > 0 /\ UNCHANGED <<program, count, long, missed, other>>
    BY <1>11 DEF AppendFails, Event
  <2>2. CASE program = "c"
    <3>1. IteratedTypes
      BY <1>11, <2>2, IteratedStep DEF AppendFails
    <3> QED
      BY <1>1, <2>1, <3>1 DEF IteratedTypes
  <2>3. CASE program # "c"
    <3>1. shown' = shown + 1 /\ pc' = "done" /\ status' = 2 /\ UNCHANGED <<have, previous, current, report>>
      BY <1>11, <2>3 DEF AppendFails, End
    <3> QED
      BY <1>1, <2>1, <3>1 DEF Running
  <2> QED
    BY <2>2, <2>3
<1> QED
  BY <1>2, <1>3, <1>4, <1>5, <1>6, <1>7, <1>8, <1>9, <1>10, <1>11, <1>14, <1>15
     DEF Next, Tool, Scanning, Measuring

-----------------------------------------------------------------------------
(* The exit status *)

(* What was asked for stays, and a read that has failed is not forgotten. *)
LEMMA SameProgram ==
  ASSUME [Next]_vars
  PROVE  program' = program /\ long' = long /\ (~missed' => ~missed)
<1>1. program' = program /\ long' = long
  BY DEF Next, Tool, Others, vars, toolVars, ReadCpu, RefuseInterval, ScanDisks, ScanFails,
     SlavesFail, Scan, ReadDevices, ReadStopsShort, Measure, ReadFails, Report, OpenLog, OpenFails,
     AppendLine, AppendFails, CpuRuns, WaitGoesBack, Transfers, Goes, Comes, OtherOpens,
     OtherAppends, Outside
<1>2. missed' = missed \/ missed' = TRUE
  BY DEF Next, Tool, Others, vars, toolVars, ReadCpu, RefuseInterval, ScanDisks, ScanFails,
     SlavesFail, ReadDevices, ReadStopsShort, Missed, ReadFails, Report, OpenLog, OpenFails,
     AppendLine, AppendFails, CpuRuns, WaitGoesBack, Transfers, Goes, Comes, OtherOpens,
     OtherAppends, Outside
<1>3. ~missed' => ~missed
  BY <1>2
<1> QED
  BY <1>1, <1>3

(* A Python monitor that could not write a line has ended, and the end is   *)
(* where the status is made.                                                *)
LEMMA StatusStep == TypeOK /\ SampleInv /\ StatusInv /\ [Next]_vars => StatusInv'
<1> SUFFICES ASSUME TypeOK, SampleInv, StatusInv, [Next]_vars PROVE StatusInv'
  OBVIOUS
<1>0. /\ shown \in Nat /\ faults \in Nat /\ lost \in Nat /\ count \in Nat
      /\ program \in {"c", "py"} /\ (status = 9 <=> pc # "done") /\ long' = long
  BY MonitorAssumption, SameProgram DEF TypeOK, Running
<1>1. CASE UNCHANGED <<program, count, long, have, previous, current, shown, status, pc,
                       faults, lost>>
  BY <1>1 DEF StatusInv, StatusTruthful, PyRefuses, Total
<1>2. ASSUME pc # "done", pc' # "done", lost' = lost, program' = program PROVE StatusInv'
  BY <1>2 DEF StatusInv, StatusTruthful
<1>3. CASE ReadCpu \/ Scanning \/ Measuring \/ OpenLog
  <2>1. pc # "done" /\ pc' # "done" /\ lost' = lost /\ program' = program
    BY <1>3 DEF ReadCpu, Scanning, ScanDisks, ScanFails, SlavesFail, Scan, Measuring, ReadDevices,
         ReadStopsShort, Measure, OpenLog, logVars
  <2> QED
    BY <1>2, <2>1
<1>11. CASE RefuseInterval
  <2>1. pc' = "done" /\ status' = 2 /\ program' = "py" /\ long'
    BY <1>0, <1>11 DEF RefuseInterval, End
  <2> QED
    BY <2>1 DEF StatusInv, StatusTruthful
<1>4. CASE Others \/ UNCHANGED vars
  BY <1>1, <1>4 DEF Others, CpuRuns, WaitGoesBack, Transfers, Goes, Comes, OtherOpens,
       OtherAppends, Outside, toolVars, logVars, vars
<1>5. CASE ReadFails
  BY <1>0, <1>5 DEF ReadFails, End, StatusInv, StatusTruthful
<1>6. CASE OpenFails
  BY <1>0, <1>6 DEF OpenFails, End, StatusInv, StatusTruthful
<1>7. CASE Report
  <2>1. CASE program = "py" /\ PyRefuses
    <3>1. PyRefuses' /\ have' /\ program' = "py" /\ status' = 2 /\ pc' = "done"
      BY <1>7, <2>1 DEF Report, PyRefuses, End, SampleInv
    <3> QED
      BY <3>1 DEF StatusInv, StatusTruthful
  <2>2. CASE ~(program = "py" /\ PyRefuses)
    BY <1>2, <1>7, <2>2 DEF Report, logVars
  <2> QED
    BY <2>1, <2>2
<1>8. ASSUME pc = "log", Iterated, UNCHANGED <<program, count>>, program = "py" => lost' = lost
      PROVE  StatusInv'
  <2>1. shown' = shown + 1
    BY <1>8 DEF Iterated
  <2>2. CASE shown' = count
    <3>1. pc' = "done" /\ status' = 0
      BY <1>8, <2>2 DEF Iterated, End
    <3>2. count > 0 /\ (program = "py" => lost' = 0)
      BY <1>0, <1>8, <2>1, <2>2 DEF StatusInv
    <3> QED
      BY <1>0, <1>8, <2>2, <3>1, <3>2 DEF StatusInv, StatusTruthful
  <2>3. CASE shown' # count
    BY <1>8, <2>3 DEF Iterated, StatusInv, StatusTruthful
  <2> QED
    BY <2>2, <2>3
<1>9. CASE AppendLine
  BY <1>8, <1>9 DEF AppendLine
<1>10. CASE AppendFails
  <2>1. CASE program = "c"
    BY <1>8, <1>10, <2>1 DEF AppendFails
  <2>2. CASE program # "c"
    <3>1. pc' = "done" /\ status' = 2 /\ faults' = faults + 1 /\ program' = program
      BY <1>10, <2>2 DEF AppendFails, End
    <3> QED
      BY <1>0, <3>1 DEF StatusInv, StatusTruthful
  <2> QED
    BY <2>1, <2>2
<1> QED
  BY <1>3, <1>4, <1>5, <1>6, <1>7, <1>9, <1>10, <1>11 DEF Next, Tool, Scanning, Measuring

-----------------------------------------------------------------------------
(* The samples *)

(* With time CPU counters only move further from a sample. *)
LEMMA CpuSinceMoves ==
  ASSUME TypeOK, [Next]_vars, NEW s, IsSample(s), CpuSince(cpu, back, s)
  PROVE  CpuSince(cpu', back', s)
<1>0. /\ cpu \in [Fields -> Nat] /\ back \in Nat /\ s.cpu \in [Fields -> Nat] /\ s.back \in Nat
  BY DEF TypeOK, IsSample
<1>1. CASE UNCHANGED <<cpu, back>>
  BY <1>1
<1>2. ASSUME NEW f \in Fields, CpuRuns(f) PROVE CpuSince(cpu', back', s)
  BY <1>0, <1>2 DEF CpuRuns, CpuSince, Fields
<1>3. CASE WaitGoesBack
  BY <1>0, <1>3 DEF WaitGoesBack, CpuSince, Fields
<1> QED
  BY <1>1, <1>2, <1>3 DEF Next, Tool, Others, vars, kernelVars, ReadCpu, RefuseInterval,
       ScanDisks, ScanFails, SlavesFail, Scan, ReadDevices, ReadStopsShort, Measure, ReadFails,
       Report, OpenLog, OpenFails, AppendLine, AppendFails, Transfers, Goes, Comes, OtherOpens,
       OtherAppends

(* And so do the counters of devices, however they come and go. *)
LEMMA DevicesSinceMoves ==
  ASSUME TypeOK, [Next]_vars, NEW s, IsSample(s), NEW S \in SUBSET Devices,
         DevicesSince(S, dev, moved, life, s)
  PROVE  DevicesSince(S, dev', moved', life', s)
<1> DEFINE Kept(d) == /\ s.moved[d] <= moved[d] /\ s.life[d] <= life[d]
                      /\ Value(dev, d) - Value(s.dev, d) <= moved[d] - s.moved[d]
                      /\ life[d] = s.life[d] =>
                           /\ d \in DOMAIN dev <=> d \in DOMAIN s.dev
                           /\ Value(dev, d) - Value(s.dev, d) = moved[d] - s.moved[d]
<1>0. /\ AreCounters(dev) /\ moved \in [Devices -> Nat] /\ life \in [Devices -> Nat]
      /\ AreCounters(s.dev) /\ s.moved \in [Devices -> Nat] /\ s.life \in [Devices -> Nat]
  BY DEF TypeOK, IsSample
<1>1. CASE UNCHANGED <<dev, moved, life>>
  BY <1>1
<1>2. ASSUME NEW e \in Devices, Transfers(e) \/ Goes(e) \/ Comes(e),
             NEW d \in S
      PROVE  Kept(d)'
  <2>0. /\ d \in Devices /\ Kept(d) /\ Value(dev, d) \in Nat /\ Value(s.dev, d) \in Nat
        /\ moved[d] \in Nat /\ s.moved[d] \in Nat /\ life[d] \in Nat /\ s.life[d] \in Nat
    BY <1>0 DEF DevicesSince, Value, AreCounters
  <2>1. CASE d # e
    <3>1. /\ Value(dev', d) = Value(dev, d) /\ moved'[d] = moved[d] /\ life'[d] = life[d]
          /\ (d \in DOMAIN dev' <=> d \in DOMAIN dev)
      <4>1. CASE Transfers(e)
        BY <1>0, <2>0, <2>1, <4>1 DEF Transfers, Value, AreCounters
      <4>2. CASE Goes(e)
        BY <1>0, <2>0, <2>1, <4>2 DEF Goes, Value, AreCounters, Restrict
      <4>3. CASE Comes(e)
        BY <1>0, <2>0, <2>1, <4>3 DEF Comes, Value, AreCounters
      <4> QED
        BY <1>2, <4>1, <4>2, <4>3
    <3> QED
      BY <2>0, <3>1
  <2>2. CASE d = e
    <3>1. CASE Transfers(e)
      <4>1. /\ Value(dev', d) = Value(dev, d) + 1 /\ moved'[d] = moved[d] + 1 /\ life'[d] = life[d]
            /\ d \in DOMAIN dev' /\ d \in DOMAIN dev
        BY <1>0, <2>0, <2>2, <3>1 DEF Transfers, Value, AreCounters
      <4> QED
        BY <2>0, <4>1
    <3>2. CASE Goes(e) \/ Comes(e)
      <4>1. Value(dev', d) = 0 /\ moved'[d] = moved[d] /\ life'[d] = life[d] + 1
        BY <1>0, <2>0, <2>2, <3>2 DEF Goes, Comes, Value, AreCounters, Restrict
      <4> QED
        BY <2>0, <4>1
    <3> QED
      BY <1>2, <3>1, <3>2
  <2> QED
    BY <2>1, <2>2
<1>3. ASSUME NEW e \in Devices, Transfers(e) \/ Goes(e) \/ Comes(e)
      PROVE  DevicesSince(S, dev', moved', life', s)
  BY <1>2, <1>3 DEF DevicesSince
<1> QED
  BY <1>1, <1>3 DEF Next, Tool, Others, vars, kernelVars, ReadCpu, RefuseInterval, ScanDisks,
       ScanFails, SlavesFail, Scan, ReadDevices, ReadStopsShort, Measure, ReadFails, Report,
       OpenLog, OpenFails, AppendLine, AppendFails, CpuRuns, WaitGoesBack, OtherOpens,
       OtherAppends


(* What a reading of /proc/net/dev and /proc/diskstats makes of a sample. *)
MeasuredOf(S) == [current EXCEPT !.seen = S, !.dev = Restrict(dev, ThereOf(S)),
                                 !.moved = moved, !.life = life]

LEMMA Measured ==
  ASSUME TypeOK, NEW S \in SUBSET Devices
  PROVE  LET t == MeasuredOf(S)
         IN /\ IsSample(t)
            /\ t.cpu = current.cpu /\ t.back = current.back /\ t.seen = S
            /\ t.moved = moved /\ t.life = life /\ DOMAIN t.dev \subseteq S
            /\ \A d \in S : Value(t.dev, d) = Value(dev, d)
                            /\ (d \in DOMAIN t.dev <=> d \in DOMAIN dev)
<1> DEFINE f == Restrict(dev, ThereOf(S))
           t == MeasuredOf(S)
<1>1. IsSample(current) /\ AreCounters(dev) /\ moved \in [Devices -> Nat] /\ life \in [Devices -> Nat]
  BY DEF TypeOK
<1>2. /\ AreCounters(f) /\ DOMAIN f \subseteq S
      /\ \A d \in S : Value(f, d) = Value(dev, d) /\ (d \in DOMAIN f <=> d \in DOMAIN dev)
  BY <1>1, SeenDevices
<1>3. t = [current EXCEPT !.seen = S, !.dev = f, !.moved = moved, !.life = life]
  BY DEF MeasuredOf
<1> HIDE DEF f, t
<1>4. IsSample(t)
  BY <1>1, <1>2, <1>3, SampledDevices
<1>5. /\ t.cpu = current.cpu /\ t.back = current.back /\ t.seen = S /\ t.dev = f
      /\ t.moved = moved /\ t.life = life
  BY <1>1, <1>3 DEF IsSample
<1> QED
  BY <1>2, <1>4, <1>5 DEF t

(* Each sample is taken of what is there, after the one before it.          *)
LEMMA SampleStep == TypeOK /\ SampleInv /\ [Next]_vars => SampleInv'
<1> SUFFICES ASSUME TypeOK, SampleInv, [Next]_vars PROVE SampleInv'
  OBVIOUS
<1>0. /\ IsSample(previous) /\ IsSample(current) /\ program \in {"c", "py"}
      /\ previous.seen \in SUBSET Devices /\ current.seen \in SUBSET Devices
  BY DEF TypeOK, IsSample
<1>1. have => /\ CpuSince(cpu', back', previous)
              /\ DevicesSince(previous.seen, dev', moved', life', previous)
              /\ DOMAIN previous.dev \subseteq previous.seen
  BY <1>0, CpuSinceMoves, DevicesSinceMoves DEF SampleInv
<1>2. pc \in {"scan", "devices", "report", "log"} => CpuSince(cpu', back', current)
  BY <1>0, CpuSinceMoves DEF SampleInv
<1>3. pc \in {"report", "log"} => /\ DevicesSince(current.seen, dev', moved', life', current)
                                  /\ DOMAIN current.dev \subseteq current.seen
  BY <1>0, DevicesSinceMoves DEF SampleInv
<1>4. CASE UNCHANGED <<have, previous, current>> /\ pc' \in {pc, "done"}
  BY <1>0, <1>1, <1>2, <1>3, <1>4 DEF SampleInv, Compared
<1>5. CASE RefuseInterval \/ ReadFails \/ OpenFails \/ Others \/ UNCHANGED vars
  BY <1>4, <1>5 DEF RefuseInterval, ReadFails, OpenFails, End, Others, CpuRuns, WaitGoesBack,
     Transfers, Goes, Comes, OtherOpens, OtherAppends, Outside, toolVars, vars
<1>6. CASE ReadCpu
  <2>1. current'.cpu = cpu /\ current'.back = back
    <3>1. current' = [current EXCEPT !.cpu = cpu, !.back = back]
      BY <1>6 DEF ReadCpu
    <3> QED
      BY <1>0, <3>1 DEF IsSample
  <2>2. /\ pc' \in {"scan", "devices"}
        /\ UNCHANGED <<have, previous, cpu, back, dev, moved, life>>
    BY <1>6 DEF ReadCpu, kernelVars
  <2>3. CpuSince(cpu', back', current')
    BY <2>1, <2>2 DEF CpuSince, TypeOK, Fields
  <2>4. have' => CpuSince(current'.cpu, current'.back, previous')
    BY <2>1, <2>2 DEF SampleInv
  <2> QED
    BY <1>0, <1>1, <2>2, <2>3, <2>4 DEF SampleInv
<1>13. CASE Scanning
  <2>1. PICK disks \in SUBSET Devices : Scan(disks)
    BY <1>13, ScanningIs
  <2>2. /\ pc = "scan" /\ pc' = "devices"
        /\ current' = [current EXCEPT !.seen = Interfaces \cup disks]
        /\ UNCHANGED <<have, previous, cpu, back, dev, moved, life>>
    BY <2>1 DEF Scan, kernelVars
  <2>3. current'.cpu = current.cpu /\ current'.back = current.back
    BY <1>0, <2>2 DEF IsSample
  <2>4. /\ CpuSince(cpu', back', current')
        /\ have' => CpuSince(current'.cpu, current'.back, previous')
    BY <2>2, <2>3 DEF SampleInv, CpuSince
  <2> QED
    BY <1>1, <2>2, <2>4 DEF SampleInv
<1>7. CASE Measuring
  <2>0. PICK S \in SUBSET Devices : Measure(S)
    BY <1>7, MeasuringIs
  <2> DEFINE sample == MeasuredOf(S)
  <2>1. /\ sample.cpu = current.cpu /\ sample.back = current.back /\ sample.seen = S
        /\ sample.moved = moved /\ sample.life = life /\ DOMAIN sample.dev \subseteq S
        /\ \A d \in S : Value(sample.dev, d) = Value(dev, d)
                        /\ (d \in DOMAIN sample.dev <=> d \in DOMAIN dev)
    BY Measured
  <2>2. /\ IF have THEN pc' = "report" /\ current' = sample /\ previous' = previous
                   ELSE pc' = "cpu" /\ previous' = sample
        /\ have' = TRUE /\ pc = "devices" /\ UNCHANGED <<cpu, back, dev, moved, life>>
    BY <2>0 DEF Measure, MeasuredOf, kernelVars
  <2> HIDE DEF sample
  <2>4. CpuSince(cpu, back, sample) /\ (have => CpuSince(sample.cpu, sample.back, previous))
    BY <2>1, <2>2 DEF SampleInv, CpuSince
  <2>5. DevicesSince(S, dev, moved, life, sample)
    <3>1. \A d \in S : Value(dev, d) \in Nat /\ moved[d] \in Nat /\ life[d] \in Nat
      BY DEF TypeOK, AreCounters, Value
    <3> QED
      BY <2>1, <3>1 DEF DevicesSince
  <2>6. have => DevicesSince(previous.seen \cap S, sample.dev, sample.moved, sample.life, previous)
    BY <2>1, <2>2 DEF SampleInv, DevicesSince
  <2>7. CASE have
    BY <1>1, <2>1, <2>2, <2>4, <2>5, <2>6, <2>7 DEF SampleInv, Compared
  <2>8. CASE ~have
    BY <2>1, <2>2, <2>4, <2>5, <2>8 DEF SampleInv
  <2> QED
    BY <2>7, <2>8
<1>8. CASE Report
  <2>1. /\ UNCHANGED <<have, previous, current>> /\ pc = "report" /\ pc' \in {"log", "done"}
    BY <1>8 DEF Report, End
  <2> QED
    BY <1>0, <1>1, <1>2, <1>3, <2>1 DEF SampleInv, Compared
<1>9. CASE OpenLog
  BY <1>0, <1>1, <1>9 DEF OpenLog, SampleInv
<1>10. ASSUME pc = "log", Iterated PROVE SampleInv'
  <2>1. /\ previous' = (IF program = "c" THEN current ELSE NoSample) /\ have' = (program = "c")
        /\ pc' \in {"cpu", "done"}
    BY <1>10 DEF Iterated, End
  <2> QED
    BY <1>0, <1>2, <1>3, <1>10, <2>1 DEF SampleInv
<1>11. CASE AppendLine
  BY <1>10, <1>11 DEF AppendLine
<1>12. CASE AppendFails
  BY <1>4, <1>10, <1>12 DEF AppendFails, End
<1> QED
  BY <1>5, <1>6, <1>7, <1>8, <1>9, <1>11, <1>12, <1>13 DEF Next, Tool, Scanning, Measuring

(* How often a device has come or gone is never forgotten. *)
LEMMA LifeGrows ==
  ASSUME TypeOK, [Next]_vars
  PROVE  \A d \in Devices : life[d] \in Nat /\ life'[d] \in Nat /\ life[d] <= life'[d]
<1>0. life \in [Devices -> Nat]
  BY DEF TypeOK
<1>1. CASE UNCHANGED life
  BY <1>0, <1>1
<1>2. ASSUME NEW e \in Devices, Goes(e) \/ Comes(e)
      PROVE  \A d \in Devices : life[d] \in Nat /\ life'[d] \in Nat /\ life[d] <= life'[d]
  <2>1. life' = [life EXCEPT ![e] = life[e] + 1]
    BY <1>2 DEF Goes, Comes
  <2> QED
    BY <1>0, <2>1
<1> QED
  BY <1>1, <1>2 DEF Next, Tool, Others, vars, kernelVars, ReadCpu, RefuseInterval, ScanDisks,
     ScanFails, SlavesFail, Scan, ReadDevices, ReadStopsShort, Measure, ReadFails, Report, OpenLog,
     OpenFails, AppendLine, AppendFails, CpuRuns, WaitGoesBack, Transfers, OtherOpens, OtherAppends

(* What was found and has stayed is looked for again, and found.            *)
LEMMA SeenStep == TypeOK /\ SampleInv /\ SeenInv /\ [Next]_vars => SeenInv'
<1> SUFFICES ASSUME TypeOK, SampleInv, SeenInv, [Next]_vars, ~missed' PROVE SeenInv'
  BY DEF SeenInv
<1>0. /\ IsSample(previous) /\ IsSample(current) /\ program \in {"c", "py"} /\ program' = program
      /\ ~missed /\ have \in BOOLEAN
      /\ previous.seen \in SUBSET Devices /\ current.seen \in SUBSET Devices
  BY SameProgram DEF TypeOK, IsSample
<1>1. have => \A d \in DOMAIN previous.dev :
                /\ d \in previous.seen
                /\ life'[d] = previous.life[d] => life[d] = previous.life[d]
                /\ life[d] = previous.life[d] => d \in DOMAIN dev
  <2> SUFFICES ASSUME have, NEW d \in DOMAIN previous.dev
               PROVE  /\ d \in previous.seen
                      /\ life'[d] = previous.life[d] => life[d] = previous.life[d]
                      /\ life[d] = previous.life[d] => d \in DOMAIN dev
    OBVIOUS
  <2>1. d \in previous.seen /\ d \in Devices /\ previous.life[d] \in Nat
    BY <1>0 DEF SampleInv, IsSample
  <2>2. /\ previous.life[d] <= life[d]
        /\ life[d] = previous.life[d] => d \in DOMAIN dev
    BY <2>1 DEF SampleInv, DevicesSince
  <2>3. life[d] \in Nat /\ life'[d] \in Nat /\ life[d] <= life'[d]
    BY <2>1, LifeGrows
  <2> QED
    BY <2>1, <2>2, <2>3
<1>4. CASE UNCHANGED <<have, previous, current>> /\ pc' \in {pc, "done"}
  BY <1>0, <1>1, <1>4 DEF SeenInv, Steady
<1>5. CASE RefuseInterval \/ ReadFails \/ OpenFails \/ Others \/ UNCHANGED vars
  BY <1>4, <1>5 DEF RefuseInterval, ReadFails, OpenFails, End, Others, CpuRuns, WaitGoesBack,
     Transfers, Goes, Comes, OtherOpens, OtherAppends, Outside, toolVars, vars
<1>6. CASE ReadCpu
  <2>1. /\ pc' = (IF program = "c" THEN "devices" ELSE "scan") /\ UNCHANGED <<have, previous>>
    BY <1>6 DEF ReadCpu
  <2> QED
    BY <1>0, <2>1 DEF SeenInv
<1>7. CASE Scanning
  <2>1. PICK disks \in SUBSET Devices : Scan(disks) /\ disks = ThereOf(Leaves)
    BY <1>7, ScanningIs
  <2>2. /\ pc' = "devices" /\ current' = [current EXCEPT !.seen = Interfaces \cup disks]
        /\ UNCHANGED <<have, previous, life>>
    BY <2>1 DEF Scan, kernelVars
  <2>3. current'.seen = Interfaces \cup ThereOf(Leaves)
    BY <1>0, <2>1, <2>2 DEF IsSample
  <2>4. /\ have' => /\ program = "c" => previous'.seen = CSees
                    /\ program = "py" => previous'.seen \subseteq Interfaces \cup Leaves
        /\ current'.seen \subseteq Interfaces \cup Leaves
    BY <1>0, <2>2, <2>3 DEF SeenInv, ThereOf
  <2>5. ASSUME program = "py", have', NEW d \in DOMAIN previous'.dev, life'[d] = previous'.life[d]
        PROVE  d \in current'.seen
    <3>1. d \in previous.seen /\ d \in DOMAIN dev
      BY <1>1, <2>2, <2>5
    <3>2. d \in Interfaces \cup Leaves
      BY <2>2, <2>4, <2>5, <3>1
    <3> QED
      BY <2>3, <3>1, <3>2 DEF ThereOf
  <2> QED
    BY <1>0, <2>2, <2>4, <2>5 DEF SeenInv
<1>8. CASE Measuring
  <2>1. PICK S \in SUBSET Devices :
          Measure(S) /\ S = IF program = "c" THEN CSees ELSE current.seen
    BY <1>8, MeasuringIs
  <2> DEFINE sample == MeasuredOf(S)
  <2>2. /\ sample.seen = S /\ sample.life = life
        /\ \A d \in S : d \in DOMAIN sample.dev <=> d \in DOMAIN dev
    BY Measured
  <2>3. /\ IF have THEN pc' = "report" /\ current' = sample /\ previous' = previous
                   ELSE pc' = "cpu" /\ previous' = sample
        /\ have' = TRUE /\ pc = "devices"
    BY <2>1 DEF Measure, MeasuredOf
  <2> HIDE DEF sample
  <2>4. program = "py" => S \subseteq Interfaces \cup Leaves
    BY <1>0, <2>1, <2>3 DEF SeenInv
  <2>5. CASE ~have
    BY <1>0, <2>1, <2>2, <2>3, <2>4, <2>5 DEF SeenInv
  <2>6. CASE have
    <3>1. ASSUME NEW d \in DOMAIN previous.dev, life[d] = previous.life[d]
          PROVE  d \in DOMAIN sample.dev
      <4>1. d \in previous.seen /\ d \in DOMAIN dev
        BY <1>1, <2>6, <3>1
      <4>2. d \in S
        <5>1. CASE program = "c"
          BY <1>0, <2>1, <2>6, <4>1, <5>1 DEF SeenInv
        <5>2. CASE program = "py"
          BY <1>0, <2>1, <2>3, <2>6, <3>1, <5>2 DEF SeenInv
        <5> QED
          BY <1>0, <5>1, <5>2
      <4> QED
        BY <2>2, <4>1, <4>2
    <3>2. \A d \in DOMAIN previous'.dev : Steady(d)' => d \in DOMAIN current'.dev
      BY <2>2, <2>3, <2>6, <3>1 DEF Steady
    <3>3. /\ have' => /\ program' = "c" => previous'.seen = CSees
                      /\ program' = "py" => previous'.seen \subseteq Interfaces \cup Leaves
          /\ program' = "c" => current'.seen = CSees
          /\ pc' = "report"
      BY <1>0, <2>1, <2>2, <2>3, <2>6 DEF SeenInv
    <3> QED
      BY <3>2, <3>3 DEF SeenInv
  <2> QED
    BY <1>0, <2>5, <2>6
<1>9. CASE Report
  <2>1. /\ UNCHANGED <<have, previous, current>> /\ pc = "report" /\ pc' \in {"log", "done"}
    BY <1>9 DEF Report, End
  <2> QED
    BY <1>0, <2>1 DEF SeenInv, Steady
<1>10. CASE OpenLog
  BY <1>0, <1>10 DEF OpenLog, SeenInv
<1>11. ASSUME pc = "log", Iterated PROVE SeenInv'
  <2>1. /\ previous' = (IF program = "c" THEN current ELSE NoSample) /\ have' = (program = "c")
        /\ pc' \in {"cpu", "done"}
    BY <1>11 DEF Iterated, End
  <2> QED
    BY <1>0, <1>11, <2>1 DEF SeenInv
<1>12. CASE AppendLine
  BY <1>11, <1>12 DEF AppendLine
<1>13. CASE AppendFails
  BY <1>4, <1>11, <1>13 DEF AppendFails, End
<1> QED
  BY <1>5, <1>6, <1>7, <1>8, <1>9, <1>10, <1>12, <1>13 DEF Next, Tool, Scanning, Measuring

(* A report is made of the two samples as they still are. *)
LEMMA ReportStep == TypeOK /\ ReportInv /\ [Next]_vars => ReportInv'
<1> SUFFICES ASSUME TypeOK, ReportInv, [Next]_vars PROVE ReportInv'
  OBVIOUS
<1>1. CASE pc' # "log"
  BY <1>1 DEF ReportInv
<1>2. CASE UNCHANGED <<program, pc, previous, current, report>>
  BY <1>2 DEF ReportInv, PyReport, CReport, PyRefuses, PyBusy, Rated, Either
<1>3. CASE Report
  <2>1. UNCHANGED <<program, previous, current>>
    BY <1>3 DEF Report
  <2>2. PyReport' = PyReport /\ CReport' = CReport /\ PyRefuses' = PyRefuses
    BY <2>1 DEF PyReport, CReport, PyRefuses, PyBusy, Rated, Either
  <2> QED
    BY <1>3, <2>1, <2>2 DEF Report, End, ReportInv
<1>4. CASE Others \/ UNCHANGED vars
  BY <1>2, <1>4 DEF Others, CpuRuns, WaitGoesBack, Transfers, Goes, Comes, OtherOpens, OtherAppends,
     Outside, toolVars, vars
<1>5. CASE \/ ReadCpu \/ RefuseInterval \/ Scanning \/ Measuring \/ ReadFails
           \/ OpenLog \/ OpenFails \/ AppendLine \/ AppendFails
  BY <1>1, <1>5 DEF ReadCpu, RefuseInterval, Scanning, ScanDisks, ScanFails, SlavesFail, Scan,
     Measuring, ReadDevices, ReadStopsShort, Measure, ReadFails, OpenLog, OpenFails, AppendLine,
     AppendFails, Iterated, End
<1> QED
  BY <1>3, <1>4, <1>5 DEF Next, Tool, Scanning, Measuring


-----------------------------------------------------------------------------
(* What a report says *)

(* The CPU's share, of two samples one after the other. *)
LEMMA CpuShare ==
  ASSUME IsSample(previous), IsSample(current),
         CpuSince(current.cpu, current.back, previous)
  PROVE  /\ CReport.busy <= CReport.total /\ CReport.busy <= Busy
         /\ ~PyRefuses => PyReport.busy <= PyReport.total /\ PyReport.busy <= Busy
         /\ current.back = previous.back =>
              /\ CReport.busy = Busy /\ CReport.total = Total(current.cpu) - Total(previous.cpu)
              /\ PyReport.busy = Busy /\ PyReport.total = Total(current.cpu) - Total(previous.cpu)
<1> DEFINE b0 == previous.cpu["busy"]    b1 == current.cpu["busy"]
           i0 == previous.cpu["idle"]    i1 == current.cpu["idle"]
           w0 == previous.cpu["iowait"]  w1 == current.cpu["iowait"]
<1>1. /\ b0 \in Nat /\ b1 \in Nat /\ i0 \in Nat /\ i1 \in Nat /\ w0 \in Nat /\ w1 \in Nat
      /\ previous.back \in Nat /\ current.back \in Nat
  BY DEF IsSample, Fields
<1>2. /\ b0 <= b1 /\ i0 <= i1
      /\ current.back = previous.back => w0 <= w1
  BY <1>1 DEF CpuSince
<1>3. /\ Total(current.cpu) = b1 + i1 + w1 /\ Total(previous.cpu) = b0 + i0 + w0
      /\ Idle(current.cpu) = i1 + w1 /\ Idle(previous.cpu) = i0 + w0
      /\ Busy = b1 - b0
  BY DEF Total, Idle, Busy
<1>4. ~PyRefuses => w0 <= w1
  BY <1>1 DEF PyRefuses, Fields
<1>5. /\ CReport.total = SafeDelta(b1 + i1 + w1, b0 + i0 + w0)
      /\ CReport.busy = SafeDelta(b1 + i1 + w1, b0 + i0 + w0)
           - Smaller(SafeDelta(i1 + w1, i0 + w0), SafeDelta(b1 + i1 + w1, b0 + i0 + w0))
  BY <1>3 DEF CReport
<1>6. /\ PyReport.total = (b1 + i1 + w1) - (b0 + i0 + w0)
      /\ PyReport.busy = (b1 + i1 + w1) - (b0 + i0 + w0) - ((i1 + w1) - (i0 + w0))
  BY <1>3 DEF PyReport, PyBusy
<1> HIDE DEF b0, b1, i0, i1, w0, w1
<1>7. /\ CReport.busy <= CReport.total /\ CReport.busy <= Busy
      /\ w0 <= w1 => CReport.busy = Busy /\ CReport.total = (b1 + i1 + w1) - (b0 + i0 + w0)
  BY <1>1, <1>2, <1>3, <1>5 DEF SafeDelta, Smaller
<1>8. /\ w0 <= w1 => PyReport.busy <= PyReport.total
      /\ PyReport.busy = Busy
  BY <1>1, <1>2, <1>3, <1>6
<1> QED
  BY <1>1, <1>2, <1>3, <1>4, <1>6, <1>7, <1>8

(* The transfers, of two samples one after the other, of the devices that   *)
(* both looked for: in either report no more than there were, but for what  *)
(* C's second sample alone looked for; exactly that if both looked for the  *)
(* same and the devices stayed; and in Python's at least what went through  *)
(* those that stayed.                                                       *)
LEMMA Volumes ==
  ASSUME IsSample(previous), IsSample(current),
         DevicesSince(Compared, current.dev, current.moved, current.life, previous),
         DOMAIN current.dev \subseteq current.seen, DOMAIN previous.dev \subseteq previous.seen
  PROVE  /\ Moved(Compared) \in Nat
         /\ CReport.volume <= Moved(Compared) + Sum(current.dev, DOMAIN current.dev \ previous.seen)
         /\ PyReport.volume <= Moved(Compared)
         /\ previous.seen = current.seen /\ (\A d \in Compared : Steady(d)) =>
              /\ CReport.volume = Moved(Compared) /\ PyReport.volume = Moved(Compared)
              /\ Either \subseteq Rated
         /\ PyReport.volume >= Moved({d \in Compared : Steady(d)})
<1> DEFINE S == Compared
           c == current.dev
           p == previous.dev
           new == DOMAIN c \ S
           old == DOMAIN p \ S
           gone == [d \in S |-> current.moved[d] - previous.moved[d]]
           now == [d \in S |-> Value(c, d)]
           then == [d \in S |-> Value(p, d)]
           grown == [d \in S |-> now[d] - then[d]]
           rated == [d \in S |-> IF d \in Rated THEN grown[d] ELSE 0]
           Q == {d \in S : Steady(d)}
           kept == [d \in S |-> IF d \in Q THEN gone[d] ELSE 0]
<1>0. /\ IsFiniteSet(S) /\ S \subseteq Devices
      /\ DOMAIN c \cap DOMAIN p \subseteq S
      /\ IsFiniteSet(DOMAIN c) /\ IsFiniteSet(DOMAIN p)
      /\ new = DOMAIN c \ previous.seen
      /\ previous.seen = current.seen => /\ new = {} /\ old = {} /\ Either \subseteq S
                                        /\ S = current.seen
  <2>1. S \subseteq Devices /\ DOMAIN c \subseteq Devices /\ DOMAIN p \subseteq Devices
    BY DEF Compared, IsSample, AreCounters
  <2>2. IsFiniteSet(S) /\ IsFiniteSet(DOMAIN c) /\ IsFiniteSet(DOMAIN p)
    BY <2>1, MonitorAssumption, FS_Subset
  <2> QED
    BY <2>1, <2>2 DEF Compared, Either
<1>1. ASSUME NEW d \in S
      PROVE  /\ now[d] \in Nat /\ then[d] \in Nat /\ grown[d] \in Int /\ gone[d] \in Nat
             /\ grown[d] <= gone[d]
             /\ Steady(d) => grown[d] = gone[d] /\ (d \in DOMAIN c <=> d \in DOMAIN p)
             /\ d \in DOMAIN c => c[d] = now[d]
             /\ d \in DOMAIN p => p[d] = then[d]
             /\ d \notin DOMAIN c => now[d] = 0
             /\ d \notin DOMAIN p => then[d] = 0
  <2>1. /\ now[d] = Value(c, d) /\ then[d] = Value(p, d) /\ gone[d] = current.moved[d] - previous.moved[d]
        /\ grown[d] = Value(c, d) - Value(p, d)
    OBVIOUS
  <2>2. /\ Value(c, d) \in Nat /\ Value(p, d) \in Nat
        /\ d \in DOMAIN c => c[d] = Value(c, d)
        /\ d \in DOMAIN p => p[d] = Value(p, d)
        /\ d \notin DOMAIN c => Value(c, d) = 0
        /\ d \notin DOMAIN p => Value(p, d) = 0
    BY DEF Value, IsSample, AreCounters
  <2>3. /\ current.moved[d] \in Nat /\ previous.moved[d] \in Nat
        /\ previous.moved[d] <= current.moved[d]
        /\ Value(c, d) - Value(p, d) <= current.moved[d] - previous.moved[d]
        /\ Steady(d) => /\ d \in DOMAIN c <=> d \in DOMAIN p
                        /\ Value(c, d) - Value(p, d) = current.moved[d] - previous.moved[d]
    BY <1>0 DEF DevicesSince, IsSample, Steady
  <2> HIDE DEF now, then, gone, grown
  <2> QED
    BY <2>1, <2>2, <2>3
<1>2. Rated \subseteq S /\ \A d \in Rated : grown[d] = c[d] - p[d] /\ grown[d] >= 0
  <2>1. \A d \in Rated : d \in DOMAIN c /\ d \in DOMAIN p /\ c[d] >= p[d]
    BY DEF Rated
  <2>2. \A d \in S : grown[d] = now[d] - then[d]
    OBVIOUS
  <2> HIDE DEF now, then, gone, grown
  <2> QED
    BY <1>0, <1>1, <2>1, <2>2
<1>3. ASSUME NEW d \in S
      PROVE  /\ rated[d] \in Nat /\ rated[d] <= gone[d]
             /\ Steady(d) => rated[d] = gone[d] /\ (d \in Either => d \in Rated)
             /\ kept[d] \in Nat /\ kept[d] <= rated[d]
             /\ d \in Q => kept[d] = gone[d]
             /\ d \notin Q => kept[d] = 0
  <2>1. /\ rated[d] = IF d \in Rated THEN grown[d] ELSE 0
        /\ kept[d] = IF d \in Q THEN gone[d] ELSE 0
        /\ grown[d] = now[d] - then[d]
        /\ d \in Q <=> Steady(d)
    OBVIOUS
  <2>2. d \in Either <=> d \in DOMAIN c \/ d \in DOMAIN p
    BY DEF Either
  <2>3. d \in Rated <=> d \in DOMAIN c /\ d \in DOMAIN p /\ c[d] >= p[d]
    BY DEF Rated
  <2> HIDE DEF now, then, gone, grown, rated, kept, Q
  <2>4. rated[d] \in Nat /\ rated[d] <= gone[d]
    BY <1>1, <1>2, <2>1
  <2>5. Steady(d) => rated[d] = gone[d] /\ (d \in Either => d \in Rated)
    BY <1>1, <2>1, <2>2, <2>3
  <2> QED
    BY <1>1, <2>1, <2>4, <2>5
<1>4. Moved(S) = Sum(gone, S)
  BY DEF Moved
<1>5. Moved(Q) = Sum(kept, S)
  <2> DEFINE m == [d \in Q |-> current.moved[d] - previous.moved[d]]
  <2>1. Q \subseteq S /\ \A d \in Q : m[d] = gone[d]
    OBVIOUS
  <2>2. Moved(Q) = Sum(m, Q)
    BY DEF Moved
  <2> HIDE DEF m, gone, Q, kept
  <2>3. /\ \A d \in S : kept[d] \in Int
        /\ \A d \in Q : m[d] = kept[d]
        /\ \A d \in S \ Q : kept[d] = 0
    BY <1>3, <2>1
  <2>4. Sum(m, Q) = Sum(kept, S)
    BY <1>0, <2>1, <2>3, SumExtends
  <2> QED
    BY <2>2, <2>4
<1>6. /\ Sum(c, DOMAIN c) = Sum(now, S) + Sum(c, new)
      /\ Sum(p, DOMAIN p) = Sum(then, S) + Sum(p, old)
      /\ Sum(c, new) \in Nat /\ Sum(p, old) \in Nat
  <2> DEFINE C == DOMAIN c \cap S
             P == DOMAIN p \cap S
  <2>0. /\ \A d \in DOMAIN c : c[d] \in Nat
        /\ \A d \in DOMAIN p : p[d] \in Nat
    BY DEF IsSample, AreCounters
  <2> HIDE DEF now, then, gone, grown, c, p
  <2>1. /\ \A d \in S : now[d] \in Int /\ then[d] \in Int
        /\ \A d \in C : c[d] = now[d]
        /\ \A d \in P : p[d] = then[d]
        /\ \A d \in S \ C : now[d] = 0
        /\ \A d \in S \ P : then[d] = 0
    BY <1>1
  <2>2. Sum(c, C) = Sum(now, S)
    BY <1>0, <2>1, SumExtends
  <2>3. Sum(p, P) = Sum(then, S)
    BY <1>0, <2>1, SumExtends
  <2>4. /\ IsFiniteSet(C) /\ IsFiniteSet(new) /\ C \cap new = {} /\ C \cup new = DOMAIN c
        /\ IsFiniteSet(P) /\ IsFiniteSet(old) /\ P \cap old = {} /\ P \cup old = DOMAIN p
    BY <1>0, FS_Subset
  <2>5. Sum(c, new) \in Nat /\ Sum(p, old) \in Nat
    BY <2>0, <2>4, SumNatural
  <2> HIDE DEF C, P, new, old
  <2>6. Sum(c, C \cup new) = Sum(c, C) + Sum(c, new)
    BY <2>0, <2>4, SumDisjoint
  <2>7. Sum(p, P \cup old) = Sum(p, P) + Sum(p, old)
    BY <2>0, <2>4, SumDisjoint
  <2> QED
    BY <2>2, <2>3, <2>4, <2>5, <2>6, <2>7
<1>7. Sum(grown, S) = Sum(now, S) - Sum(then, S)
  <2>1. \A d \in S : grown[d] = now[d] - then[d]
    OBVIOUS
  <2> HIDE DEF now, then, grown, gone
  <2>2. \A d \in S : now[d] \in Int /\ then[d] \in Int /\ grown[d] = now[d] - then[d]
    BY <1>1, <2>1
  <2> QED
    BY <1>0, <2>2, SumDifference
<1>8. Sum([d \in Rated |-> current.dev[d] - previous.dev[d]], Rated) = Sum(rated, S)
  <2> DEFINE r == [d \in Rated |-> c[d] - p[d]]
  <2>1. /\ \A d \in Rated : r[d] = rated[d]
        /\ \A d \in S \ Rated : rated[d] = 0
    <3>1. /\ \A d \in Rated : r[d] = c[d] - p[d]
          /\ \A d \in S : rated[d] = IF d \in Rated THEN grown[d] ELSE 0
      OBVIOUS
    <3> HIDE DEF r, rated, grown, c, p
    <3> QED
      BY <1>2, <3>1
  <2> HIDE DEF r, rated, grown, gone, kept, Q
  <2>2. \A d \in S : rated[d] \in Int
    BY <1>3
  <2>3. Sum(r, Rated) = Sum(rated, S)
    BY <1>0, <1>2, <2>1, <2>2, SumExtends
  <2> QED
    BY <2>3 DEF r
<1>9. /\ CReport.volume = SafeDelta(Sum(now, S) + Sum(c, new), Sum(then, S) + Sum(p, old))
      /\ PyReport.volume = Sum(rated, S)
  BY <1>6, <1>8 DEF CReport, PyReport
<1>16. previous.seen = current.seen => Sum(c, new) = 0 /\ Sum(p, old) = 0
  BY <1>0, SumEmpty
<1> HIDE DEF now, then, gone, grown, rated, kept
<1>10. Sum(now, S) \in Int /\ Sum(then, S) \in Int /\ Sum(gone, S) \in Nat
  <2>1. \A d \in S : now[d] \in Int /\ then[d] \in Int /\ gone[d] \in Nat
    BY <1>1
  <2> QED
    BY <1>0, <2>1, SumInt, SumNatural
<1>11. Sum(grown, S) <= Sum(gone, S)
  <2>1. \A d \in S : grown[d] \in Int /\ gone[d] \in Int /\ grown[d] <= gone[d]
    BY <1>1
  <2> QED
    BY <1>0, <2>1, SumAtMost
<1>12. Sum(rated, S) <= Sum(gone, S) /\ Sum(kept, S) <= Sum(rated, S)
  <2>1. \A d \in S : /\ rated[d] \in Int /\ gone[d] \in Int /\ kept[d] \in Int
                     /\ rated[d] <= gone[d] /\ kept[d] <= rated[d]
    BY <1>1, <1>3
  <2>2. Sum(rated, S) <= Sum(gone, S)
    BY <1>0, <2>1, SumAtMost
  <2>3. Sum(kept, S) <= Sum(rated, S)
    BY <1>0, <2>1, SumAtMost
  <2> QED
    BY <2>2, <2>3
<1>13. (\A d \in S : Steady(d)) =>
         /\ Sum(grown, S) = Sum(gone, S) /\ Sum(rated, S) = Sum(gone, S)
         /\ previous.seen = current.seen => Either \subseteq Rated
  <2> SUFFICES ASSUME \A d \in S : Steady(d)
               PROVE  /\ Sum(grown, S) = Sum(gone, S) /\ Sum(rated, S) = Sum(gone, S)
                      /\ previous.seen = current.seen => Either \subseteq Rated
    OBVIOUS
  <2>1. \A d \in S : /\ grown[d] \in Int /\ grown[d] = gone[d]
                     /\ rated[d] \in Int /\ rated[d] = gone[d]
    BY <1>1, <1>3
  <2>2. Sum(grown, S) = Sum(gone, S)
    BY <1>0, <2>1, SumEqual
  <2>3. Sum(rated, S) = Sum(gone, S)
    BY <1>0, <2>1, SumEqual
  <2>4. previous.seen = current.seen => Either \subseteq Rated
    BY <1>0, <1>3
  <2> QED
    BY <2>2, <2>3, <2>4
<1> HIDE DEF new, old, Q
<1>14. CReport.volume <= Moved(S) + Sum(c, new)
  BY <1>4, <1>6, <1>7, <1>9, <1>10, <1>11 DEF SafeDelta
<1>15. previous.seen = current.seen /\ (\A d \in S : Steady(d)) => CReport.volume = Moved(S)
  BY <1>4, <1>6, <1>7, <1>9, <1>10, <1>13, <1>16 DEF SafeDelta
<1>17. PyReport.volume <= Moved(S) /\ PyReport.volume >= Moved(Q)
  BY <1>4, <1>5, <1>9, <1>12
<1>18. Sum(c, new) = Sum(current.dev, DOMAIN current.dev \ previous.seen)
  BY <1>0
<1>19. previous.seen = current.seen /\ (\A d \in S : Steady(d)) =>
         PyReport.volume = Moved(S) /\ Either \subseteq Rated
  BY <1>4, <1>9, <1>13
<1> QED
  BY <1>4, <1>10, <1>14, <1>15, <1>17, <1>18, <1>19 DEF Q

(* NeverOverstates and ShortfallExplained hold of a report that was made of *)
(* such samples.                                                            *)
LEMMA ReportsHold ==
  TypeOK /\ SampleInv /\ SeenInv /\ ReportInv => NeverOverstates /\ ShortfallExplained
<1> SUFFICES ASSUME TypeOK, SampleInv, SeenInv, ReportInv, pc = "log"
             PROVE  NeverOverstates /\ ShortfallExplained
  BY DEF NeverOverstates, ShortfallExplained
<1>1. /\ IsSample(previous) /\ IsSample(current) /\ program \in {"c", "py"}
      /\ CpuSince(current.cpu, current.back, previous)
      /\ DevicesSince(Compared, current.dev, current.moved, current.life, previous)
      /\ DOMAIN current.dev \subseteq current.seen /\ DOMAIN previous.dev \subseteq previous.seen
  BY DEF TypeOK, SampleInv
<1>2. \/ program = "py" /\ report = PyReport /\ ~PyRefuses
      \/ program = "c" /\ report = CReport
  BY <1>1 DEF ReportInv
<1>3. PyReport.rows = Rated /\ PyReport.warned = Either \ Rated /\ CReport.warned = {}
  BY DEF PyReport, CReport
<1>4. Rated \subseteq Either
  BY DEF Rated, Either
<1>5. NeverOverstates
  <2>1. report.busy <= report.total /\ report.busy <= Busy
    BY <1>1, <1>2, CpuShare
  <2>2. report.volume <= Moved(Compared) + Sum(current.dev, Unknown)
    <3>1. CASE program = "c" /\ report = CReport
      <4>1. Unknown = DOMAIN current.dev \ previous.seen
        BY <3>1 DEF Unknown
      <4> QED
        BY <1>1, <3>1, <4>1, Volumes
    <3>2. CASE program = "py" /\ report = PyReport
      <4>1. Unknown = {} /\ Sum(current.dev, Unknown) = 0
        BY <3>2, SumEmpty DEF Unknown
      <4>2. report.volume <= Moved(Compared) /\ Moved(Compared) \in Nat
        BY <1>1, <3>2, Volumes
      <4>3. Moved(Compared) + Sum(current.dev, Unknown) = Moved(Compared)
        BY <4>1, <4>2
      <4> QED
        BY <4>2, <4>3
    <3> QED
      BY <1>2, <3>1, <3>2
  <2> QED
    BY <2>1, <2>2 DEF NeverOverstates
<1>6. current.back = previous.back =>
        report.busy = Busy /\ report.total = Total(current.cpu) - Total(previous.cpu)
  BY <1>1, <1>2, CpuShare
<1>7. previous.seen = current.seen /\ (\A d \in current.seen : Steady(d)) =>
        report.volume = Moved(Compared) /\ report.warned = {}
  <2>1. Compared \subseteq current.seen
    BY DEF Compared
  <2> QED
    BY <1>1, <1>2, <1>3, <2>1, Volumes
<1>8. program = "py" => /\ \A d \in Either : d \in report.rows <=> d \notin report.warned
                        /\ report.volume >= Moved({d \in Compared : Steady(d)})
  BY <1>1, <1>2, <1>3, <1>4, Volumes
<1>9. ~missed => \A d \in DOMAIN previous.dev : Steady(d) => d \in DOMAIN current.dev
  BY DEF SeenInv
<1> QED
  BY <1>5, <1>6, <1>7, <1>8, <1>9 DEF ShortfallExplained


-----------------------------------------------------------------------------
(* The log *)

(* What it is to have lines added at the end. *)
LEMMA LogGrows ==
  ASSUME log \in Seq(Lines), NEW w \in Seq(Lines), log' = log \o w
  PROVE  /\ log' \in Seq(Lines) /\ DOMAIN log = 1..Len(log) /\ DOMAIN log' = 1..Len(log')
         /\ Len(log) \in Nat /\ Len(log') = Len(log) + Len(w)
         /\ \A i \in DOMAIN log : i \in DOMAIN log' /\ log'[i] = log[i]
         /\ \A j \in 1..Len(w) : log'[Len(log) + j] = w[j]
  OBVIOUS

(* A header and a line are added at once. *)
LEMMA TwoLines ==
  ASSUME NEW s \in Seq(Lines), NEW a \in Lines, NEW b \in Lines
  PROVE  (s \o <<a>>) \o <<b>> = s \o <<a, b>> /\ (s \o << >>) \o <<b>> = s \o <<b>>
<1>1. <<a>> \in Seq(Lines) /\ <<b>> \in Seq(Lines) /\ <<a>> \o <<b>> = <<a, b>>
  <2> DEFINE u == <<a>> \o <<b>>
             v == <<a, b>>
  <2>1. <<a>> \in Seq(Lines) /\ <<b>> \in Seq(Lines)
    OBVIOUS
  <2>2. u \in Seq(Lines) /\ Len(u) = 2
    BY <2>1, ConcatProperties
  <2>3. u[1] = a /\ u[2] = b
    BY <2>1
  <2>4. v \in Seq(Lines) /\ Len(v) = 2 /\ v[1] = a /\ v[2] = b
    OBVIOUS
  <2> HIDE DEF u, v
  <2>5. \A i \in 1..Len(u) : u[i] = v[i]
    BY <2>2, <2>3, <2>4
  <2>6. u = v
    BY <2>2, <2>4, <2>5, SeqEqual
  <2> QED
    BY <2>1, <2>6 DEF u, v
<1>2. (s \o <<a>>) \o <<b>> = s \o (<<a>> \o <<b>>)
  BY <1>1, ConcatAssociative
<1>3. s \o << >> = s
  BY ConcatEmptySeq
<1> QED
  BY <1>1, <1>2, <1>3

LEMMA MyLinesFinite == log \in Seq(Lines) => IsFiniteSet(MyLines) /\ Cardinality(MyLines) \in Nat
<1> SUFFICES ASSUME log \in Seq(Lines)
             PROVE  IsFiniteSet(MyLines) /\ Cardinality(MyLines) \in Nat
  OBVIOUS
<1>1. MyLines \subseteq 1..Len(log) /\ Len(log) \in Nat
  BY DEF MyLines
<1>2. IsFiniteSet(1..Len(log))
  BY <1>1, FS_Interval
<1> QED
  BY <1>1, <1>2, FS_Subset, FS_CardinalityType

(* The order of the lines, and whose the headers are, apart from the number *)
(* of lines.                                                                *)
Ordered ==
  /\ \A i \in MyLines : log[i][2] <= shown
  /\ \A i, j \in MyLines : i < j => log[i][2] < log[j][2]
  /\ Cardinality(MyLines) + lost = shown

Headed ==
  program = "c" /\ lost = 0 =>
    /\ log # << >> => 1 \in Headers
    /\ \A i \in Headers \ {1} : log[i][1] # log[1][1]

Opened ==
  /\ header => \A i \in DOMAIN log : log[i][1] # "mine"
  /\ pc \in {"open", "done"} \/ program = "py" => ~header
  /\ pc = "open" => lost = 0 /\ \A i \in DOMAIN log : log[i][1] # "mine"
  /\ program = "c" /\ lost = 0 /\ pc \notin {"open", "done"} /\ log = << >> => header
  /\ other = "header" => \A i \in DOMAIN log : log[i][1] # "their"
  /\ other = "plain" => log # << >>

LEMMA LogInvParts == LogInv <=> Ordered /\ Headed /\ Opened
BY DEF LogInv, LogFaithful, Ordered, Headed, Opened

(* Lines that are not numbered, or not the monitor's, are none of its own.  *)
LEMMA OthersLines ==
  ASSUME log \in Seq(Lines), Ordered, NEW w \in Seq(Lines), log' = log \o w,
         \A j \in 1..Len(w) : w[j][1] = "their" \/ w[j][2] = 0,
         UNCHANGED <<shown, lost>>
  PROVE  Ordered'
<1>1. MyLines' = MyLines
  <2>1. ASSUME NEW i \in DOMAIN log', i \notin DOMAIN log
        PROVE  log'[i][1] = "their" \/ log'[i][2] = 0
    <3>1. i - Len(log) \in 1..Len(w) /\ i = Len(log) + (i - Len(log))
      BY <2>1, LogGrows
    <3> QED
      BY <3>1, LogGrows
  <2>2. \A i \in DOMAIN log : i \in DOMAIN log' /\ log'[i] = log[i]
    BY LogGrows
  <2>3. ASSUME NEW i \in MyLines' PROVE i \in MyLines
    <3>1. i \in DOMAIN log' /\ log'[i][1] = "mine" /\ log'[i][2] > 0
      BY <2>3 DEF MyLines
    <3>2. i \in DOMAIN log
      BY <2>1, <3>1
    <3> QED
      BY <2>2, <3>1, <3>2 DEF MyLines
  <2>4. ASSUME NEW i \in MyLines PROVE i \in MyLines'
    BY <2>2, <2>4 DEF MyLines
  <2> QED
    BY <2>3, <2>4
<1>2. \A i \in MyLines : log'[i] = log[i]
  BY LogGrows DEF MyLines
<1> QED
  BY <1>1, <1>2 DEF Ordered

(* A line of the monitor's own, the next one, at the end.                   *)
LEMMA OwnLine ==
  ASSUME log \in Seq(Lines), Ordered, NEW w \in Seq(Lines), log' = log \o w,
         w # << >>, shown \in Nat, lost \in Nat,
         w[Len(w)] = Mine(shown + 1),
         \A j \in 1..Len(w) : j # Len(w) => w[j][2] = 0,
         shown' = shown + 1, lost' = lost
  PROVE  Ordered'
<1> DEFINE last == Len(log) + Len(w)
<1>0. /\ Len(w) \in Nat /\ Len(w) > 0 /\ Len(log) \in Nat /\ DOMAIN log = 1..Len(log)
      /\ DOMAIN log' = 1..last /\ last > Len(log) /\ last \in Nat
  BY LogGrows
<1>1. log'[last] = Mine(shown + 1)
  BY <1>0, LogGrows
<1>2. log'[last][1] = "mine" /\ log'[last][2] = shown + 1
  BY <1>1, LinesOfLog
<1>3. MyLines' = MyLines \cup {last} /\ last \notin MyLines
  <2>1. ASSUME NEW i \in DOMAIN log', i \notin DOMAIN log, i # last
        PROVE  log'[i][2] = 0
    <3>1. i - Len(log) \in 1..Len(w) /\ i = Len(log) + (i - Len(log)) /\ i - Len(log) # Len(w)
      BY <1>0, <2>1
    <3> QED
      BY <3>1, LogGrows
  <2>2. \A i \in DOMAIN log : i \in DOMAIN log' /\ log'[i] = log[i]
    BY LogGrows
  <2>3. last \in DOMAIN log' /\ last \notin DOMAIN log /\ log'[last][2] > 0
    BY <1>0, <1>2
  <2> HIDE DEF last
  <2> QED
    BY <1>2, <2>1, <2>2, <2>3 DEF MyLines
<1>4. \A i \in MyLines : log'[i] = log[i] /\ i < last /\ i \in Nat /\ log[i][2] \in Nat
  <2>1. \A i \in MyLines : i \in 1..Len(log) /\ log[i] \in Lines
    BY <1>0 DEF MyLines
  <2>2. \A i \in MyLines : log'[i] = log[i]
    BY LogGrows DEF MyLines
  <2> QED
    BY <1>0, <2>1, <2>2 DEF Lines
<1>5. Cardinality(MyLines') = Cardinality(MyLines) + 1
  BY <1>3, MyLinesFinite, FS_AddElement
<1>6. Cardinality(MyLines) \in Nat
  BY MyLinesFinite
<1> HIDE DEF last
<1>7. \A i \in MyLines' : log'[i][2] <= shown'
  <2>1. ASSUME NEW i \in MyLines PROVE log'[i][2] <= shown'
    <3>1. log[i][2] <= shown /\ log'[i][2] = log[i][2] /\ log[i][2] \in Nat
      BY <1>4 DEF Ordered
    <3> QED
      BY <3>1
  <2>2. log'[last][2] <= shown'
    BY <1>2
  <2> QED
    BY <1>3, <2>1, <2>2
<1>8. \A i, j \in MyLines' : i < j => log'[i][2] < log'[j][2]
  <2>1. ASSUME NEW i \in MyLines, NEW j \in MyLines, i < j PROVE log'[i][2] < log'[j][2]
    BY <1>4, <2>1 DEF Ordered
  <2>2. ASSUME NEW i \in MyLines PROVE log'[i][2] < log'[last][2] /\ ~(last < i)
    <3>1. log[i][2] <= shown /\ log'[i][2] = log[i][2] /\ log[i][2] \in Nat
      BY <1>4 DEF Ordered
    <3>2. i < last /\ i \in Nat
      BY <1>4
    <3> QED
      BY <1>0, <1>2, <3>1, <3>2
  <2>3. ~(last < last)
    BY <1>0
  <2> QED
    BY <1>3, <2>1, <2>2, <2>3
<1>9. Cardinality(MyLines') + lost' = shown'
  <2>1. Cardinality(MyLines) + lost = shown
    BY DEF Ordered
  <2> DEFINE m == Cardinality(MyLines)
             n == Cardinality(MyLines')
  <2>2. n = m + 1 /\ m \in Nat /\ m + lost = shown
    BY <1>5, <1>6, <2>1
  <2> HIDE DEF m, n
  <2>3. n + lost' = shown'
    BY <2>2
  <2> QED
    BY <2>3 DEF n
<1> QED
  BY <1>7, <1>8, <1>9 DEF Ordered

(* Added headers belong to a writer that has no line in the log yet.        *)
LEMMA HeadedStill ==
  ASSUME log \in Seq(Lines), Headed, NEW w \in Seq(Lines), log' = log \o w, NEW who,
         UNCHANGED <<program, lost>>,
         program = "c" /\ lost = 0 /\ log = << >> => w = << >> \/ w[1][2] = 0,
         \A j \in 1..Len(w) : w[j][2] = 0 => w[j][1] = who /\ j = 1,
         (\E j \in 1..Len(w) : w[j][2] = 0) => \A i \in DOMAIN log : log[i][1] # who
  PROVE  Headed'
<1> SUFFICES ASSUME program = "c", lost = 0
             PROVE  /\ log' # << >> => 1 \in Headers'
                    /\ \A i \in Headers' \ {1} : log'[i][1] # log'[1][1]
  BY DEF Headed
<1>0. /\ log' \in Seq(Lines) /\ DOMAIN log = 1..Len(log) /\ DOMAIN log' = 1..Len(log')
      /\ Len(log) \in Nat /\ Len(w) \in Nat /\ Len(log') = Len(log) + Len(w)
      /\ \A i \in DOMAIN log : i \in DOMAIN log' /\ log'[i] = log[i]
      /\ \A j \in 1..Len(w) : log'[Len(log) + j] = w[j]
  BY LogGrows
<1>1. CASE log = << >>
  <2>1. Len(log) = 0 /\ Len(log') = Len(w) /\ \A j \in 1..Len(w) : log'[j] = w[j]
    BY <1>0, <1>1
  <2>2. \A i \in Headers' : i = 1
    BY <1>0, <2>1 DEF Headers
  <2>3. log' # << >> => Len(w) > 0 /\ w[1][2] = 0
    BY <1>0, <1>1, <2>1
  <2>4. log' # << >> => 1 \in Headers'
    BY <1>0, <2>1, <2>3 DEF Headers
  <2> QED
    BY <2>2, <2>4
<1>2. CASE log # << >>
  <2>1. 1 \in Headers /\ 1 \in DOMAIN log /\ \A i \in Headers \ {1} : log[i][1] # log[1][1]
    BY <1>0, <1>2 DEF Headed, Headers
  <2>2. 1 \in Headers' /\ log'[1] = log[1]
    BY <1>0, <2>1 DEF Headers
  <2>3. ASSUME NEW i \in Headers', i # 1 PROVE log'[i][1] # log[1][1]
    <3>1. CASE i \in DOMAIN log
      <4>1. i \in Headers /\ log'[i] = log[i]
        BY <1>0, <2>3, <3>1 DEF Headers
      <4> QED
        BY <2>1, <2>3, <4>1
    <3>2. CASE i \notin DOMAIN log
      <4>1. i \in 1..Len(log') /\ log'[i][2] = 0
        BY <1>0, <2>3 DEF Headers
      <4>2. i - Len(log) \in 1..Len(w) /\ i = Len(log) + (i - Len(log))
        BY <1>0, <3>2, <4>1
      <4>3. log'[i] = w[i - Len(log)]
        BY <1>0, <4>2
      <4>4. log'[i][1] = who /\ log[1][1] # who
        BY <2>1, <4>1, <4>2, <4>3
      <4> QED
        BY <4>4
    <3> QED
      BY <3>1, <3>2
  <2> QED
    BY <2>2, <2>3
<1> QED
  BY <1>1, <1>2


(* Every step of any writer keeps the log in order, under its header.       *)
LEMMA LogStep == TypeOK /\ LogInv /\ [Next]_vars => LogInv'
<1> SUFFICES ASSUME TypeOK, LogInv, [Next]_vars PROVE LogInv'
  OBVIOUS
<1>0. /\ log \in Seq(Lines) /\ shown \in Nat /\ lost \in Nat /\ program \in {"c", "py"}
      /\ other \in {"none", "header", "plain"}
      /\ Ordered /\ Headed /\ Opened
  BY LogInvParts DEF TypeOK, Lines
<1>1. SUFFICES Ordered' /\ Headed' /\ Opened'
  BY LogInvParts DEF LogInv, LogFaithful, Ordered, Headed, Opened
<1>2. ASSUME UNCHANGED <<log, shown, lost, program>>
      PROVE  Ordered' /\ Headed'
  BY <1>0, <1>2 DEF Ordered, Headed, MyLines, Headers
<1>3. CASE /\ UNCHANGED <<log, shown, lost, program, header, other>>
           /\ \/ pc' = pc
              \/ pc' \notin {"open", "done"} /\ pc \notin {"open", "done"}
  BY <1>0, <1>2, <1>3 DEF Opened
<1>4. CASE UNCHANGED vars \/ ReadCpu \/ Scanning \/ Measuring
             \/ (\E f \in Fields : CpuRuns(f)) \/ WaitGoesBack
             \/ (\E d \in Devices : Transfers(d) \/ Goes(d) \/ Comes(d))
  <2>1. CASE ReadCpu
    BY <1>3, <2>1 DEF logVars, ReadCpu
  <2>2. CASE Scanning \/ Measuring
    <3>1. pc \in {"scan", "devices"} /\ pc' \in {"devices", "report", "cpu"}
          /\ UNCHANGED <<log, shown, lost, program, header, other>>
      BY <2>2 DEF logVars, Scanning, ScanDisks, ScanFails, SlavesFail, Scan, Measuring, ReadDevices,
           ReadStopsShort, Measure
    <3> QED
      BY <1>3, <3>1
  <2>3. CASE UNCHANGED <<toolVars, logVars>>
    <3>1. UNCHANGED <<log, shown, lost, program, header, other, pc>>
      BY <2>3 DEF toolVars, logVars
    <3> QED
      BY <1>3, <3>1
  <2> QED
    BY <1>4, <2>1, <2>2, <2>3 DEF vars, CpuRuns, WaitGoesBack, Transfers, Goes, Comes, Outside
<1>5. CASE Report
  <2>0. UNCHANGED <<log, shown, lost, program, header, other>> /\ pc = "report"
    BY <1>5 DEF Report, logVars
  <2>1. pc' = "log" \/ (pc' = "done" /\ program = "py")
    <3>1. CASE program = "py" /\ PyRefuses
      BY <1>5, <3>1 DEF Report, End
    <3>2. CASE ~(program = "py" /\ PyRefuses)
      BY <1>5, <3>2 DEF Report
    <3> QED
      BY <3>1, <3>2
  <2> QED
    BY <1>0, <1>2, <2>0, <2>1 DEF Opened
<1>6. CASE OpenLog
  <2>1. /\ UNCHANGED <<log, shown, lost, program, other>> /\ pc = "open" /\ pc' = "cpu"
        /\ header' = (program = "c" /\ log = << >>)
    BY <1>6 DEF OpenLog, logVars
  <2>2. log = << >> => DOMAIN log = {}
    OBVIOUS
  <2> QED
    BY <1>0, <1>2, <2>1, <2>2 DEF Opened
<1>7. CASE OpenFails
  <2>1. UNCHANGED <<log, shown, lost, program, header, other>> /\ pc = "open" /\ pc' = "done"
    BY <1>7 DEF OpenFails, End, logVars
  <2> QED
    BY <1>0, <1>2, <2>1 DEF Opened
<1>14. CASE RefuseInterval
  <2>1. UNCHANGED <<log, shown, lost, program, header, other>> /\ pc' = "done" /\ program = "py"
    BY <1>14 DEF RefuseInterval, End, logVars
  <2> QED
    BY <1>0, <1>2, <2>1 DEF Opened
<1>8. CASE OtherOpens
  <2>1. /\ UNCHANGED <<log, shown, lost, program, header, pc>>
        /\ other' = IF log = << >> THEN "header" ELSE "plain"
    BY <1>8 DEF OtherOpens, Outside, toolVars
  <2>2. log = << >> => DOMAIN log = {}
    OBVIOUS
  <2> QED
    BY <1>0, <1>2, <2>1, <2>2 DEF Opened
<1>9. CASE AppendFails
  <2>1. /\ pc = "log" /\ lost' = lost + 1 /\ shown' = shown + 1 /\ header' = FALSE
        /\ UNCHANGED <<log, program, other>> /\ pc' \in {"cpu", "done"}
    BY <1>9 DEF AppendFails, Iterated, End
  <2>2. Ordered'
    <3>1. MyLines' = MyLines /\ Cardinality(MyLines) \in Nat
      BY <1>0, <2>1, MyLinesFinite DEF MyLines
    <3>2. \A i \in MyLines : log[i][2] \in Nat
      BY <1>0 DEF MyLines, Lines
    <3> QED
      BY <1>0, <2>1, <3>1, <3>2 DEF Ordered
  <2> QED
    BY <1>0, <2>1, <2>2 DEF Headed, Opened
<1>10. ASSUME NEW w \in Seq(Lines), log' = log \o w, Len(w) > 0,
              \A j \in 1..Len(w) : w[j][1] = "mine",
              UNCHANGED <<program, other, lost>>, header' = FALSE, pc' \in {"cpu", "done"}
       PROVE  Opened'
  <2>1. log' # << >>
    BY <1>0, <1>10, LogGrows
  <2>2. other = "header" => \A i \in DOMAIN log' : log'[i][1] # "their"
    <3>1. ASSUME NEW i \in DOMAIN log', i \notin DOMAIN log PROVE log'[i][1] = "mine"
      <4>1. i - Len(log) \in 1..Len(w) /\ i = Len(log) + (i - Len(log))
        BY <1>0, <1>10, <3>1, LogGrows
      <4> QED
        BY <1>0, <1>10, <4>1, LogGrows
    <3>2. \A i \in DOMAIN log : log'[i] = log[i]
      BY <1>0, <1>10, LogGrows
    <3> QED
      BY <1>0, <3>1, <3>2 DEF Opened
  <2> QED
    BY <1>10, <2>1, <2>2 DEF Opened
<1>11. CASE ReadFails
  <2>1. /\ UNCHANGED <<program, shown, lost, other>> /\ pc' = "done" /\ header' = FALSE
        /\ pc \in {"cpu", "devices"}
        /\ log' = IF header THEN Append(log, Mine(0)) ELSE log
    BY <1>11 DEF ReadFails, End
  <2>2. CASE ~header
    BY <1>0, <1>2, <2>1, <2>2 DEF Opened
  <2>3. CASE header
    <3> DEFINE w == <<Mine(0)>>
    <3>1. /\ w \in Seq(Lines) /\ log' = log \o w /\ Len(w) > 0 /\ w[1][2] = 0 /\ w[1][1] = "mine"
          /\ \A j \in 1..Len(w) : j = 1
      BY <1>0, <2>1, <2>3, LinesOfLog
    <3>2. \A i \in DOMAIN log : log[i][1] # "mine"
      BY <1>0, <2>3 DEF Opened
    <3> HIDE DEF w
    <3>3. /\ \A j \in 1..Len(w) : w[j][2] = 0 => w[j][1] = "mine" /\ j = 1
          /\ \A j \in 1..Len(w) : w[j][1] = "mine"
          /\ \A j \in 1..Len(w) : w[j][1] = "their" \/ w[j][2] = 0
      BY <3>1
    <3>4. Ordered'
      BY <1>0, <2>1, <3>1, <3>3, OthersLines
    <3>5. Headed'
      BY <1>0, <2>1, <3>1, <3>2, <3>3, HeadedStill
    <3>6. Opened'
      BY <1>10, <2>1, <3>1, <3>3
    <3> QED
      BY <3>4, <3>5, <3>6
  <2> QED
    BY <2>2, <2>3
<1>12. CASE AppendLine
  <2> DEFINE w == IF header THEN <<Mine(0), Mine(shown + 1)>> ELSE <<Mine(shown + 1)>>
  <2>1. /\ UNCHANGED <<program, lost, other>> /\ pc = "log" /\ pc' \in {"cpu", "done"}
        /\ header' = FALSE /\ shown' = shown + 1
        /\ log' = log \o (IF header THEN <<Mine(0)>> ELSE << >>) \o <<Mine(shown + 1)>>
    BY <1>12 DEF AppendLine, Iterated, End
  <2>3. Mine(0) \in Lines /\ Mine(shown + 1) \in Lines
    BY <1>0, LinesOfLog
  <2>4. log' = log \o w
    BY <1>0, <2>1, <2>3, TwoLines
  <2>5. /\ w \in Seq(Lines) /\ w # << >> /\ Len(w) \in Nat /\ Len(w) > 0 /\ w[Len(w)] = Mine(shown + 1)
        /\ \A j \in 1..Len(w) : j # Len(w) => w[j] = Mine(0) /\ j = 1 /\ header
        /\ header => w[1] = Mine(0)
    BY <2>3
  <2> HIDE DEF w
  <2>6. /\ Mine(0)[1] = "mine" /\ Mine(0)[2] = 0
        /\ Mine(shown + 1)[1] = "mine" /\ Mine(shown + 1)[2] = shown + 1 /\ shown + 1 # 0
    BY <1>0, LinesOfLog
  <2>7. /\ \A j \in 1..Len(w) : w[j][1] = "mine"
        /\ \A j \in 1..Len(w) : j # Len(w) => w[j][2] = 0
        /\ \A j \in 1..Len(w) : w[j][2] = 0 => w[j][1] = "mine" /\ j = 1 /\ header
        /\ header => w[1][2] = 0
    <3>1. ASSUME NEW j \in 1..Len(w)
          PROVE  /\ w[j][1] = "mine"
                 /\ j # Len(w) => w[j][2] = 0
                 /\ w[j][2] = 0 => j = 1 /\ header
      <4>1. CASE j = Len(w)
        BY <2>5, <2>6, <4>1
      <4>2. CASE j # Len(w)
        BY <2>5, <2>6, <4>2
      <4> QED
        BY <4>1, <4>2
    <3> QED
      BY <2>5, <2>6, <3>1
  <2>8. header => \A i \in DOMAIN log : log[i][1] # "mine"
    BY <1>0 DEF Opened
  <2>9. program = "c" /\ lost = 0 /\ log = << >> => header
    BY <1>0, <2>1 DEF Opened
  <2>10. Ordered'
    BY <1>0, <2>1, <2>4, <2>5, <2>7, OwnLine
  <2>11. Headed'
    BY <1>0, <2>1, <2>4, <2>5, <2>7, <2>8, <2>9, HeadedStill
  <2>12. Opened'
    BY <1>10, <2>1, <2>4, <2>5, <2>7
  <2> QED
    BY <2>10, <2>11, <2>12
<1>13. CASE OtherAppends
  <2> DEFINE w == IF other = "header" THEN <<Their(0), Their(1)>> ELSE <<Their(1)>>
  <2>1. /\ UNCHANGED <<program, lost, shown, pc, header>> /\ other # "none" /\ other' = "plain"
        /\ log' = log \o (IF other = "header" THEN <<Their(0)>> ELSE << >>) \o <<Their(1)>>
    BY <1>13 DEF OtherAppends, Outside, toolVars
  <2>3. Their(0) \in Lines /\ Their(1) \in Lines
    BY LinesOfLog
  <2>4. log' = log \o w
    BY <1>0, <2>1, <2>3, TwoLines
  <2>5. /\ w \in Seq(Lines) /\ Len(w) \in Nat /\ Len(w) > 0
        /\ \A j \in 1..Len(w) : w[j] = Their(1) \/ (w[j] = Their(0) /\ j = 1 /\ other = "header")
        /\ other = "header" => w[1] = Their(0)
    <3>1. CASE other = "header"
      <4>1. w = <<Their(0), Their(1)>>
        BY <3>1
      <4>2. w \in Seq(Lines) /\ Len(w) = 2 /\ w[1] = Their(0) /\ w[2] = Their(1)
        BY <2>3, <4>1
      <4> QED
        BY <3>1, <4>2
    <3>2. CASE other # "header"
      <4>1. w = <<Their(1)>>
        BY <3>2
      <4>2. w \in Seq(Lines) /\ Len(w) = 1 /\ w[1] = Their(1)
        BY <2>3, <4>1
      <4> QED
        BY <3>2, <4>2
    <3> QED
      BY <3>1, <3>2
  <2> HIDE DEF w
  <2>6. Their(0)[1] = "their" /\ Their(0)[2] = 0 /\ Their(1)[1] = "their" /\ Their(1)[2] = 1
    BY LinesOfLog
  <2>7. /\ \A j \in 1..Len(w) : w[j][1] = "their"
        /\ \A j \in 1..Len(w) : w[j][2] = 0 => w[j][1] = "their" /\ j = 1 /\ other = "header"
        /\ other = "header" => w[1][2] = 0
    BY <2>5, <2>6
  <2>8. other = "header" => \A i \in DOMAIN log : log[i][1] # "their"
    BY <1>0 DEF Opened
  <2>9. log = << >> => other = "header"
    BY <1>0, <2>1 DEF Opened
  <2>10. Ordered'
    BY <1>0, <2>1, <2>4, <2>5, <2>7, OthersLines
  <2>11. Headed'
    BY <1>0, <2>1, <2>4, <2>5, <2>7, <2>8, <2>9, HeadedStill
  <2>12. Opened'
    <3>1. log' # << >>
      BY <1>0, <2>4, <2>5, LogGrows
    <3>2. \A i \in DOMAIN log : log'[i] = log[i]
      BY <1>0, <2>4, <2>5, LogGrows
    <3>3. ASSUME NEW i \in DOMAIN log', i \notin DOMAIN log PROVE log'[i][1] = "their"
      <4>1. i - Len(log) \in 1..Len(w) /\ i = Len(log) + (i - Len(log))
        BY <1>0, <2>4, <2>5, <3>3, LogGrows
      <4> QED
        BY <1>0, <2>4, <2>5, <2>7, <4>1, LogGrows
    <3>4. (\A i \in DOMAIN log : log[i][1] # "mine") => \A i \in DOMAIN log' : log'[i][1] # "mine"
      BY <3>2, <3>3
    <3> QED
      BY <1>0, <2>1, <3>1, <3>4 DEF Opened
  <2> QED
    BY <2>10, <2>11, <2>12
<1> QED
  BY <1>4, <1>5, <1>6, <1>7, <1>8, <1>9, <1>11, <1>12, <1>13, <1>14
     DEF Next, Tool, Others, Scanning, Measuring

-----------------------------------------------------------------------------
(* The theorems *)

(* Before anything is opened or read. *)
LEMMA MonitorInitInv == Init => MonitorInv
<1> SUFFICES ASSUME Init PROVE MonitorInv
  OBVIOUS
<1>1. TypeOK
  <2>1. IsSample(previous) /\ IsSample(current)
    BY NoSampleIsOne DEF Init
  <2>2. log \in Seq({"mine", "their"} \X Nat)
    <3>1. << >> \in Seq(Lines) /\ <<Their(0), Their(1)>> \in Seq(Lines)
      BY LinesOfLog
    <3> QED
      BY <3>1 DEF Init, Lines
  <2>3. /\ cpu \in [Fields -> Nat] /\ AreCounters(dev) /\ moved \in [Devices -> Nat]
        /\ life \in [Devices -> Nat] /\ back \in Nat
    BY MonitorAssumption DEF Init, AreCounters
  <2> QED
    <3>1. report \in [busy: Int, total: Int, volume: Int, rows: SUBSET Devices, warned: SUBSET Devices]
      BY DEF Init, NoReport
    <3>2. /\ program \in {"c", "py"} /\ count \in Counts /\ pc = "open" /\ have = FALSE
          /\ long \in BOOLEAN /\ missed = FALSE /\ header = FALSE /\ shown = 0 /\ status = Running /\ other = "none"
          /\ faults = 0 /\ lost = 0 /\ events \in Nat
      BY MonitorAssumption DEF Init
    <3> QED
      BY <2>1, <2>2, <2>3, <3>1, <3>2 DEF TypeOK
<1>2. SampleInv /\ SeenInv /\ ReportInv /\ StatusInv
  BY DEF Init, SampleInv, SeenInv, ReportInv, StatusInv, StatusTruthful
<1>3. LogInv
  <2>1. /\ \A i \in DOMAIN log : log[i][1] # "mine"
        /\ log # << >> => log[1][2] = 0 /\ 1 \in DOMAIN log
        /\ \A i \in DOMAIN log : log[i][2] = 0 => i = 1
    <3>1. Their(0)[1] = "their" /\ Their(0)[2] = 0 /\ Their(1)[1] = "their" /\ Their(1)[2] = 1
      BY LinesOfLog
    <3> QED
      BY <3>1 DEF Init
  <2>2. MyLines = {}
    BY <2>1 DEF MyLines
  <2>3. Cardinality(MyLines) = 0
    BY <2>2, FS_EmptySet
  <2> QED
    BY <2>1, <2>2, <2>3 DEF Init, LogInv, LogFaithful, Headers
<1> QED
  BY <1>1, <1>2, <1>3 DEF MonitorInv

(* MonitorInv is an invariant of the monitors. *)
THEOREM MonitorInvariance == Spec => []MonitorInv
<1>1. MonitorInv /\ [Next]_vars => MonitorInv'
  BY MonitorTypeStep, SampleStep, SeenStep, ReportStep, StatusStep, LogStep DEF MonitorInv
<1> QED
  BY <1>1, MonitorInitInv, PTL DEF Spec

(* No report of either monitor says more than was there, for any devices,   *)
(* which come, go and are reset as they like, but for what a first sample   *)
(* of C's missed when its read stopped short.                               *)
THEOREM MonitorsNeverOverstate == Spec => []NeverOverstates
<1>1. MonitorInv => NeverOverstates
  BY ReportsHold DEF MonitorInv
<1> QED
  BY <1>1, MonitorInvariance, PTL

(* With steady counters a report is exact about what was looked for, what   *)
(* was found and stays is found again unless a read failed without a word,  *)
(* and in Python a device that goes takes nothing from the others.          *)
THEOREM ShortfallsAlwaysExplained == Spec => []ShortfallExplained
<1>1. MonitorInv => ShortfallExplained
  BY ReportsHold DEF MonitorInv
<1> QED
  BY <1>1, MonitorInvariance, PTL

(* An exit status of 0 means that what was asked for has been shown, and    *)
(* another one has its cause.                                               *)
THEOREM MonitorStatusTruthful == Spec => []StatusTruthful
<1>1. MonitorInv => StatusTruthful
  BY DEF MonitorInv, StatusInv
<1> QED
  BY <1>1, MonitorInvariance, PTL

(* The log holds the reports in order, under a header for each monitor that *)
(* found it empty.                                                          *)
THEOREM LogAlwaysFaithful == Spec => []LogFaithful
<1>1. MonitorInv => LogFaithful
  BY DEF MonitorInv, LogInv
<1> QED
  BY <1>1, MonitorInvariance, PTL
=============================================================================
