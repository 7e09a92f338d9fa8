------------------------------- MODULE Monitor -------------------------------
(***************************************************************************)
(* The system monitors: c/syswatch.c, and syswatch.py over                 *)
(* pydev_ai/metrics.py.  A monitor reads the kernel's counters, sleeps,    *)
(* reads them again and shows what has grown in between, while devices     *)
(* come and go and the I/O-wait counter may go back.  It appends a line to *)
(* a log that a second monitor, the C one, may have open too.              *)
(*                                                                         *)
(* Network interfaces and disks are devices with one counter each: the     *)
(* code treats the two, and the two directions of each, alike.  Percentages *)
(* and rates are kept as the differences they are made from, and the five  *)
(* log files, which are opened and written alike, are one.  To read fails  *)
(* with an error that ends the monitor, or without a word and with some of *)
(* the devices left out.                                                   *)
(***************************************************************************)
EXTENDS Integers, SequencesExt, Summation

CONSTANTS Devices,    \* interfaces and disks there may be
          CSees,      \* those c/syswatch.c adds up: not lo, nor major 1 or 7
          Interfaces, \* all of which metrics.py looks at
          Leaves,     \* disks it looks at: not loop, ram or zram
          Stacked,    \* disks made of others, which it leaves out
          Present,    \* the devices that are there at first
          Counts,     \* values of --count, 0 for none
          Samples,    \* bound on the reports of a monitor without a count
          Events      \* bound on what happens outside, and on failures

ASSUME MonitorAssumption ==
  /\ IsFiniteSet(Devices) /\ Present \subseteq Devices
  /\ CSees \subseteq Devices
  /\ Interfaces \subseteq Devices /\ Leaves \subseteq Devices /\ Stacked \subseteq Devices
  /\ Counts \subseteq Nat /\ Samples \in Nat /\ Events \in Nat

VARIABLES program,   \* "c" or "py"
          count,     \* --count
          long,      \* --interval is above what sample_system allows
          missed,    \* a read has failed without a word
          pc,        \* "open", "cpu", "scan", "devices", "report", "log" or "done"
          have,      \* previous is a sample
          previous,  \* the last sample but one
          current,   \* the last sample
          report,    \* what is shown of the two
          shown,     \* iteration
          header,    \* the header is in the buffer of the log
          status,    \* exit status, or Running
          log,       \* the lines of the log: who wrote them, and their number
          cpu,       \* the kernel's CPU counters
          dev,       \* the counters of the devices that are there
          moved,     \* by device, what has ever been transferred
          life,      \* by device, how often it has come, gone or been reset
          back,      \* how often the I/O-wait counter has gone back
          other,     \* the second monitor: "none", "header" or "plain"
          faults,    \* calls that have failed
          lost,      \* lines that could not be written
          events     \* events still to come

toolVars   == <<program, count, long, missed, pc, have, previous, current, report, shown, header,
                status>>
kernelVars == <<cpu, dev, moved, life, back>>
logVars    == <<log, other, lost>>
vars       == <<toolVars, kernelVars, logVars, faults, events>>

Running == 9
Fields  == {"busy", "idle", "iowait"}
Mine(n)  == <<"mine", n>>    \* line 0 is the header
Their(n) == <<"their", n>>

(* seen are the devices that a sample looked for, moved, life and back what *)
(* was true of the kernel at its time.                                      *)
NoSample == [cpu |-> [f \in Fields |-> 0], seen |-> {}, dev |-> << >>,
             moved |-> [d \in Devices |-> 0], life |-> [d \in Devices |-> 0], back |-> 0]
NoReport == [busy |-> 0, total |-> 0, volume |-> 0, rows |-> {}, warned |-> {}]

Total(c) == c["busy"] + c["idle"] + c["iowait"]
Idle(c)  == c["idle"] + c["iowait"]
SafeDelta(new, old) == IF new >= old THEN new - old ELSE 0
Smaller(a, b) == IF a < b THEN a ELSE b

End(s) == pc' = "done" /\ status' = s
Event == events > 0 /\ events' = events - 1
Missed == Event /\ missed' = TRUE

-----------------------------------------------------------------------------
(* take_sample, read_linux_snapshot *)

ReadCpu ==
  /\ pc = "cpu" /\ ~long /\ (count = 0 => shown < Samples)
  /\ pc' = IF program = "c" THEN "devices" ELSE "scan"
  /\ current' = [current EXCEPT !.cpu = cpu, !.back = back]
  /\ UNCHANGED <<program, count, long, missed, have, previous, report, shown, header, status,
                 kernelVars, logVars, faults, events>>

(* sample_system of metrics.py allows 0.1 to 30 seconds, syswatch.py 3600. *)
RefuseInterval ==
  /\ pc = "cpu" /\ program = "py" /\ long /\ End(2)
  /\ UNCHANGED <<program, count, long, missed, have, previous, current, report, shown, header,
                 kernelVars, logVars, faults, events>>

(* top_level_block_devices of metrics.py decides which disks to look for. *)
Scan(disks) ==
  /\ pc = "scan" /\ pc' = "devices"
  /\ current' = [current EXCEPT !.seen = Interfaces \cup disks]
  /\ UNCHANGED <<program, count, long, have, previous, report, shown, header, status,
                 kernelVars, logVars, faults>>

ThereOf(S) == DOMAIN dev \cap S

ScanDisks == Scan(ThereOf(Leaves)) /\ UNCHANGED <<missed, events>>

(* /sys/block cannot be read: then there are none. *)
ScanFails == Scan({}) /\ Missed

(* The slaves of some cannot be read, which are then taken for leaves. *)
SlavesFail ==
  /\ \E S \in SUBSET ThereOf(Stacked) : S # {} /\ Scan(ThereOf(Leaves) \cup S)
  /\ Missed

(* What becomes of /proc/net/dev and /proc/diskstats.  The first sample is  *)
(* only remembered; with the second comes the report.                       *)
Measure(seen) ==
  /\ pc = "devices"
  /\ LET sample == [current EXCEPT !.seen = seen, !.dev = Restrict(dev, ThereOf(seen)),
                                   !.moved = moved, !.life = life]
     IN IF have THEN pc' = "report" /\ current' = sample /\ UNCHANGED previous
                ELSE pc' = "cpu" /\ previous' = sample /\ UNCHANGED current
  /\ have' = TRUE
  /\ UNCHANGED <<program, count, long, report, shown, header, status, kernelVars, logVars,
                 faults>>

ReadDevices == Measure(IF program = "c" THEN CSees ELSE current.seen)
               /\ UNCHANGED <<missed, events>>

(* An error stops fgets, which C takes for the end of the file. *)
ReadStopsShort ==
  /\ program = "c"
  /\ \E S \in SUBSET CSees : S # CSees /\ Measure(S)
  /\ Missed

(* Mutant of ReadFails: the status does not tell a loop that was left. *)
ReadFailsQuietly ==
  /\ pc \in {"cpu", "devices"} /\ ~long /\ Event
  /\ faults' = faults + 1
  /\ End(IF program = "py" THEN 2 ELSE IF have THEN 0 ELSE 1)
  /\ header' = FALSE /\ log' = IF header THEN Append(log, Mine(0)) ELSE log
  /\ UNCHANGED <<program, count, long, missed, have, previous, current, report, shown,
                 kernelVars, other, lost>>

(* A file of /proc cannot be opened, or what is read first of it is not as  *)
(* it should be: the C monitor leaves its loop and closes the log, which    *)
(* writes what is in the buffer; the status says whether it had all its     *)
(* iterations, or was to have none in particular.  So it ends, too, if it   *)
(* has opened this log but cannot open another.                             *)
ReadFails ==
  /\ pc \in {"cpu", "devices"} /\ ~long /\ Event
  /\ faults' = faults + 1
  /\ End(IF program = "py" THEN 2 ELSE IF have /\ count = 0 THEN 0 ELSE 1)
  /\ header' = FALSE /\ log' = IF header THEN Append(log, Mine(0)) ELSE log
  /\ UNCHANGED <<program, count, long, missed, have, previous, current, report, shown,
                 kernelVars, other, lost>>

-----------------------------------------------------------------------------
(* What is shown *)

(* Mutant of CReport: the differences are taken as they come. *)
CReportIdle ==
  LET total == SafeDelta(Total(current.cpu), Total(previous.cpu))
  IN [busy |-> total, total |-> total,
      volume |-> SafeDelta(Sum(current.dev, DOMAIN current.dev),
                           Sum(previous.dev, DOMAIN previous.dev)),
      rows |-> {}, warned |-> {}]

(* The loop of main of c/syswatch.c: differences of sums. *)
CReport ==
  LET total == SafeDelta(Total(current.cpu), Total(previous.cpu))
      idle == Smaller(SafeDelta(Idle(current.cpu), Idle(previous.cpu)), total)
  IN [busy |-> total - idle, total |-> total,
      volume |-> SafeDelta(Sum(current.dev, DOMAIN current.dev),
                           Sum(previous.dev, DOMAIN previous.dev)),
      rows |-> {}, warned |-> {}]

(* cpu_utilization raises ValueError. *)
PyRefuses == \/ \E f \in Fields : current.cpu[f] < previous.cpu[f]
             \/ Total(current.cpu) <= Total(previous.cpu)

(* The rest of cpu_utilization, where no counter has gone back. *)
PyBusy == Total(current.cpu) - Total(previous.cpu)
             - (Idle(current.cpu) - Idle(previous.cpu))

Either == DOMAIN previous.dev \cup DOMAIN current.dev

(* Mutant of Rated: a counter that stands still counts as reset. *)
RatedGrown == {d \in DOMAIN previous.dev \cap DOMAIN current.dev :
                 current.dev[d] > previous.dev[d]}

(* network_rates, disk_rates: differences of the devices seen both times. *)
Rated == {d \in DOMAIN previous.dev \cap DOMAIN current.dev :
            current.dev[d] >= previous.dev[d]}

PyReport ==
  [busy |-> PyBusy,
   total |-> Total(current.cpu) - Total(previous.cpu),
   volume |-> Sum([d \in Rated |-> current.dev[d] - previous.dev[d]], Rated),
   rows |-> Rated, warned |-> Either \ Rated]

Report ==
  /\ pc = "report"
  /\ IF program = "py" /\ PyRefuses
     THEN End(2) /\ UNCHANGED report
     ELSE /\ report' = IF program = "py" THEN PyReport ELSE CReport
          /\ pc' = "log" /\ UNCHANGED status
  /\ UNCHANGED <<program, count, long, missed, have, previous, current, shown, header, kernelVars,
                 logVars, faults, events>>

-----------------------------------------------------------------------------
(* The log *)

(* open_log: an empty file is to have a header, which waits in the buffer. *)
OpenLog ==
  /\ pc = "open"
  /\ header' = (program = "c" /\ log = << >>)
  /\ pc' = "cpu"
  /\ UNCHANGED <<program, count, long, missed, have, previous, current, report, shown, status,
                 kernelVars, logVars, faults, events>>

OpenFails ==
  /\ pc = "open" /\ program = "c" /\ Event
  /\ faults' = faults + 1
  /\ End(1)
  /\ UNCHANGED <<program, count, long, missed, have, previous, current, report, shown, header,
                 kernelVars, logVars>>

(* The end of an iteration: C goes on from this sample, Python afresh. *)
Iterated ==
  /\ shown' = shown + 1
  /\ previous' = IF program = "c" THEN current ELSE NoSample
  /\ have' = (program = "c")
  /\ current' = NoSample /\ report' = NoReport
  /\ IF shown' = count THEN End(0) ELSE pc' = "cpu" /\ UNCHANGED status

(* Mutant of AppendLine: the header goes out with every line. *)
AppendHeaderAgain ==
  /\ pc = "log"
  /\ log' = log \o (IF program = "c" THEN <<Mine(0)>> ELSE << >>) \o <<Mine(shown + 1)>>
  /\ header' = FALSE
  /\ Iterated
  /\ UNCHANGED <<program, count, long, missed, kernelVars, other, lost, faults, events>>

(* The buffer is written at the end of the file, wherever that is by now:   *)
(* fflush of c/syswatch.c, the close of log_metrics.                        *)
AppendLine ==
  /\ pc = "log"
  /\ log' = log \o (IF header THEN <<Mine(0)>> ELSE << >>) \o <<Mine(shown + 1)>>
  /\ header' = FALSE
  /\ Iterated
  /\ UNCHANGED <<program, count, long, missed, kernelVars, other, lost, faults, events>>

(* The file system is full.  C takes no notice, and what was in the buffer  *)
(* is gone; Python gives up, also if it cannot open the file.               *)
AppendFails ==
  /\ pc = "log" /\ Event
  /\ faults' = faults + 1 /\ lost' = lost + 1
  /\ header' = FALSE
  /\ IF program = "c" THEN Iterated
     ELSE shown' = shown + 1 /\ End(2) /\ UNCHANGED <<have, previous, current, report>>
  /\ UNCHANGED <<program, count, long, missed, kernelVars, log, other>>

Tool == \/ ReadCpu \/ RefuseInterval \/ ScanDisks \/ ScanFails \/ SlavesFail
        \/ ReadDevices \/ ReadStopsShort \/ ReadFails \/ Report
        \/ OpenLog \/ OpenFails \/ AppendLine \/ AppendFails

-----------------------------------------------------------------------------
(* The kernel *)

Outside == pc # "done" /\ Event /\ UNCHANGED <<toolVars, faults>>

CpuRuns(f) ==
  /\ Outside
  /\ cpu' = [cpu EXCEPT ![f] = @ + 1]
  /\ UNCHANGED <<dev, moved, life, back, logVars>>

(* The I/O wait of a processor is moved to another, and counted anew. *)
WaitGoesBack ==
  /\ Outside
  /\ cpu["iowait"] > 0
  /\ cpu' = [cpu EXCEPT !["iowait"] = @ - 1]
  /\ back' = back + 1
  /\ UNCHANGED <<dev, moved, life, logVars>>

Transfers(d) ==
  /\ Outside
  /\ d \in DOMAIN dev
  /\ dev' = [dev EXCEPT ![d] = @ + 1]
  /\ moved' = [moved EXCEPT ![d] = @ + 1]
  /\ UNCHANGED <<cpu, life, back, logVars>>

Goes(d) ==
  /\ Outside
  /\ d \in DOMAIN dev
  /\ dev' = Restrict(dev, DOMAIN dev \ {d})
  /\ life' = [life EXCEPT ![d] = @ + 1]
  /\ UNCHANGED <<cpu, moved, back, logVars>>

(* A device comes, or is reset. *)
Comes(d) ==
  /\ Outside
  /\ dev' = [e \in DOMAIN dev \cup {d} |-> IF e = d THEN 0 ELSE dev[e]]
  /\ life' = [life EXCEPT ![d] = @ + 1]
  /\ UNCHANGED <<cpu, moved, back, logVars>>

(* Another C monitor opens the log, and flushes a line to it. *)
OtherOpens ==
  /\ Outside
  /\ other = "none" /\ other' = IF log = << >> THEN "header" ELSE "plain"
  /\ UNCHANGED <<kernelVars, log, lost>>

OtherAppends ==
  /\ Outside
  /\ other # "none" /\ other' = "plain"
  /\ log' = log \o (IF other = "header" THEN <<Their(0)>> ELSE << >>) \o <<Their(1)>>
  /\ UNCHANGED <<kernelVars, lost>>

Others == \/ \E f \in Fields : CpuRuns(f)
          \/ WaitGoesBack
          \/ \E d \in Devices : Transfers(d) \/ Goes(d) \/ Comes(d)
          \/ OtherOpens \/ OtherAppends

-----------------------------------------------------------------------------

Init ==
  /\ program \in {"c", "py"}
  /\ count \in Counts /\ (program = "py" => count > 0)
  /\ long \in BOOLEAN /\ (program = "c" => ~long) /\ missed = FALSE
  /\ pc = "open" /\ have = FALSE /\ shown = 0 /\ header = FALSE /\ status = Running
  /\ log \in {<< >>, <<Their(0), Their(1)>>} /\ other = "none"
  /\ cpu = [f \in Fields |-> 1]
  /\ dev = [d \in Present |-> 1]
  /\ moved = [d \in Devices |-> 0] /\ life = [d \in Devices |-> 0] /\ back = 0
  /\ previous = NoSample /\ current = NoSample /\ report = NoReport
  /\ faults = 0 /\ lost = 0 /\ events = Events

Next == Tool \/ Others

Spec == Init /\ [][Next]_vars

-----------------------------------------------------------------------------
(* Type invariant. *)

AreCounters(f) == DOMAIN f \subseteq Devices /\ f \in [DOMAIN f -> Nat]
IsSample(s) ==
  /\ s \in [cpu: [Fields -> Nat], seen: SUBSET Devices, dev: {s.dev}, moved: [Devices -> Nat],
             life: [Devices -> Nat], back: Nat]
  /\ AreCounters(s.dev)

TypeOK ==
  /\ program \in {"c", "py"} /\ count \in Counts /\ long \in BOOLEAN /\ missed \in BOOLEAN
  /\ pc \in {"open", "cpu", "scan", "devices", "report", "log", "done"}
  /\ have \in BOOLEAN /\ header \in BOOLEAN
  /\ IsSample(previous) /\ IsSample(current)
  /\ report \in [busy: Int, total: Int, volume: Int, rows: SUBSET Devices, warned: SUBSET Devices]
  /\ shown \in Nat
  /\ status \in {0, 1, 2, Running} /\ (status = Running <=> pc # "done")
  /\ log \in Seq({"mine", "their"} \X Nat)
  /\ cpu \in [Fields -> Nat] /\ AreCounters(dev)
  /\ moved \in [Devices -> Nat] /\ life \in [Devices -> Nat] /\ back \in Nat
  /\ other \in {"none", "header", "plain"}
  /\ faults \in Nat /\ lost \in Nat /\ events \in Nat

-----------------------------------------------------------------------------
(* Safety *)

Moved(S) == Sum([d \in S |-> current.moved[d] - previous.moved[d]], S)
Steady(d) == current.life[d] = previous.life[d]
Busy == current.cpu["busy"] - previous.cpu["busy"]

(* What both samples looked for, and what C has in its second sum only,     *)
(* because its first sample stopped short.                                  *)
Compared == previous.seen \cap current.seen
Unknown  == IF program = "c" THEN DOMAIN current.dev \ previous.seen ELSE {}

(* However the I/O wait goes back and devices come, go and are reset        *)
(* between the two samples, the busy share is at most all and no more than  *)
(* was busy, and the transfers are no more than went through the devices    *)
(* that both samples looked for; but a device that C's first sample missed  *)
(* counts with all it has transferred since it came.                        *)
NeverOverstates ==
  pc = "log" => /\ report.busy <= report.total
                /\ report.busy <= Busy
                /\ report.volume <= Moved(Compared) + Sum(current.dev, Unknown)

(* What a report leaves out it does for a reason.  With steady counters it  *)
(* is exact about the devices that were looked for, if these are the same   *)
(* both times; and a device that the first sample found and that stays is   *)
(* found by the second, unless a read has failed without a word.  Python    *)
(* shows each device that it saw at either time in a row or in a warning,   *)
(* and what becomes of one takes nothing away from what the others have     *)
(* transferred.                                                             *)
ShortfallExplained ==
  pc = "log" =>
    /\ current.back = previous.back =>
         report.busy = Busy /\ report.total = Total(current.cpu) - Total(previous.cpu)
    /\ previous.seen = current.seen /\ (\A d \in current.seen : Steady(d)) =>
         report.volume = Moved(Compared) /\ report.warned = {}
    /\ ~missed => \A d \in DOMAIN previous.dev : Steady(d) => d \in DOMAIN current.dev
    /\ program = "py" =>
         /\ \A d \in Either : d \in report.rows <=> d \notin report.warned
         /\ report.volume >= Moved({d \in Compared : Steady(d)})

(* The exit status: 0 means that all reports asked for were made, and in    *)
(* Python also logged; but without a count a monitor that cannot read its   *)
(* sample ends with 0 too.  Without an error Python gives up only when a    *)
(* CPU counter went back or none advanced, or when its sampler does not     *)
(* allow the interval that its command line does.                           *)
StatusTruthful ==
  pc = "done" =>
    /\ status = 0 /\ count > 0 => shown = count /\ (program = "py" => lost = 0)
    /\ status = 0 /\ count = 0 => faults > 0
    /\ status # 0 /\ faults = 0 => program = "py" /\ (long \/ (have /\ PyRefuses))

Headers == {i \in DOMAIN log : log[i][2] = 0}
MyLines == {i \in DOMAIN log : log[i][1] = "mine" /\ log[i][2] > 0}

(* The log has a line for each report, in order, except those that could    *)
(* not be written; a log that only C monitors write begins with its header, *)
(* unless that could not be written, and has a second one only if two       *)
(* monitors found it empty.                                                 *)
LogFaithful ==
  /\ \A i, j \in MyLines : i < j => log[i][2] < log[j][2]
  /\ Cardinality(MyLines) + lost = shown
  /\ program = "c" /\ lost = 0 =>
       /\ log # << >> => 1 \in Headers
       /\ \A i \in Headers \ {1} : log[i][1] # log[1][1]
=============================================================================
